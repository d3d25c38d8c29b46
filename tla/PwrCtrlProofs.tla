--------------------------- MODULE PwrCtrlProofs ---------------------------
(***************************************************************************)
(* Power saving implements PowerLease, for any set of callers.  The        *)
(* argument is the one of the two unlocked variables: the command thread   *)
(* sets ps_processing before it looks at ips_deny_time, a caller opens its *)
(* window before it looks at ps_processing.  So once the thread has found  *)
(* every window closed, whoever comes sees ps_processing, and either waits *)
(* for the thread or gives up and gets no lease.  pwrctrl_priv.lock plays  *)
(* no part in it.                                                          *)
(***************************************************************************)
EXTENDS PwrCtrl, ApSleep, FiniteSetTheorems, SequenceTheorems, WellFoundedInduction, TLAPS

\* What the proof needs of the types.
PwPlaces == {"out", "wait", "look", "leave", "up", "check", "lps1"}
PwTyped ==
    /\ pwChip \in BOOLEAN
    /\ pwPc \in [PwCallers -> PwPlaces]
    /\ pwRet \in [PwCallers -> BOOLEAN]

\* ps_processing is set for as long as rtw_ps_processor runs.
PsProcessing ==
    /\ pw \in Pwrctrl
    /\ pwCmd \in {"ps1", "ps2", "ps3", "ps4"} => pw.ps

\* The window of a caller is open while the caller is inside the call, and
\* while it has a lease.
WindowsOpen ==
    /\ pwLease \subseteq pwDeny
    /\ \A c \in PwCallers :
          pwPc[c] \in {"wait", "look", "leave", "up", "check"} => c \in pwDeny

\* From the decision to switch the chip off until it is off, nobody has a
\* lease and nobody inside _rtw_pwr_wakeup can get one.
NoLeaseComes ==
    pwCmd \in {"ps2", "ps3"} =>
        /\ pwLease = {} /\ ~pwLink
        /\ \A c \in PwCallers :
              pwPc[c] \in {"look", "leave", "up", "check"} => pwRet[c]

\* The chip is powered under a link and under a lease.
Powered == (pwLink \/ pwLease # {}) => pwChip

LeaseInv == PwTyped /\ PsProcessing /\ WindowsOpen /\ NoLeaseComes /\ Powered

LEMMA LeaseInvInit == PwInit => LeaseInv
  <1> SUFFICES ASSUME PwInit PROVE LeaseInv
    OBVIOUS
  <1>1. pw \in Pwrctrl /\ pwCmd = "idle"
    BY DEF PwInit, rtw_init_pwrctrl_priv, Pwrctrl
  <1>2. PwTyped /\ WindowsOpen /\ NoLeaseComes /\ Powered
    BY DEF PwInit, PwTyped, PwPlaces, WindowsOpen, NoLeaseComes, Powered
  <1> QED BY <1>1, <1>2 DEF LeaseInv, PsProcessing

\* The record of pwrctrl_priv through every action.
LEMMA PsProcessingNext == PsProcessing /\ [PwNext]_pwVars => PsProcessing'
  <1> SUFFICES ASSUME PsProcessing, [PwNext]_pwVars PROVE PsProcessing'
    OBVIOUS
  <1> USE DEF PsProcessing, Pwrctrl
  <1>0. Left \in Pwrctrl /\ Left.ps = pw.ps
    BY DEF Left
  <1>L. LPS_Leave => pw' \in Pwrctrl /\ pw'.ps = pw.ps
    BY <1>0 DEF LPS_Leave
  <1>1. CASE PsBegin
    BY <1>1 DEF PsBegin
  <1>2. CASE PsDecide
    BY <1>2 DEF PsDecide
  <1>3. CASE PsLock
    BY <1>3 DEF PsLock
  <1>4. CASE rtw_ips_enter
    BY <1>4 DEF rtw_ips_enter
  <1>5. CASE PsEnd
    BY <1>5 DEF PsEnd
  <1>6. CASE SetPsMode
    BY <1>6 DEF SetPsMode, PS_RDY_CHECK
  <1>7. CASE traffic_status_watchdog
    <2>1. CASE LPS_Enter
      BY <1>7, <2>1 DEF traffic_status_watchdog, LPS_Enter
    <2>2. CASE LPS_Leave /\ UNCHANGED pwCmd
      BY <1>7, <2>2, <1>L
    <2> QED BY <1>7, <2>1, <2>2 DEF traffic_status_watchdog
  <1>8. CASE lps_ctrl_wk_hdl
    BY <1>8, <1>L DEF lps_ctrl_wk_hdl
  <1>9. CASE Connect
    BY <1>9 DEF Connect
  <1>10. CASE Disconnect
    BY <1>10 DEF Disconnect
  <1>11. CASE Suspend
    <2> DEFINE r == IF pw.leisure /\ pw.mode # "active" THEN Left ELSE pw
    <2>1. r \in Pwrctrl
      BY <1>0
    <2>2. pw' = [r EXCEPT !.suspend = TRUE] /\ pwCmd = "idle" /\ pwCmd' = pwCmd
      BY <1>11 DEF Suspend
    <2> HIDE DEF r
    <2> QED BY <2>1, <2>2
  <1>12. CASE rtw_resume_process
    BY <1>12 DEF rtw_resume_process
  <1>13. ASSUME NEW c \in PwCallers, WakeupBegin(c) PROVE PsProcessing'
    BY <1>13 DEF WakeupBegin
  <1>14. ASSUME NEW c \in PwCallers, WakeupWaited(c) PROVE PsProcessing'
    BY <1>14 DEF WakeupWaited
  <1>15. ASSUME NEW c \in PwCallers, WakeupLook(c) PROVE PsProcessing'
    BY <1>15 DEF WakeupLook, Return
  <1>16. ASSUME NEW c \in PwCallers, IpsLeaveLock(c) PROVE PsProcessing'
    BY <1>16 DEF IpsLeaveLock
  <1>17. ASSUME NEW c \in PwCallers, rtw_ips_leave(c) PROVE PsProcessing'
    BY <1>17 DEF rtw_ips_leave, Return
  <1>18. ASSUME NEW c \in PwCallers, WakeupCheck(c) PROVE PsProcessing'
    BY <1>18 DEF WakeupCheck, Return
  <1>19. ASSUME NEW c \in PwCallers, PmLpsOffEnd(c) PROVE PsProcessing'
    BY <1>19 DEF PmLpsOffEnd
  <1>20. ASSUME NEW c \in PwCallers, WindowEnds(c) PROVE PsProcessing'
    BY <1>20 DEF WindowEnds
  <1>21. ASSUME NEW c \in PwCallers, rtw_pm_set_ips(c) PROVE PsProcessing'
    BY <1>21 DEF rtw_pm_set_ips
  <1>22. ASSUME NEW c \in PwCallers, PmLpsOff(c) PROVE PsProcessing'
    BY <1>22, <1>L DEF PmLpsOff
  <1>23. ASSUME NEW c \in PwCallers, PmLpsOn(c) PROVE PsProcessing'
    <2>1. /\ UNCHANGED pwCmd
          /\ pw' = [pw EXCEPT !.idle = 2, !.mgnt = "min", !.leisure = TRUE]
      BY <1>23 DEF PmLpsOn
    <2>2. 2 \in 0..2
      OBVIOUS
    <2>3. pw' \in Pwrctrl
      BY <2>1, <2>2, Zenon
    <2>4. pw'.ps = pw.ps
      BY <2>1
    <2> QED BY <2>1, <2>3, <2>4
  <1>24. CASE UNCHANGED pwVars
    BY <1>24 DEF pwVars
  <1> HIDE DEF PsProcessing
  <1> QED
    BY <1>1, <1>2, <1>3, <1>4, <1>5, <1>6, <1>7, <1>8, <1>9, <1>10, <1>11, <1>12,
       <1>13, <1>14, <1>15, <1>16, <1>17, <1>18, <1>19, <1>20, <1>21, <1>22, <1>23,
       <1>24 DEF PwNext, CmdSteps, CallerSteps

LEMMA LeaseInvNext == LeaseInv /\ [PwNext]_pwVars => LeaseInv'
  <1> SUFFICES ASSUME LeaseInv, [PwNext]_pwVars
               PROVE  (PwTyped /\ WindowsOpen /\ NoLeaseComes /\ Powered)'
    BY PsProcessingNext DEF LeaseInv
  <1> DEFINE Goal == (PwTyped /\ WindowsOpen /\ NoLeaseComes /\ Powered)'
  <1>0. /\ PwTyped /\ WindowsOpen /\ NoLeaseComes /\ Powered
        /\ pwCmd \in {"ps1", "ps2", "ps3", "ps4"} => pw.ps
    BY DEF LeaseInv, PsProcessing
  <1> USE <1>0 DEF PwTyped, PwPlaces, WindowsOpen, NoLeaseComes, Powered, To
  <1>1. CASE PsBegin
    BY <1>1 DEF PsBegin
  <1>2. CASE PsDecide
    BY <1>2 DEF PsDecide, rtw_pwr_unassociated_idle
  <1>3. CASE PsLock
    BY <1>3 DEF PsLock
  <1>4. CASE rtw_ips_enter
    BY <1>4 DEF rtw_ips_enter
  <1>5. CASE PsEnd
    BY <1>5 DEF PsEnd
  <1>6. CASE SetPsMode
    BY <1>6 DEF SetPsMode
  <1>7. CASE traffic_status_watchdog
    BY <1>7 DEF traffic_status_watchdog, LPS_Enter
  <1>8. CASE lps_ctrl_wk_hdl
    BY <1>8 DEF lps_ctrl_wk_hdl
  <1>9. CASE Connect
    BY <1>9 DEF Connect
  <1>10. CASE Disconnect
    BY <1>10 DEF Disconnect
  <1>11. CASE Suspend
    BY <1>11 DEF Suspend
  <1>12. CASE rtw_resume_process
    BY <1>12 DEF rtw_resume_process
  <1>13. ASSUME NEW c \in PwCallers, WakeupBegin(c) PROVE Goal
    BY <1>13 DEF WakeupBegin
  <1>14. ASSUME NEW c \in PwCallers, WakeupWaited(c) PROVE Goal
    BY <1>14 DEF WakeupWaited
  <1>15. ASSUME NEW c \in PwCallers, WakeupLook(c) PROVE Goal
    BY <1>15 DEF WakeupLook, Return
  <1>16. ASSUME NEW c \in PwCallers, IpsLeaveLock(c) PROVE Goal
    BY <1>16 DEF IpsLeaveLock
  <1>17. ASSUME NEW c \in PwCallers, rtw_ips_leave(c) PROVE Goal
    BY <1>17 DEF rtw_ips_leave, Return
  <1>18. ASSUME NEW c \in PwCallers, WakeupCheck(c) PROVE Goal
    BY <1>18 DEF WakeupCheck, Return
  <1>19. ASSUME NEW c \in PwCallers, PmLpsOffEnd(c) PROVE Goal
    BY <1>19 DEF PmLpsOffEnd
  <1>20. ASSUME NEW c \in PwCallers, WindowEnds(c) PROVE Goal
    BY <1>20 DEF WindowEnds
  <1>21. ASSUME NEW c \in PwCallers, rtw_pm_set_ips(c) PROVE Goal
    BY <1>21 DEF rtw_pm_set_ips
  <1>22. ASSUME NEW c \in PwCallers, PmLpsOff(c) PROVE Goal
    BY <1>22 DEF PmLpsOff
  <1>23. ASSUME NEW c \in PwCallers, PmLpsOn(c) PROVE Goal
    BY <1>23 DEF PmLpsOn
  <1>24. CASE UNCHANGED pwVars
    BY <1>24 DEF pwVars
  <1> HIDE DEF Goal, PwTyped, WindowsOpen, NoLeaseComes, Powered
  <1> QED
    BY <1>1, <1>2, <1>3, <1>4, <1>5, <1>6, <1>7, <1>8, <1>9, <1>10, <1>11, <1>12,
       <1>13, <1>14, <1>15, <1>16, <1>17, <1>18, <1>19, <1>20, <1>21, <1>22, <1>23,
       <1>24 DEF PwNext, CmdSteps, CallerSteps, Goal

-----------------------------------------------------------------------------
\* Every step of power saving is a step of the lease or leaves it alone.
LEMMA LeaseStep == LeaseInv /\ [PwNext]_pwVars => [Lease!LeaseNext]_(Lease!leaseVars)
  <1> SUFFICES ASSUME LeaseInv, [PwNext]_pwVars
               PROVE  [Lease!LeaseNext]_(Lease!leaseVars)
    OBVIOUS
  <1> DEFINE Same == UNCHANGED <<pwChip, pwLease>>
  <1>0. Same => UNCHANGED Lease!leaseVars
    BY DEF Lease!leaseVars
  \* The actions that write neither.
  <1>1. CASE PsBegin \/ PsDecide \/ PsLock \/ PsEnd \/ SetPsMode
             \/ traffic_status_watchdog \/ lps_ctrl_wk_hdl \/ Connect \/ Disconnect
    <2> Same
      BY <1>1 DEF PsBegin, PsDecide, PsLock, PsEnd, SetPsMode, traffic_status_watchdog,
                  lps_ctrl_wk_hdl, Connect, Disconnect
    <2> QED BY <1>0
  <1>2. ASSUME NEW c \in PwCallers,
               WakeupBegin(c) \/ WakeupWaited(c) \/ IpsLeaveLock(c) \/ PmLpsOffEnd(c)
               \/ rtw_pm_set_ips(c) \/ PmLpsOff(c) \/ PmLpsOn(c)
        PROVE  Same
    BY <1>2 DEF WakeupBegin, WakeupWaited, IpsLeaveLock, PmLpsOffEnd, rtw_pm_set_ips,
                PmLpsOff, PmLpsOn
  <1>3. CASE rtw_ips_enter
    <2>1. pwLease = {} /\ pwChip' = FALSE /\ pwLease' = pwLease
      BY <1>3 DEF rtw_ips_enter, LeaseInv, NoLeaseComes
    <2>2. Lease!PowerOff
      BY <2>1 DEF Lease!PowerOff
    <2> QED BY <2>2 DEF Lease!LeaseNext
  <1>4. CASE Suspend
    <2>1. pwChip' = FALSE /\ pwLease' = {}
      BY <1>4 DEF Suspend
    <2>2. Lease!SystemSuspend
      BY <2>1 DEF Lease!SystemSuspend
    <2> QED BY <2>2 DEF Lease!LeaseNext
  <1>5. CASE rtw_resume_process
    <2>1. pwChip' = TRUE /\ pwLease' = pwLease
      BY <1>5 DEF rtw_resume_process
    <2>2. Lease!PowerOn
      BY <2>1 DEF Lease!PowerOn
    <2> QED BY <2>2 DEF Lease!LeaseNext
  \* A return of _rtw_pwr_wakeup grants a lease only when the chip is powered.
  <1>6. ASSUME NEW c \in PwCallers, NEW ok \in BOOLEAN, Return(c, ok),
               pwChip' = pwChip, ok => pwChip
        PROVE  [Lease!LeaseNext]_(Lease!leaseVars)
    <2>1. CASE ok /\ ~pwRet[c]
      <3>1. pwChip /\ pwChip' = pwChip /\ pwLease' = pwLease \cup {c}
        BY <1>6, <2>1 DEF Return
      <3>2. Lease!Grant(c)
        BY <3>1 DEF Lease!Grant
      <3> QED BY <3>2 DEF Lease!LeaseNext
    <2>2. CASE ~(ok /\ ~pwRet[c])
      <3> Same
        BY <1>6, <2>2 DEF Return
      <3> QED BY <1>0
    <2> QED BY <2>1, <2>2
  <1>7. ASSUME NEW c \in PwCallers, WakeupLook(c)
        PROVE  [Lease!LeaseNext]_(Lease!leaseVars)
    <2>1. pwChip' = pwChip
      BY <1>7 DEF WakeupLook
    <2>2. CASE pw.suspend /\ Return(c, FALSE)
      BY <2>1, <2>2, <1>6
    <2>3. CASE pwLink /\ Return(c, TRUE)
      <3>1. pwChip
        BY <2>3 DEF LeaseInv, Powered
      <3> QED BY <2>1, <2>3, <3>1, <1>6
    <2>4. CASE UNCHANGED <<pwDeny, pwLease>>
      <3> Same BY <2>1, <2>4
      <3> QED BY <1>0
    <2> QED BY <1>7, <2>2, <2>3, <2>4 DEF WakeupLook
  <1>8. ASSUME NEW c \in PwCallers, rtw_ips_leave(c)
        PROVE  [Lease!LeaseNext]_(Lease!leaseVars)
    <2>1. CASE pwChip' = TRUE /\ UNCHANGED <<pwDeny, pwLease>>
      <3>1. Lease!PowerOn
        BY <2>1 DEF Lease!PowerOn
      <3> QED BY <3>1 DEF Lease!LeaseNext
    <2>2. CASE Return(c, FALSE) /\ UNCHANGED <<pwChip, pwFw>>
      BY <2>2, <1>6
    <2> QED BY <1>8, <2>1, <2>2 DEF rtw_ips_leave
  <1>9. ASSUME NEW c \in PwCallers, WakeupCheck(c)
        PROVE  [Lease!LeaseNext]_(Lease!leaseVars)
    <2>1. pwChip \in BOOLEAN /\ pwChip' = pwChip /\ Return(c, pwChip)
      BY <1>9 DEF WakeupCheck, LeaseInv, PwTyped
    <2> QED BY <2>1, <1>6
  <1>10. ASSUME NEW c \in PwCallers, WindowEnds(c)
         PROVE  [Lease!LeaseNext]_(Lease!leaseVars)
    <2>1. pwChip' = pwChip /\ pwLease' = pwLease \ {c}
      BY <1>10 DEF WindowEnds
    <2>2. CASE c \in pwLease
      <3>1. Lease!Lapse(c)
        BY <2>1, <2>2 DEF Lease!Lapse
      <3> QED BY <3>1 DEF Lease!LeaseNext
    <2>3. CASE c \notin pwLease
      <3> Same BY <2>1, <2>3
      <3> QED BY <1>0
    <2> QED BY <2>2, <2>3
  <1>11. CASE UNCHANGED pwVars
    <2> Same BY <1>11 DEF pwVars
    <2> QED BY <1>0
  <1> HIDE DEF Same
  <1> QED
    BY <1>0, <1>1, <1>2, <1>3, <1>4, <1>5, <1>7, <1>8, <1>9, <1>10, <1>11
    DEF PwNext, CmdSteps, CallerSteps

\* Power saving implements the lease (LeaseKept): nobody told _SUCCESS by
\* _rtw_pwr_wakeup loses the chip to rtw_ips_enter inside its window, for any
\* number of callers and any interleaving with the command thread.
THEOREM LeaseImplemented == PwSpec => LeaseKept
  <1>1. PwInit => Lease!LeaseInit
    BY DEF PwInit, Lease!LeaseInit
  <1>2. LeaseInv /\ [PwNext]_pwVars => [Lease!LeaseNext]_(Lease!leaseVars)
    BY LeaseStep
  <1> QED
    BY <1>1, <1>2, LeaseInvInit, LeaseInvNext, PTL DEF PwSpec, LeaseKept, Lease!LeaseSpec

\* The chip is powered whenever a caller of _rtw_pwr_wakeup has a lease and
\* whenever there is a link (Powered), although rtw_ips_enter, a suspend and
\* the end of a link on another thread come at any time.
THEOREM LeasePowered == PwSpec => []Powered
  <1>1. LeaseInv => Powered
    BY DEF LeaseInv
  <1> QED
    BY <1>1, LeaseInvInit, LeaseInvNext, PTL DEF PwSpec
-----------------------------------------------------------------------------
(***************************************************************************)
(* Access point mode: frames for stations that doze (ApSleep).             *)
(*                                                                         *)
(* First the two recursive functions of the model, Only (a loop over a     *)
(* list) and Total (the frames of some lists).  An induction over them is  *)
(* an argument about the least number at which a statement fails.          *)
(***************************************************************************)
\* A set of numbers that is not empty has a least one: the inductions below
\* are arguments about the least number at which a statement fails.
LEMMA SlLeast ==
  ASSUME NEW T \in SUBSET Nat, T # {}
  PROVE  \E k \in T : \A j \in T : ~ (j < k)
  <1>1. \E k \in T : \A j \in T : ~ (<<j, k>> \in OpToRel(<, Nat))
    BY NatLessThanWellFounded, WFMin
  <1> QED
    BY <1>1 DEF OpToRel

\* f is the loop of Only over the first m frames of q: the frames of S among
\* the first n, for every n.
OnlyUpTo(q, S, m, f) ==
    f = [n \in 0 .. m |->
            IF n = 0 THEN << >>
            ELSE IF q[n] \in S THEN Append(f[n - 1], q[n]) ELSE f[n - 1]]

\* The loop of Only comes to the end of every list.
LEMMA OnlyExists ==
  ASSUME NEW q, NEW S, NEW m \in Nat
  PROVE  \E f : OnlyUpTo(q, S, m, f)
  <1> DEFINE Fails == {k \in Nat : ~ \E f : OnlyUpTo(q, S, k, f)}
  <1> SUFFICES ASSUME Fails # {} PROVE FALSE
    OBVIOUS
  <1>1. PICK k \in Fails : \A j \in Fails : ~ (j < k)
    <2>1. Fails \in SUBSET Nat
      OBVIOUS
    <2> HIDE DEF Fails
    <2> QED
      BY <2>1, SlLeast
  <1>2. k \in Nat /\ ~ \E f : OnlyUpTo(q, S, k, f)
    OBVIOUS
  <1>3. CASE k = 0
    <2> DEFINE f == [n \in 0 .. 0 |-> << >>]
    <2>1. OnlyUpTo(q, S, 0, f)
      <3>1. \A n \in 0 .. 0 : n = 0
        OBVIOUS
      <3> QED
        BY <3>1, Zenon DEF OnlyUpTo
    <2> QED
      BY <1>2, <1>3, <2>1
  <1>4. CASE k # 0
    <2>1. k - 1 \in Nat /\ k - 1 \notin Fails
      BY <1>1, <1>2, <1>4
    <2>2. PICK f : OnlyUpTo(q, S, k - 1, f)
      BY <2>1
    <2> DEFINE g == [n \in 0 .. k |->
                       IF n = k THEN IF q[k] \in S THEN Append(f[k - 1], q[k])
                                                   ELSE f[k - 1]
                       ELSE f[n]]
               E(n) == IF n = 0 THEN << >>
                       ELSE IF q[n] \in S THEN Append(g[n - 1], q[n]) ELSE g[n - 1]
    <2>3. ASSUME NEW n \in 0 .. k PROVE g[n] = E(n)
      <3>1. CASE n = k
        <4>1. n # 0 /\ n - 1 \in 0 .. k /\ n - 1 # k
          BY <1>2, <1>4, <3>1
        <4>2. g[n - 1] = f[n - 1]
          BY <4>1
        <4> QED
          BY <3>1, <4>1, <4>2
      <3>2. CASE n # k /\ n # 0
        <4>1. n \in 0 .. k - 1 /\ n - 1 \in 0 .. k /\ n - 1 # k
          BY <1>2, <3>2
        <4>2. g[n - 1] = f[n - 1] /\ g[n] = f[n]
          BY <3>2, <4>1
        <4>3. f[n] = IF n = 0 THEN << >>
                     ELSE IF q[n] \in S THEN Append(f[n - 1], q[n]) ELSE f[n - 1]
          BY <2>2, <4>1, Zenon DEF OnlyUpTo
        <4> QED
          BY <3>2, <4>2, <4>3
      <3>3. CASE n # k /\ n = 0
        <4>1. 0 \in 0 .. k - 1
          BY <1>2, <3>3
        <4>2. f[0] = << >>
          BY <2>2, <4>1, Zenon DEF OnlyUpTo
        <4> QED
          BY <3>3, <4>2
      <3> QED
        BY <3>1, <3>2, <3>3
    <2>4. g = [n \in 0 .. k |-> E(n)]
      <3>1. g = [n \in 0 .. k |-> g[n]]
        OBVIOUS
      <3> HIDE DEF g
      <3> QED
        BY <2>3, <3>1, Zenon
    <2>5. OnlyUpTo(q, S, k, g)
      BY <2>4, Zenon DEF OnlyUpTo
    <2> QED
      BY <1>2, <2>5
  <1> QED
    BY <1>3, <1>4

\* Only, as the value of its loop after the last frame.
LEMMA OnlyLoop ==
  ASSUME NEW q, NEW S, Len(q) \in Nat
  PROVE  \E f : /\ Only(q, S) = f[Len(q)] /\ f[0] = << >>
                /\ \A n \in 1 .. Len(q) :
                      f[n] = IF q[n] \in S THEN Append(f[n - 1], q[n]) ELSE f[n - 1]
  <1> DEFINE f == CHOOSE f : OnlyUpTo(q, S, Len(q), f)
  <1>1. OnlyUpTo(q, S, Len(q), f)
    BY OnlyExists, Zenon
  <1>2. Only(q, S) = f[Len(q)]
    BY Zenon DEF Only, OnlyUpTo
  <1> HIDE DEF f
  <1>3. f[0] = << >>
    <2>1. 0 \in 0 .. Len(q)
      OBVIOUS
    <2> QED
      BY <1>1, <2>1, Zenon DEF OnlyUpTo
  <1>4. ASSUME NEW n \in 1 .. Len(q)
        PROVE  f[n] = IF q[n] \in S THEN Append(f[n - 1], q[n]) ELSE f[n - 1]
    <2>1. n \in 0 .. Len(q) /\ n # 0
      OBVIOUS
    <2> QED
      BY <1>1, <2>1, Zenon DEF OnlyUpTo
  <1> QED
    BY <1>2, <1>3, <1>4

\* What Only takes: frames of q that are in S, none exactly when q has none of
\* them; and with S1 and S2 every frame is taken once.
LEMMA OnlyTakes ==
  ASSUME NEW T, NEW q \in Seq(T), NEW S
  PROVE  /\ Only(q, S) \in Seq(T \cap S)
         /\ Only(q, S) = << >> <=> \A i \in 1 .. Len(q) : q[i] \notin S
  <1> DEFINE N == Len(q)
  <1>0. N \in Nat /\ \A i \in 1 .. N : q[i] \in T
    OBVIOUS
  <1>1. PICK f : /\ Only(q, S) = f[N] /\ f[0] = << >>
                 /\ \A n \in 1 .. N :
                      f[n] = IF q[n] \in S THEN Append(f[n - 1], q[n]) ELSE f[n - 1]
    BY <1>0, OnlyLoop
  <1> HIDE DEF N
  <1> DEFINE Holds(n) == /\ f[n] \in Seq(T \cap S)
                         /\ f[n] = << >> <=> \A i \in 1 .. n : q[i] \notin S
             Fails == {n \in 0 .. N : ~ Holds(n)}
  <1>2. Fails = {}
    <2> SUFFICES ASSUME Fails # {} PROVE FALSE
      OBVIOUS
    <2>1. PICK k \in Fails : \A j \in Fails : ~ (j < k)
      <3>1. Fails \subseteq 0 .. N
        BY Zenon
      <3>2. 0 .. N \subseteq Nat
        BY <1>0
      <3> HIDE DEF Fails
      <3> QED
        BY <3>1, <3>2, SlLeast
    <2>2. k \in 0 .. N /\ ~ Holds(k)
      OBVIOUS
    <2>3. CASE k = 0
      <3>1. << >> \in Seq(T \cap S) /\ ~ \E i \in 1 .. 0 : TRUE
        OBVIOUS
      <3> QED
        BY <1>1, <2>2, <2>3, <3>1
    <2>4. CASE k # 0
      <3>1. k \in 1 .. N /\ k - 1 \in 0 .. N /\ k - 1 < k
        BY <1>0, <2>2, <2>4
      <3>2. Holds(k - 1)
        BY <2>1, <3>1
      <3>3. f[k] = IF q[k] \in S THEN Append(f[k - 1], q[k]) ELSE f[k - 1]
        BY <1>1, <3>1
      <3>4. \A i \in 1 .. k : i \in 1 .. k - 1 \/ i = k
        BY <1>0, <3>1
      <3>5. k \in 1 .. k /\ \A i \in 1 .. k - 1 : i \in 1 .. k
        BY <1>0, <3>1
      <3>6. CASE q[k] \in S
        <4>1. q[k] \in T \cap S
          BY <1>0, <3>1, <3>6
        <4> DEFINE g == f[k - 1]
        <4>2. g \in Seq(T \cap S)
          BY <3>2
        <4>3. f[k] = Append(g, q[k])
          BY <3>3, <3>6
        <4> HIDE DEF g
        <4>4. f[k] \in Seq(T \cap S) /\ f[k] # << >>
          BY <4>1, <4>2, <4>3
        <4> QED
          BY <2>2, <3>5, <3>6, <4>4
      <3>7. CASE q[k] \notin S
        <4>1. f[k] = f[k - 1]
          BY <3>3, <3>7
        <4> QED
          BY <2>2, <3>2, <3>4, <3>5, <3>7, <4>1
      <3> QED
        BY <3>6, <3>7
    <2> QED
      BY <2>3, <2>4
  <1>3. Holds(N)
    <2>1. N \in 0 .. N
      BY <1>0
    <2> QED
      BY <1>2, <2>1
  <1> QED
    BY <1>1, <1>3 DEF N

\* Two sets that divide the frames divide the list.
LEMMA OnlySplits ==
  ASSUME NEW T, NEW q \in Seq(T), NEW S1, NEW S2, T \subseteq S1 \cup S2, S1 \cap S2 = {}
  PROVE  Len(Only(q, S1)) + Len(Only(q, S2)) = Len(q)
  <1> DEFINE N == Len(q)
  <1>0. N \in Nat /\ \A i \in 1 .. N : q[i] \in T
    OBVIOUS
  <1>1. PICK f : /\ Only(q, S1) = f[N] /\ f[0] = << >>
                 /\ \A n \in 1 .. N :
                      f[n] = IF q[n] \in S1 THEN Append(f[n - 1], q[n]) ELSE f[n - 1]
    BY <1>0, OnlyLoop
  <1>2. PICK g : /\ Only(q, S2) = g[N] /\ g[0] = << >>
                 /\ \A n \in 1 .. N :
                      g[n] = IF q[n] \in S2 THEN Append(g[n - 1], q[n]) ELSE g[n - 1]
    BY <1>0, OnlyLoop
  <1> HIDE DEF N
  <1> DEFINE Holds(n) == f[n] \in Seq(T) /\ g[n] \in Seq(T) /\ Len(f[n]) + Len(g[n]) = n
             Fails == {n \in 0 .. N : ~ Holds(n)}
  <1>3. Fails = {}
    <2> SUFFICES ASSUME Fails # {} PROVE FALSE
      OBVIOUS
    <2>1. PICK k \in Fails : \A j \in Fails : ~ (j < k)
      <3>1. Fails \subseteq 0 .. N
        BY Zenon
      <3>2. 0 .. N \subseteq Nat
        BY <1>0
      <3> HIDE DEF Fails
      <3> QED
        BY <3>1, <3>2, SlLeast
    <2>2. k \in 0 .. N /\ ~ Holds(k)
      OBVIOUS
    <2>3. CASE k = 0
      <3>1. << >> \in Seq(T) /\ Len(<< >>) = 0
        OBVIOUS
      <3>2. f[0] \in Seq(T) /\ g[0] \in Seq(T) /\ Len(f[0]) + Len(g[0]) = 0
        BY <1>1, <1>2, <3>1
      <3> QED
        BY <2>2, <2>3, <3>2
    <2>4. CASE k # 0
      <3>1. k \in 1 .. N /\ k - 1 \in 0 .. N /\ k - 1 < k
        BY <1>0, <2>2, <2>4
      <3>2. Holds(k - 1)
        BY <2>1, <3>1
      <3> DEFINE f0 == f[k - 1]
                 g0 == g[k - 1]
      <3>3. f0 \in Seq(T) /\ g0 \in Seq(T) /\ Len(f0) + Len(g0) = k - 1
        BY <3>2
      <3>4. /\ f[k] = IF q[k] \in S1 THEN Append(f0, q[k]) ELSE f0
            /\ g[k] = IF q[k] \in S2 THEN Append(g0, q[k]) ELSE g0
        BY <1>1, <1>2, <3>1
      <3>5. q[k] \in T /\ (q[k] \in S1 <=> q[k] \notin S2)
        BY <1>0, <3>1
      <3> HIDE DEF f0, g0
      <3>6. CASE q[k] \in S1
        <4>1. f[k] = Append(f0, q[k]) /\ g[k] = g0
          BY <3>4, <3>5, <3>6
        <4>2. Len(f[k]) = Len(f0) + 1 /\ f[k] \in Seq(T)
          BY <3>3, <3>5, <4>1
        <4> QED
          BY <2>2, <3>1, <3>3, <4>1, <4>2
      <3>7. CASE q[k] \notin S1
        <4>1. g[k] = Append(g0, q[k]) /\ f[k] = f0
          BY <3>4, <3>5, <3>7
        <4>2. Len(g[k]) = Len(g0) + 1 /\ g[k] \in Seq(T)
          BY <3>3, <3>5, <4>1
        <4> QED
          BY <2>2, <3>1, <3>3, <4>1, <4>2
      <3> QED
        BY <3>6, <3>7
    <2> QED
      BY <2>3, <2>4
  <1>4. Holds(N)
    <2>1. N \in 0 .. N
      BY <1>0
    <2> QED
      BY <1>3, <2>1
  <1> QED
    BY <1>1, <1>2, <1>4 DEF N

\* All of a queue, or nothing of it.
LEMMA OnlyAll ==
  ASSUME NEW T, NEW q \in Seq(T), NEW S
  PROVE  /\ T \subseteq S => Len(Only(q, S)) = Len(q)
         /\ T \cap S = {} => Only(q, S) = << >>
         /\ Len(Only(q, S)) \in Nat
  <1>1. /\ Only(q, S) \in Seq(T \cap S)
        /\ Only(q, S) = << >> <=> \A i \in 1 .. Len(q) : q[i] \notin S
    BY OnlyTakes
  <1>2. \A i \in 1 .. Len(q) : q[i] \in T
    OBVIOUS
  <1>3. ASSUME T \subseteq S PROVE Len(Only(q, S)) = Len(q)
    <2>1. Len(Only(q, S)) + Len(Only(q, {})) = Len(q)
      BY <1>3, OnlySplits
    <2>2. Only(q, {}) = << >>
      BY OnlyTakes
    <2>3. Len(Only(q, S)) \in Nat /\ Len(q) \in Nat
      BY <1>1
    <2> QED
      BY <2>1, <2>2, <2>3
  <1> QED
    BY <1>1, <1>2, <1>3

\* n is the function of Total over the subsets of S with at most k elements.
PickOf(T) == CHOOSE y \in T : TRUE
TotalUpTo(f, S, k, n) ==
    n = [T \in {T \in SUBSET S : Cardinality(T) <= k} |->
            IF T = {} THEN 0 ELSE Len(f[PickOf(T)]) + n[T \ {PickOf(T)}]]

\* One element less.
LEMMA PickLeaves ==
  ASSUME NEW T, IsFiniteSet(T), T # {}
  PROVE  /\ PickOf(T) \in T /\ IsFiniteSet(T \ {PickOf(T)})
         /\ Cardinality(T) \in Nat /\ Cardinality(T \ {PickOf(T)}) = Cardinality(T) - 1
  <1>1. PickOf(T) \in T
    BY DEF PickOf
  <1> QED
    BY <1>1, FS_RemoveElement, FS_CardinalityType

\* There is such a function, for every bound on the size of the sets.
LEMMA TotalExists ==
  ASSUME NEW f, NEW S, IsFiniteSet(S), NEW m \in Nat
  PROVE  \E n : TotalUpTo(f, S, m, n)
  <1> DEFINE Fails == {k \in Nat : ~ \E n : TotalUpTo(f, S, k, n)}
             Small(k) == {T \in SUBSET S : Cardinality(T) <= k}
             Sum(n, T) == IF T = {} THEN 0 ELSE Len(f[PickOf(T)]) + n[T \ {PickOf(T)}]
  <1>0. ASSUME NEW T \in SUBSET S
        PROVE  /\ Cardinality(T) \in Nat
               /\ Cardinality(T) = 0 <=> T = {}
               /\ T # {} => /\ T \ {PickOf(T)} \in SUBSET S
                            /\ Cardinality(T \ {PickOf(T)}) = Cardinality(T) - 1
    <2>1. IsFiniteSet(T)
      BY FS_Subset
    <2> QED
      BY <2>1, PickLeaves, FS_CardinalityType, FS_EmptySet
  <1> SUFFICES ASSUME Fails # {} PROVE FALSE
    OBVIOUS
  <1>1. PICK k \in Fails : \A j \in Fails : ~ (j < k)
    <2>1. Fails \in SUBSET Nat
      OBVIOUS
    <2> HIDE DEF Fails
    <2> QED
      BY <2>1, SlLeast
  <1>2. k \in Nat /\ ~ \E n : TotalUpTo(f, S, k, n)
    OBVIOUS
  <1>3. CASE k = 0
    <2> DEFINE n == [T \in Small(0) |-> 0]
    <2>1. ASSUME NEW T \in Small(0) PROVE Sum(n, T) = 0
      <3>1. T \in SUBSET S /\ Cardinality(T) <= 0
        BY Zenon
      <3>3. Cardinality(T) = 0
        <4>1. Cardinality(T) \in Nat
          BY <1>0, <3>1, Zenon
        <4> QED
          BY <3>1, <4>1
      <3>2. T = {}
        BY <1>0, <3>1, <3>3, Zenon
      <3> QED
        BY <3>2
    <2>2. n = [T \in Small(0) |-> Sum(n, T)]
      BY <2>1, Zenon
    <2>3. TotalUpTo(f, S, 0, n)
      BY <2>2, Zenon DEF TotalUpTo
    <2> QED
      BY <1>2, <1>3, <2>3
  <1>4. CASE k # 0
    <2>1. k - 1 \in Nat /\ k - 1 \notin Fails
      BY <1>1, <1>2, <1>4
    <2>2. PICK n : TotalUpTo(f, S, k - 1, n)
      BY <2>1
    <2> DEFINE g == [T \in Small(k) |-> IF Cardinality(T) = k THEN Sum(n, T) ELSE n[T]]
    <2>3. ASSUME NEW T \in Small(k) PROVE g[T] = Sum(g, T)
      <3>1. T \in SUBSET S /\ Cardinality(T) \in Nat /\ Cardinality(T) <= k
        <4>1. T \in SUBSET S /\ Cardinality(T) <= k
          BY Zenon
        <4> QED
          BY <1>0, <4>1
      <3> DEFINE U == T \ {PickOf(T)}
      <3>2. CASE T = {}
        <4>1. Cardinality(T) = 0 /\ Cardinality(T) <= k - 1
          <5>1. Cardinality(T) = 0
            BY <1>0, <3>1, <3>2, Zenon
          <5> QED
            BY <2>1, <5>1
        <4> HIDE DEF g
        <4>3. T \in Small(k - 1)
          BY <3>1, <4>1
        <4>2. g[T] = n[T] /\ n[T] = 0
          BY <1>4, <2>2, <3>2, <4>1, <4>3 DEF TotalUpTo, g
        <4> QED
          BY <3>2, <4>2
      <3>3. CASE T # {}
        <4>1. U \in SUBSET S /\ Cardinality(U) = Cardinality(T) - 1
          BY <1>0, <3>1, <3>3
        <4>2. U \in Small(k) /\ Cardinality(U) # k
          BY <1>2, <3>1, <4>1
        <4>3. g[U] = n[U]
          BY <4>2, Zenon
        <4>4. CASE Cardinality(T) = k
          <5>1. g[T] = Sum(n, T)
            BY <4>4
          <5> QED
            BY <3>3, <4>3, <5>1
        <4>5. CASE Cardinality(T) # k
          <5>1. T \in Small(k - 1)
            BY <1>2, <3>1, <4>5
          <5>2. g[T] = n[T] /\ n[T] = Sum(n, T)
            BY <2>2, <4>5, <5>1, Zenon DEF TotalUpTo
          <5> QED
            BY <3>3, <4>3, <5>2
        <4> QED
          BY <4>4, <4>5
      <3> QED
        BY <3>2, <3>3
    <2>4. g = [T \in Small(k) |-> Sum(g, T)]
      <3>1. g = [T \in Small(k) |-> g[T]]
        OBVIOUS
      <3> HIDE DEF g
      <3> QED
        BY <2>3, <3>1, Zenon
    <2>5. TotalUpTo(f, S, k, g)
      BY <2>4, Zenon DEF TotalUpTo
    <2> QED
      BY <1>2, <2>5
  <1> QED
    BY <1>3, <1>4

\* Total, as the value at S of a function that sums over the subsets of S.
SumsTo(f, S, n) ==
    /\ Total(f, S) = n[S] /\ n[{}] = 0
    /\ \A T \in SUBSET S : T # {} => n[T] = Len(f[PickOf(T)]) + n[T \ {PickOf(T)}]

\* Total(f, S) adds the lengths up: over a set it is one length more than over the
\* set without its element.
LEMMA TotalSum ==
  ASSUME NEW f, NEW S, IsFiniteSet(S)
  PROVE  \E n : SumsTo(f, S, n)
  <1> DEFINE m == Cardinality(S)
             Small == {T \in SUBSET S : Cardinality(T) <= m}
             Is(n) == n = [T \in SUBSET S |->
                              IF T = {} THEN 0
                              ELSE LET x == CHOOSE y \in T : TRUE
                                   IN  Len(f[x]) + n[T \ {x}]]
             n == CHOOSE n : Is(n)
  <1>1. m \in Nat /\ Small = SUBSET S
    BY FS_CardinalityType, FS_Subset
  <1>2. \E h : Is(h)
    <2>1. PICK h : TotalUpTo(f, S, m, h)
      BY <1>1, TotalExists
    <2>2. h = [T \in Small |-> IF T = {} THEN 0 ELSE Len(f[PickOf(T)]) + h[T \ {PickOf(T)}]]
      BY <2>1, Zenon DEF TotalUpTo
    <2> HIDE DEF Small
    <2> QED
      BY <1>1, <2>2, Zenon DEF PickOf
  <1>3. Is(n)
    <2> HIDE DEF Is
    <2> QED
      BY <1>2, Zenon
  <1>4. Total(f, S) = n[S]
    BY Zenon DEF Total
  <1> HIDE DEF n
  <1>5. ASSUME NEW T \in SUBSET S, T # {}
        PROVE  n[T] = Len(f[PickOf(T)]) + n[T \ {PickOf(T)}]
    BY <1>3, <1>5, Zenon DEF PickOf
  <1>6. n[{}] = 0
    <2>1. {} \in SUBSET S
      OBVIOUS
    <2> QED
      BY <1>3, <2>1, Zenon
  <1>7. SumsTo(f, S, n)
    BY <1>4, <1>5, <1>6, Zenon DEF SumsTo
  <1> QED
    BY <1>7

\* Two functions that differ at d at most: their totals differ by the lengths
\* there.
DifferAt(f, g, S, d) ==
    /\ \A x \in S : Len(f[x]) \in Nat /\ Len(g[x]) \in Nat
    /\ \A x \in S \ {d} : g[x] = f[x]

\* When one list changes, the sum changes with it.
LEMMA TotalOne ==
  ASSUME NEW f, NEW g, NEW S, IsFiniteSet(S), NEW d \in S, DifferAt(f, g, S, d)
  PROVE  /\ Total(f, S) \in Nat /\ Total(g, S) \in Nat
         /\ Total(g, S) + Len(f[d]) = Total(f, S) + Len(g[d])
  <1> USE DEF DifferAt
  <1>1. PICK n : SumsTo(f, S, n)
    BY TotalSum
  <1>2. PICK h : SumsTo(g, S, h)
    BY TotalSum
  <1> DEFINE Holds(T) == /\ n[T] \in Nat /\ h[T] \in Nat
                         /\ d \in T => h[T] + Len(f[d]) = n[T] + Len(g[d])
                         /\ d \notin T => h[T] = n[T]
             Fails == {k \in Nat : \E T \in SUBSET S : Cardinality(T) = k /\ ~ Holds(T)}
  <1>3. Fails = {}
    <2> SUFFICES ASSUME Fails # {} PROVE FALSE
      OBVIOUS
    <2>1. PICK k \in Fails : \A j \in Fails : ~ (j < k)
      <3>1. Fails \in SUBSET Nat
        OBVIOUS
      <3> HIDE DEF Fails
      <3> QED
        BY <3>1, SlLeast
    <2>2. k \in Nat /\ \E T \in SUBSET S : Cardinality(T) = k /\ ~ Holds(T)
      BY Zenon
    <2>3. PICK T \in SUBSET S : Cardinality(T) = k /\ ~ Holds(T)
      BY <2>2
    <2>4. CASE T = {}
      BY <1>1, <1>2, <2>3, <2>4 DEF SumsTo
    <2>5. CASE T # {}
      <3> DEFINE p == PickOf(T)
                 U == T \ {p}
      <3>1. IsFiniteSet(T)
        BY FS_Subset
      <3>2. p \in T /\ Cardinality(U) = k - 1 /\ k - 1 \in Nat /\ U \in SUBSET S
        <4>1. p \in T /\ Cardinality(U) = k - 1 /\ IsFiniteSet(U)
          BY <2>3, <2>5, <3>1, PickLeaves
        <4>2. Cardinality(U) \in Nat
          BY <4>1, FS_CardinalityType
        <4> QED
          BY <4>1, <4>2
      <3>3. Holds(U)
        <4>1. k - 1 \notin Fails
          BY <2>1, <2>2, <3>2
        <4> HIDE DEF Holds
        <4> QED
          BY <3>2, <4>1
      <3>4. n[T] = Len(f[p]) + n[U] /\ h[T] = Len(g[p]) + h[U]
        BY <1>1, <1>2, <2>5 DEF SumsTo
      <3>5. p \in S /\ Len(f[p]) \in Nat /\ Len(g[p]) \in Nat
        BY <3>2
      <3>6. d \in T => d = p \/ d \in U
        OBVIOUS
      <3>7. d \in U => d \in T /\ d # p
        OBVIOUS
      <3>8. p # d => g[p] = f[p]
        BY <3>5
      <3> HIDE DEF p, U
      <3>9. n[T] \in Nat /\ h[T] \in Nat
        BY <3>3, <3>4, <3>5
      <3>10. CASE d = p
        <4>1. d \notin U /\ d \in T
          BY <3>2, <3>7, <3>10
        <4>2. h[U] = n[U] /\ n[U] \in Nat
          BY <3>3, <4>1
        <4>3. h[T] + Len(f[d]) = n[T] + Len(g[d])
          BY <3>4, <3>5, <3>10, <4>2
        <4> QED
          BY <2>3, <3>9, <4>1, <4>3
      <3>11. CASE d # p /\ d \in U
        <4>1. d \in T /\ h[U] + Len(f[d]) = n[U] + Len(g[d]) /\ n[U] \in Nat /\ h[U] \in Nat
          BY <3>3, <3>7, <3>11
        <4>2. Len(f[d]) \in Nat /\ Len(g[d]) \in Nat
          OBVIOUS
        <4>3. n[T] = Len(f[p]) + n[U] /\ h[T] = Len(f[p]) + h[U]
          BY <3>4, <3>8, <3>11
        <4> DEFINE a == Len(f[p])
                   b == Len(f[d])
                   c == Len(g[d])
                   nU == n[U]
                   hU == h[U]
        <4>5. a \in Nat /\ b \in Nat /\ c \in Nat /\ nU \in Nat /\ hU \in Nat
          BY <3>5, <4>1, <4>2
        <4>6. hU + b = nU + c /\ n[T] = a + nU /\ h[T] = a + hU
          BY <4>1, <4>3
        <4> HIDE DEF a, b, c, nU, hU
        <4>7. h[T] + b = n[T] + c
          BY <4>5, <4>6
        <4>4. h[T] + Len(f[d]) = n[T] + Len(g[d])
          BY <4>7 DEF b, c
        <4> QED
          BY <2>3, <3>9, <4>1, <4>4
      <3>12. CASE d # p /\ d \notin U
        <4>1. d \notin T /\ h[U] = n[U]
          BY <3>3, <3>6, <3>12
        <4>2. h[T] = n[T]
          BY <3>4, <3>8, <3>12, <4>1
        <4> QED
          BY <2>3, <3>9, <4>1, <4>2
      <3> QED
        BY <3>10, <3>11, <3>12
    <2> QED
      BY <2>4, <2>5
  <1>4. Holds(S)
    <2>1. Cardinality(S) \in Nat
      BY FS_CardinalityType
    <2>2. S \in SUBSET S /\ Cardinality(S) \notin Fails
      BY <1>3
    <2> HIDE DEF Holds
    <2> QED
      BY <2>1, <2>2
  <1> QED
    BY <1>1, <1>2, <1>4 DEF SumsTo

\* No queue is longer than all of them together.
LEMMA TotalBounds ==
  ASSUME NEW T, NEW S, IsFiniteSet(S), NEW f \in [S -> Seq(T)], NEW d \in S
  PROVE  Total(f, S) \in Nat /\ Len(f[d]) \in Nat /\ Len(f[d]) <= Total(f, S)
  <1> DEFINE g == [f EXCEPT ![d] = << >>]
  <1>1. \A x \in S : Len(f[x]) \in Nat /\ Len(g[x]) \in Nat
    BY EmptySeq
  <1>2. (\A x \in S \ {d} : g[x] = f[x]) /\ g[d] = << >>
    OBVIOUS
  <1> HIDE DEF g
  <1>3. /\ Total(f, S) \in Nat /\ Total(g, S) \in Nat
        /\ Total(g, S) + Len(f[d]) = Total(f, S) + Len(g[d])
    <2>1. DifferAt(f, g, S, d)
      BY <1>1, <1>2 DEF DifferAt
    <2> QED
      BY <2>1, TotalOne
  <1>4. Len(g[d]) = 0
    BY <1>2
  <1> QED
    BY <1>1, <1>3, <1>4

\* All queues are empty.
LEMMA TotalNone ==
  ASSUME NEW S, IsFiniteSet(S), NEW f, \A x \in S : f[x] = << >>
  PROVE  Total(f, S) = 0
  <1>1. PICK n : SumsTo(f, S, n)
    BY TotalSum
  <1> DEFINE Fails == {k \in Nat : \E T \in SUBSET S : Cardinality(T) = k /\ n[T] # 0}
  <1>2. Fails = {}
    <2> SUFFICES ASSUME Fails # {} PROVE FALSE
      OBVIOUS
    <2>1. PICK k \in Fails : \A j \in Fails : ~ (j < k)
      <3>1. Fails \in SUBSET Nat
        OBVIOUS
      <3> HIDE DEF Fails
      <3> QED
        BY <3>1, SlLeast
    <2>3. PICK T \in SUBSET S : Cardinality(T) = k /\ n[T] # 0
      BY Zenon
    <2>4. T # {}
      BY <1>1, <2>3 DEF SumsTo
    <2> DEFINE p == PickOf(T)
               U == T \ {p}
    <2>5. p \in T /\ Cardinality(U) = k - 1 /\ k - 1 \in Nat /\ U \in SUBSET S
      <3>1. IsFiniteSet(T)
        BY FS_Subset
      <3>2. p \in T /\ Cardinality(U) = k - 1 /\ IsFiniteSet(U)
        BY <2>3, <2>4, <3>1, PickLeaves
      <3>3. Cardinality(U) \in Nat
        BY <3>2, FS_CardinalityType
      <3> QED
        BY <3>2, <3>3
    <2>6. k - 1 \notin Fails
      BY <2>1, <2>5
    <2>7. n[U] = 0
      BY <2>5, <2>6
    <2>8. n[T] = Len(f[p]) + n[U] /\ f[p] = << >>
      BY <1>1, <2>4, <2>5 DEF SumsTo
    <2> HIDE DEF p, U
    <2>9. n[T] = 0
      BY <2>7, <2>8
    <2> QED
      BY <2>3, <2>9
  <1>3. Cardinality(S) \in Nat /\ S \in SUBSET S
    BY FS_CardinalityType
  <1> QED
    BY <1>1, <1>2, <1>3 DEF SumsTo

-----------------------------------------------------------------------------
(***************************************************************************)
(* The types, and what moving frames does to the sum of all frames.        *)
(***************************************************************************)
\* Who the stations are and what is recorded of them.
TyStations ==
    /\ kind \in [Stas -> Kinds \cup {"none"}] /\ sleeping \subseteq Stas
    /\ sta_dz_bitmap \subseteq Rcpts /\ tim_bitmap \subseteq Rcpts /\ bcn_tim \subseteq Rcpts
\* The lists of the stations; in the one of the group all frames are best effort.
TyBuffers ==
    /\ sleep_q \in [Rcpts -> Seq(Acs)] /\ sleep_q[Bmc] \in Seq({"be"})
    /\ sleepq_len \in [Rcpts -> 0 .. W - 1] /\ sleepq_ac_len \in [Stas -> 0 .. W - 1]
\* The tx_servqs and the pool.
TyQueues ==
    /\ sta_pending \in [Servqs -> Seq(Passes)] /\ tx_pending \subseteq Servqs
    /\ free_xmitframe_cnt \in Nat
\* What the contexts hold: a frame for an existing tx_servq, a received frame of
\* a station.
TyHands ==
    /\ xmit \in [to : Rcpts, ac : Acs] \cup {NoXmit}
    /\ xmit # NoXmit => <<xmit.to, xmit.ac>> \in Servqs
    /\ pc \in [{"rx", "timer"} -> {"idle", "update", "wmmps", "pspoll"}]
    /\ rx \in [sta : Rcpts, qos : BOOLEAN, ac : Acs]
    /\ pc["rx"] # "idle" => rx.sta \in Stas
\* The commands of the thread.
Cmds == {"TxBeacon", "ChkHiq"}
\* The command thread and the chip.
TyThread ==
    /\ cmd_queue \in Seq(Cmds)
    /\ thread \in {"idle", "bmc_wait", "hiq_wait"} /\ hiq \in BOOLEAN
\* The types, with what Kinds and the tx_servqs allow.
SlTyped == TyStations /\ TyBuffers /\ TyQueues /\ TyHands /\ TyThread

\* The queues of the two kinds of recipients.
LEMMA SlQueues ==
  /\ "be" \in Acs /\ Acs \subseteq {"be", "vo"} /\ Bmc \notin Stas
  /\ \A s \in Stas, a \in Acs : <<s, a>> \in Servqs
  /\ <<Bmc, "be">> \in Servqs
  /\ \A a : <<Bmc, a>> \in Servqs <=> a = "be"
  /\ \A s \in Stas : \A a : <<s, a>> \in Servqs <=> a \in Acs
  /\ \A v \in Servqs : /\ v = <<v[1], v[2]>> /\ v[1] \in Rcpts /\ v[2] \in Acs
                       /\ v[1] = Bmc => v[2] = "be"
  <1>1. "be" \in Acs /\ Acs \subseteq {"be", "vo"} /\ Bmc \notin Stas
    BY ApSleepAssumption DEF AllAcs
  <1> QED
    BY <1>1 DEF Servqs, Rcpts

\* The sets that are summed over are finite.
LEMMA SlFinite == IsFiniteSet(Rcpts) /\ IsFiniteSet(Servqs)
  <1>1. IsFiniteSet(Stas)
    BY ApSleepAssumption
  <1>2. IsFiniteSet(Rcpts)
    BY <1>1, FS_AddElement DEF Rcpts
  <1>3. IsFiniteSet({"be", "vo"})
    <2>1. IsFiniteSet({} \cup {"be"})
      BY FS_EmptySet, FS_AddElement
    <2>2. IsFiniteSet(({} \cup {"be"}) \cup {"vo"})
      BY <2>1, FS_AddElement
    <2>3. ({} \cup {"be"}) \cup {"vo"} = {"be", "vo"}
      OBVIOUS
    <2> QED
      BY <2>2, <2>3
  <1>4. IsFiniteSet(Acs)
    BY <1>3, SlQueues, FS_Subset
  <1>5. IsFiniteSet(Stas \X Acs)
    BY <1>1, <1>4, FS_Product
  <1> QED
    BY <1>2, <1>5, FS_AddElement DEF Servqs

\* Marked is a list of n equal marks.
LEMMA MarkedSeq ==
  ASSUME NEW m \in Passes, NEW n \in Nat
  PROVE  /\ Marked(m, n) \in Seq(Passes) /\ Len(Marked(m, n)) = n
         /\ DOMAIN Marked(m, n) = 1 .. n
         /\ \A i \in 1 .. n : Marked(m, n)[i] = m
  <1>1. Marked(m, n) \in [1 .. n -> Passes]
    BY DEF Marked
  <1>2. \A i \in 1 .. n : Marked(m, n)[i] = m
    BY DEF Marked
  <1>3. Marked(m, n) \in Seq(Passes)
    BY <1>1, SeqDef
  <1> QED
    BY <1>1, <1>2, <1>3

\* How many frames wait in the queues of a recipient.
QLen(f, r) ==
    Len(f[<<r, "be">>]) + (IF <<r, "vo">> \in Servqs THEN Len(f[<<r, "vo">>]) ELSE 0)

\* The queues of one recipient change.
LEMMA ServqsOne ==
  ASSUME NEW f \in [Servqs -> Seq(Passes)], NEW g \in [Servqs -> Seq(Passes)],
         NEW r \in Rcpts, \A v \in Servqs : v[1] # r => g[v] = f[v]
  PROVE  /\ Total(f, Servqs) \in Nat /\ Total(g, Servqs) \in Nat
         /\ QLen(f, r) \in Nat /\ QLen(g, r) \in Nat
         /\ Total(g, Servqs) + QLen(f, r) = Total(f, Servqs) + QLen(g, r)
  <1> DEFINE be == <<r, "be">>
             vo == <<r, "vo">>
             h == [f EXCEPT ![be] = g[be]]
  <1>0. be \in Servqs /\ IsFiniteSet(Servqs)
    BY SlQueues, SlFinite DEF Rcpts
  <1>1. h \in [Servqs -> Seq(Passes)] /\ h[be] = g[be] /\ \A v \in Servqs \ {be} : h[v] = f[v]
    BY <1>0
  <1>2. \A v \in Servqs : v = be \/ v = vo \/ v[1] # r
    BY SlQueues
  <1>3. be # vo
    OBVIOUS
  <1> HIDE DEF be, vo, h
  <1>4. \A v \in Servqs : Len(f[v]) \in Nat /\ Len(g[v]) \in Nat /\ Len(h[v]) \in Nat
    BY <1>1, LenProperties
  <1>5. /\ Total(f, Servqs) \in Nat /\ Total(h, Servqs) \in Nat
        /\ Total(h, Servqs) + Len(f[be]) = Total(f, Servqs) + Len(h[be])
    <2>1. \A v \in Servqs : Len(f[v]) \in Nat /\ Len(h[v]) \in Nat
      BY <1>4
    <2>2. \A v \in Servqs \ {be} : h[v] = f[v]
      BY <1>1
    <2>3. DifferAt(f, h, Servqs, be)
      BY <2>1, <2>2 DEF DifferAt
    <2> QED
      BY <1>0, <2>3, TotalOne
  <1>6. CASE vo \in Servqs
    <2>1. \A v \in Servqs \ {vo} : g[v] = h[v]
      BY <1>1, <1>2
    <2>2. /\ Total(g, Servqs) \in Nat
          /\ Total(g, Servqs) + Len(h[vo]) = Total(h, Servqs) + Len(g[vo])
      <3>1. \A v \in Servqs : Len(h[v]) \in Nat /\ Len(g[v]) \in Nat
        BY <1>4
      <3>2. DifferAt(h, g, Servqs, vo)
        BY <2>1, <3>1 DEF DifferAt
      <3> QED
        BY <1>0, <1>6, <3>2, TotalOne
    <2>3. h[vo] = f[vo]
      BY <1>1, <1>3, <1>6
    <2>4. QLen(f, r) = Len(f[be]) + Len(f[vo]) /\ QLen(g, r) = Len(g[be]) + Len(g[vo])
      BY <1>6 DEF QLen, be, vo
    <2>5. /\ Len(f[be]) \in Nat /\ Len(f[vo]) \in Nat
          /\ Len(g[be]) \in Nat /\ Len(g[vo]) \in Nat
      BY <1>0, <1>4, <1>6
    <2>6. /\ Total(h, Servqs) + Len(f[be]) = Total(f, Servqs) + Len(g[be])
          /\ Total(g, Servqs) + Len(f[vo]) = Total(h, Servqs) + Len(g[vo])
      BY <1>1, <1>5, <2>2, <2>3
    <2> DEFINE tf == Total(f, Servqs)
               th == Total(h, Servqs)
               tg == Total(g, Servqs)
               fb == Len(f[be])
               fv == Len(f[vo])
               gb == Len(g[be])
               gv == Len(g[vo])
    <2>7. /\ tf \in Nat /\ th \in Nat /\ tg \in Nat
          /\ fb \in Nat /\ fv \in Nat /\ gb \in Nat /\ gv \in Nat
          /\ th + fb = tf + gb /\ tg + fv = th + gv
      BY <1>5, <2>2, <2>5, <2>6
    <2>8. QLen(f, r) = fb + fv /\ QLen(g, r) = gb + gv
      BY <2>4
    <2> HIDE DEF tf, th, tg, fb, fv, gb, gv
    <2>9. tg + (fb + fv) = tf + (gb + gv) /\ fb + fv \in Nat /\ gb + gv \in Nat
      BY <2>7
    <2> QED
      BY <2>7, <2>8, <2>9 DEF tf, tg
  <1>7. CASE vo \notin Servqs
    <2>1. g = h
      <3>1. \A v \in Servqs : g[v] = h[v]
        BY <1>1, <1>2, <1>7
      <3> QED
        BY <1>1, <3>1
    <2>2. QLen(f, r) = Len(f[be]) + 0 /\ QLen(g, r) = Len(g[be]) + 0
      BY <1>7 DEF QLen, be, vo
    <2> QED
      BY <1>0, <1>1, <1>4, <1>5, <2>1, <2>2
  <1> QED
    BY <1>6, <1>7

\* The queues of a station and of the group change.
LEMMA ServqsTwo ==
  ASSUME NEW f \in [Servqs -> Seq(Passes)], NEW g \in [Servqs -> Seq(Passes)],
         NEW s \in Stas, \A v \in Servqs : v[1] # s /\ v[1] # Bmc => g[v] = f[v]
  PROVE  /\ Total(f, Servqs) \in Nat /\ Total(g, Servqs) \in Nat
         /\ QLen(f, s) \in Nat /\ QLen(g, s) \in Nat
         /\ QLen(f, Bmc) \in Nat /\ QLen(g, Bmc) \in Nat
         /\ Total(g, Servqs) + QLen(f, s) + QLen(f, Bmc)
              = Total(f, Servqs) + QLen(g, s) + QLen(g, Bmc)
  <1> DEFINE h == [v \in Servqs |-> IF v[1] = s THEN g[v] ELSE f[v]]
  <1>0. s \in Rcpts /\ Bmc \in Rcpts /\ s # Bmc
    BY SlQueues DEF Rcpts
  <1>1. h \in [Servqs -> Seq(Passes)]
    OBVIOUS
  <1>2. /\ \A v \in Servqs : v[1] # s => h[v] = f[v]
        /\ \A v \in Servqs : v[1] = s => h[v] = g[v]
    OBVIOUS
  <1> HIDE DEF h
  <1>3. /\ Total(f, Servqs) \in Nat /\ Total(h, Servqs) \in Nat
        /\ QLen(f, s) \in Nat /\ QLen(h, s) \in Nat
        /\ Total(h, Servqs) + QLen(f, s) = Total(f, Servqs) + QLen(h, s)
    BY <1>0, <1>1, <1>2, ServqsOne
  <1>4. \A v \in Servqs : v[1] # Bmc => g[v] = h[v]
    BY <1>2
  <1>5. /\ Total(g, Servqs) \in Nat /\ QLen(h, Bmc) \in Nat /\ QLen(g, Bmc) \in Nat
        /\ Total(g, Servqs) + QLen(h, Bmc) = Total(h, Servqs) + QLen(g, Bmc)
    BY <1>0, <1>1, <1>4, ServqsOne
  <1>6. QLen(h, s) = QLen(g, s)
    <2>1. <<s, "be">> \in Servqs /\ <<s, "be">>[1] = s /\ <<s, "vo">>[1] = s
      BY SlQueues
    <2>2. h[<<s, "be">>] = g[<<s, "be">>]
      BY <1>2, <2>1
    <2>3. <<s, "vo">> \in Servqs => h[<<s, "vo">>] = g[<<s, "vo">>]
      BY <1>2, <2>1
    <2> QED
      BY <2>2, <2>3 DEF QLen
  <1>7. QLen(h, Bmc) = QLen(f, Bmc)
    <2>1. <<Bmc, "be">> \in Servqs /\ <<Bmc, "vo">> \notin Servqs /\ <<Bmc, "be">>[1] # s
      BY <1>0, SlQueues
    <2>2. h[<<Bmc, "be">>] = f[<<Bmc, "be">>]
      BY <1>2, <2>1
    <2> QED
      BY <2>1, <2>2 DEF QLen
  <1> QED
    BY <1>3, <1>5, <1>6, <1>7

\* No frame of a tx_servq waits plainly, that is unasked for.
NoPlain(q) == \A i \in DOMAIN q : q[i] # "plain"

\* hal_xmitframe_enqueue of the frames q of r, all marked m, in the queues f.
ClassTo(f, r, q, m) ==
    [v \in Servqs |-> IF v[1] # r THEN f[v] ELSE f[v] \o Marked(m, Len(Only(q, {v[2]})))]

\* A list of frames, by categories.
LEMMA ByCategory ==
  ASSUME NEW q \in Seq(Acs)
  PROVE  /\ Len(Only(q, {"be"})) \in Nat /\ Len(Only(q, {"vo"})) \in Nat
         /\ Len(Only(q, {"be"})) + Len(Only(q, {"vo"})) = Len(q)
         /\ "vo" \notin Acs => Len(Only(q, {"vo"})) = 0
         /\ q \in Seq({"be"}) => Len(Only(q, {"be"})) = Len(q)
  <1>1. Len(Only(q, {"be"})) \in Nat /\ Len(Only(q, {"vo"})) \in Nat
    BY OnlyAll
  <1>2. Len(Only(q, {"be"})) + Len(Only(q, {"vo"})) = Len(q)
    <2> DEFINE b == {"be"}
               v == {"vo"}
    <2>1. Acs \subseteq b \cup v /\ b \cap v = {}
      BY SlQueues
    <2> HIDE DEF b, v
    <2>2. Len(Only(q, b)) + Len(Only(q, v)) = Len(q)
      BY <2>1, OnlySplits
    <2> QED
      BY <2>2 DEF b, v
  <1>3. ASSUME "vo" \notin Acs PROVE Len(Only(q, {"vo"})) = 0
    <2>1. Acs \cap {"vo"} = {}
      BY <1>3
    <2>2. Only(q, {"vo"}) = << >>
      BY <2>1, OnlyAll
    <2> QED
      BY <2>2
  <1>4. ASSUME q \in Seq({"be"}) PROVE Len(Only(q, {"be"})) = Len(q)
    BY <1>4, OnlyAll
  <1> QED
    BY <1>1, <1>2, <1>3, <1>4

\* A queue and marks behind it.
LEMMA MarksBehind ==
  ASSUME NEW q \in Seq(Passes), NEW m \in Passes, NEW n \in Nat
  PROVE  /\ q \o Marked(m, n) \in Seq(Passes)
         /\ Len(q \o Marked(m, n)) = Len(q) + n
         /\ m # "plain" /\ NoPlain(q) => NoPlain(q \o Marked(m, n))
         /\ n = 0 => q \o Marked(m, n) = q
  <1> DEFINE p == Marked(m, n)
             c == q \o p
  <1>1. p \in Seq(Passes) /\ Len(p) = n /\ \A i \in 1 .. n : p[i] = m
    BY MarkedSeq
  <1>2. Len(q) \in Nat /\ DOMAIN q = 1 .. Len(q)
    OBVIOUS
  <1> HIDE DEF p
  <1>3. /\ c \in Seq(Passes) /\ Len(c) = Len(q) + n
        /\ \A i \in 1 .. Len(q) + n : c[i] = IF i <= Len(q) THEN q[i] ELSE p[i - Len(q)]
    BY <1>1, ConcatProperties
  <1>4. DOMAIN c = 1 .. Len(q) + n
    BY <1>3
  <1> HIDE DEF c
  <1>5. ASSUME m # "plain", NoPlain(q) PROVE NoPlain(c)
    <2> SUFFICES ASSUME NEW i \in 1 .. Len(q) + n PROVE c[i] # "plain"
      BY <1>4 DEF NoPlain
    <2>1. CASE i <= Len(q)
      <3>1. c[i] = q[i] /\ i \in DOMAIN q
        BY <1>2, <1>3, <2>1
      <3> QED
        BY <1>5, <3>1 DEF NoPlain
    <2>2. CASE ~ (i <= Len(q))
      <3>1. c[i] = p[i - Len(q)] /\ i - Len(q) \in 1 .. n
        BY <1>2, <1>3, <2>2
      <3> QED
        BY <1>1, <1>5, <3>1
    <2> QED
      BY <2>1, <2>2
  <1>6. ASSUME n = 0 PROVE c = q
    <2>1. p = << >>
      BY <1>1, <1>6
    <2> QED
      BY <2>1 DEF c
  <1> QED
    BY <1>3, <1>5, <1>6 DEF c, p

\* rtw_xmit_classifier queues every frame of the list, no more and no less.
LEMMA ClassTakes ==
  ASSUME NEW f \in [Servqs -> Seq(Passes)], NEW r \in Rcpts, NEW q \in Seq(Acs),
         r = Bmc => q \in Seq({"be"}), NEW m \in Passes
  PROVE  /\ ClassTo(f, r, q, m) \in [Servqs -> Seq(Passes)]
         /\ Total(ClassTo(f, r, q, m), Servqs) = Total(f, Servqs) + Len(q)
         /\ Total(f, Servqs) \in Nat /\ Len(q) \in Nat
         /\ \A v \in Servqs : v[1] # r => ClassTo(f, r, q, m)[v] = f[v]
         /\ \A v \in Servqs : m # "plain" /\ NoPlain(f[v]) => NoPlain(ClassTo(f, r, q, m)[v])
         /\ {<<r, q[i]>> : i \in DOMAIN q} \subseteq Servqs
  <1> DEFINE g == ClassTo(f, r, q, m)
             n(v) == Len(Only(q, {v[2]}))
  <1>1. \A v \in Servqs : n(v) \in Nat
    BY OnlyAll
  <1>2. \A v \in Servqs : g[v] = IF v[1] # r THEN f[v] ELSE f[v] \o Marked(m, n(v))
    BY DEF ClassTo
  <1>3. ASSUME NEW v \in Servqs
        PROVE  /\ g[v] \in Seq(Passes)
               /\ v[1] = r => Len(g[v]) = Len(f[v]) + n(v)
               /\ m # "plain" /\ NoPlain(f[v]) => NoPlain(g[v])
    <2>1. f[v] \in Seq(Passes) /\ n(v) \in Nat
      BY <1>1
    <2> HIDE DEF n
    <2>2. /\ f[v] \o Marked(m, n(v)) \in Seq(Passes)
          /\ Len(f[v] \o Marked(m, n(v))) = Len(f[v]) + n(v)
          /\ m # "plain" /\ NoPlain(f[v]) => NoPlain(f[v] \o Marked(m, n(v)))
      BY <2>1, MarksBehind
    <2>3. g[v] = IF v[1] # r THEN f[v] ELSE f[v] \o Marked(m, n(v))
      BY <1>2
    <2> HIDE DEF g
    <2>4. CASE v[1] # r
      BY <2>1, <2>3, <2>4
    <2>5. CASE v[1] = r
      BY <2>2, <2>3, <2>5
    <2> QED
      BY <2>4, <2>5
  <1>4. g \in [Servqs -> Seq(Passes)]
    <2>1. g = [v \in Servqs |-> g[v]]
      BY DEF ClassTo
    <2> HIDE DEF g
    <2> QED
      BY <1>3, <2>1, Zenon
  <1>5. \A v \in Servqs : v[1] # r => g[v] = f[v]
    BY <1>2
  <1> HIDE DEF g
  <1>6. /\ Total(f, Servqs) \in Nat /\ Total(g, Servqs) \in Nat
        /\ QLen(f, r) \in Nat /\ QLen(g, r) \in Nat
        /\ Total(g, Servqs) + QLen(f, r) = Total(f, Servqs) + QLen(g, r)
    BY <1>4, <1>5, ServqsOne
  <1>7. QLen(g, r) = QLen(f, r) + Len(q)
    <2> DEFINE nb == Len(Only(q, {"be"}))
               nv == Len(Only(q, {"vo"}))
               be == <<r, "be">>
               vo == <<r, "vo">>
    <2>1. /\ nb \in Nat /\ nv \in Nat /\ nb + nv = Len(q)
          /\ "vo" \notin Acs => nv = 0
          /\ q \in Seq({"be"}) => nb = Len(q)
      BY ByCategory
    <2>2. be \in Servqs /\ Len(g[be]) = Len(f[be]) + nb
      <3>1. be \in Servqs /\ be[1] = r /\ be[2] = "be"
        BY SlQueues DEF Rcpts
      <3>2. Len(g[be]) = Len(f[be]) + n(be) /\ n(be) = nb
        BY <1>3, <3>1
      <3> QED
        BY <3>1, <3>2
    <2>3. Len(f[be]) \in Nat
      BY <2>2, LenProperties
    <2>4. CASE vo \in Servqs
      <3>1. vo[1] = r /\ vo[2] = "vo"
        OBVIOUS
      <3>2. Len(g[vo]) = Len(f[vo]) + n(vo) /\ n(vo) = nv
        BY <1>3, <2>4, <3>1
      <3>3. Len(f[vo]) \in Nat
        BY <2>4, LenProperties
      <3>4. QLen(f, r) = Len(f[be]) + Len(f[vo]) /\ QLen(g, r) = Len(g[be]) + Len(g[vo])
        BY <2>4 DEF QLen
      <3> DEFINE fb == Len(f[be])
                 fv == Len(f[vo])
                 l == Len(q)
      <3>5. /\ fb \in Nat /\ fv \in Nat /\ nb \in Nat /\ nv \in Nat /\ nb + nv = l
            /\ QLen(f, r) = fb + fv /\ QLen(g, r) = (fb + nb) + (fv + nv)
        BY <2>1, <2>2, <2>3, <3>2, <3>3, <3>4
      <3> HIDE DEF nb, nv, be, vo, n, fb, fv, l
      <3>6. QLen(g, r) = QLen(f, r) + l
        BY <3>5
      <3> QED
        BY <3>6 DEF l
    <2>5. CASE vo \notin Servqs
      <3>1. nb = Len(q)
        <4>1. r = Bmc \/ (r \in Stas /\ "vo" \notin Acs)
          BY <2>5, SlQueues DEF Rcpts
        <4> HIDE DEF nb, nv
        <4> QED
          BY <2>1, <4>1
      <3>2. QLen(f, r) = Len(f[be]) + 0 /\ QLen(g, r) = Len(g[be]) + 0
        BY <2>5 DEF QLen
      <3> DEFINE fb == Len(f[be])
                 l == Len(q)
      <3>3. /\ fb \in Nat /\ nb \in Nat /\ nb = l
            /\ QLen(f, r) = fb + 0 /\ QLen(g, r) = (fb + nb) + 0
        BY <2>1, <2>2, <2>3, <3>1, <3>2
      <3> HIDE DEF nb, nv, be, vo, n, fb, l
      <3>4. QLen(g, r) = QLen(f, r) + l
        BY <3>3
      <3> QED
        BY <3>4 DEF l
    <2> QED
      BY <2>4, <2>5
  <1>8. Len(q) \in Nat
    OBVIOUS
  <1>9. Total(g, Servqs) = Total(f, Servqs) + Len(q)
    <2> DEFINE tf == Total(f, Servqs)
               tg == Total(g, Servqs)
               qf == QLen(f, r)
               l == Len(q)
    <2>1. /\ tf \in Nat /\ tg \in Nat /\ qf \in Nat /\ l \in Nat
          /\ tg + qf = tf + (qf + l)
      BY <1>6, <1>7, <1>8
    <2> HIDE DEF tf, tg, qf, l
    <2>2. tg = tf + l
      BY <2>1
    <2> QED
      BY <2>2 DEF tf, tg, l
  <1>10. {<<r, q[i]>> : i \in DOMAIN q} \subseteq Servqs
    <2> SUFFICES ASSUME NEW i \in DOMAIN q PROVE <<r, q[i]>> \in Servqs
      OBVIOUS
    <2>1. q[i] \in Acs /\ (r = Bmc => q[i] = "be")
      OBVIOUS
    <2> QED
      BY <2>1, SlQueues DEF Rcpts
  <1>11. \A v \in Servqs : m # "plain" /\ NoPlain(f[v]) => NoPlain(g[v])
    BY <1>3
  <1> QED
    BY <1>4, <1>5, <1>6, <1>8, <1>9, <1>10, <1>11 DEF g

\* The frames buffered for one recipient change, or those of a station and of
\* the group.
LEMMA SleepqOne ==
  ASSUME NEW f \in [Rcpts -> Seq(Acs)], NEW g \in [Rcpts -> Seq(Acs)], NEW r \in Rcpts,
         \A x \in Rcpts \ {r} : g[x] = f[x]
  PROVE  /\ Total(f, Rcpts) \in Nat /\ Total(g, Rcpts) \in Nat
         /\ Len(f[r]) \in Nat /\ Len(g[r]) \in Nat
         /\ Total(g, Rcpts) + Len(f[r]) = Total(f, Rcpts) + Len(g[r])
  <1>1. \A x \in Rcpts : Len(f[x]) \in Nat /\ Len(g[x]) \in Nat
    BY LenProperties
  <1>2. DifferAt(f, g, Rcpts, r)
    BY <1>1 DEF DifferAt
  <1> QED
    BY <1>1, <1>2, SlFinite, TotalOne

\* The lists of a station and of the group change, and the sum with them.
LEMMA SleepqTwo ==
  ASSUME NEW f \in [Rcpts -> Seq(Acs)], NEW g \in [Rcpts -> Seq(Acs)], NEW s \in Stas,
         \A x \in Rcpts \ {s, Bmc} : g[x] = f[x]
  PROVE  /\ Total(f, Rcpts) \in Nat /\ Total(g, Rcpts) \in Nat
         /\ Len(f[s]) \in Nat /\ Len(g[s]) \in Nat /\ Len(f[Bmc]) \in Nat /\ Len(g[Bmc]) \in Nat
         /\ Total(g, Rcpts) + Len(f[s]) + Len(f[Bmc])
              = Total(f, Rcpts) + Len(g[s]) + Len(g[Bmc])
  <1> DEFINE h == [f EXCEPT ![s] = g[s]]
  <1>0. s \in Rcpts /\ Bmc \in Rcpts /\ s # Bmc
    BY SlQueues DEF Rcpts
  <1>1. h \in [Rcpts -> Seq(Acs)] /\ h[s] = g[s] /\ \A x \in Rcpts \ {s} : h[x] = f[x]
    BY <1>0
  <1> HIDE DEF h
  <1>2. \A x \in Rcpts \ {Bmc} : g[x] = h[x]
    BY <1>1
  <1>3. h[Bmc] = f[Bmc]
    BY <1>0, <1>1
  <1> DEFINE tf == Total(f, Rcpts)
             th == Total(h, Rcpts)
             tg == Total(g, Rcpts)
             fs == Len(f[s])
             gs == Len(g[s])
             fb == Len(f[Bmc])
             gb == Len(g[Bmc])
  <1>4. /\ tf \in Nat /\ th \in Nat /\ fs \in Nat /\ gs \in Nat /\ th + fs = tf + gs
    <2>1. /\ Total(f, Rcpts) \in Nat /\ Total(h, Rcpts) \in Nat
          /\ Len(f[s]) \in Nat /\ Len(h[s]) \in Nat
          /\ Total(h, Rcpts) + Len(f[s]) = Total(f, Rcpts) + Len(h[s])
      BY <1>0, <1>1, SleepqOne
    <2> QED
      BY <1>1, <2>1
  <1>5. /\ tg \in Nat /\ fb \in Nat /\ gb \in Nat /\ tg + fb = th + gb
    <2>1. /\ Total(h, Rcpts) \in Nat /\ Total(g, Rcpts) \in Nat
          /\ Len(h[Bmc]) \in Nat /\ Len(g[Bmc]) \in Nat
          /\ Total(g, Rcpts) + Len(h[Bmc]) = Total(h, Rcpts) + Len(g[Bmc])
      BY <1>0, <1>1, <1>2, SleepqOne
    <2> QED
      BY <1>3, <2>1
  <1> HIDE DEF tf, th, tg, fs, gs, fb, gb
  <1>6. tg + fs + fb = tf + gs + gb
    BY <1>4, <1>5
  <1> QED
    BY <1>4, <1>5, <1>6 DEF tf, tg, fs, gs, fb, gb

\* wakeup_sta_to_xmit: the frames q of s and g of the group join the queues f.
WakeTo(f, s, q, g) ==
    [v \in Servqs |->
        f[v] \o Marked("triggered",
            Len(Only(IF v[1] = s THEN q ELSE IF v[1] = Bmc THEN g ELSE << >>, {v[2]})))]

\* A wakeup classifies the frames of the station, then those of the group.
LEMMA WakeClasses ==
  ASSUME NEW f \in [Servqs -> Seq(Passes)], NEW s \in Stas, NEW q \in Seq(Acs),
         NEW g \in Seq(Acs), g \in Seq({"be"})
  PROVE  WakeTo(f, s, q, g) = ClassTo(ClassTo(f, s, q, "triggered"), Bmc, g, "triggered")
  <1> DEFINE h == ClassTo(f, s, q, "triggered")
             w == ClassTo(h, Bmc, g, "triggered")
  <1>0. s # Bmc /\ "triggered" \in Passes
    BY SlQueues DEF Passes
  <1>1. ASSUME NEW v \in Servqs
        PROVE  WakeTo(f, s, q, g)[v] = w[v]
    <2>1. /\ h[v] = IF v[1] # s THEN f[v]
                                ELSE f[v] \o Marked("triggered", Len(Only(q, {v[2]})))
          /\ w[v] = IF v[1] # Bmc THEN h[v]
                                  ELSE h[v] \o Marked("triggered", Len(Only(g, {v[2]})))
      BY DEF ClassTo
    <2> HIDE DEF h, w
    <2>2. WakeTo(f, s, q, g)[v]
            = f[v] \o Marked("triggered",
                  Len(Only(IF v[1] = s THEN q ELSE IF v[1] = Bmc THEN g ELSE << >>, {v[2]})))
      BY DEF WakeTo
    <2>3. CASE v[1] = s
      BY <1>0, <2>1, <2>2, <2>3
    <2>4. CASE v[1] = Bmc
      BY <1>0, <2>1, <2>2, <2>4
    <2>5. CASE v[1] # s /\ v[1] # Bmc
      <3>1. << >> \in Seq({}) /\ {} \cap {v[2]} = {}
        OBVIOUS
      <3>2. Only(<< >>, {v[2]}) = << >>
        BY <3>1, OnlyAll
      <3>3. f[v] \o Marked("triggered", 0) = f[v]
        BY <1>0, MarksBehind
      <3> QED
        BY <2>1, <2>2, <2>5, <3>2, <3>3
    <2> QED
      BY <2>3, <2>4, <2>5
  <1>2. w = [v \in Servqs |-> w[v]]
    BY DEF ClassTo
  <1>3. WakeTo(f, s, q, g) = [v \in Servqs |-> WakeTo(f, s, q, g)[v]]
    BY DEF WakeTo
  <1> HIDE DEF w
  <1>4. WakeTo(f, s, q, g) = w
    BY <1>1, <1>2, <1>3, Zenon
  <1> QED
    BY <1>4 DEF w

\* What stop_sta_xmit takes out of a queue and what it leaves there.
LEMMA PlainStays ==
  ASSUME sta_pending \in [Servqs -> Seq(Passes)], NEW v \in Servqs
  PROVE  /\ Stays(v) \in Seq(Passes) /\ Len(Stays(v)) \in Nat /\ Len(Plain(v)) \in Nat
         /\ Len(Stays(v)) + Len(Plain(v)) = Len(sta_pending[v])
         /\ NoPlain(Stays(v))
         /\ Plain(v) = << >> <=> NoPlain(sta_pending[v])
  <1> DEFINE q == sta_pending[v]
             A == {"triggered", "hiq"}
             P == {"plain"}
             k == Only(q, A)
  <1>1. q \in Seq(Passes) /\ Passes = A \cup P /\ A \cap P = {} /\ A \subseteq Passes
    BY DEF Passes
  <1>2. Plain(v) = Only(q, P)
    BY DEF Plain
  <1> HIDE DEF q, P
  <1>3. Len(k) \in Nat /\ Len(Plain(v)) \in Nat /\ Len(k) + Len(Plain(v)) = Len(q)
    <2> HIDE DEF A
    <2>1. Passes \subseteq A \cup P
      BY <1>1
    <2> QED
      BY <1>1, <1>2, <2>1, OnlyAll, OnlySplits
  <1>4. k \in Seq(Passes \cap A)
    BY <1>1, OnlyTakes
  <1>5. k \in Seq(Passes) /\ NoPlain(k)
    <2>1. \A i \in DOMAIN k : k[i] \in A
      BY <1>4
    <2>2. k \in Seq(Passes)
      BY <1>4
    <2> HIDE DEF k
    <2> QED
      BY <2>1, <2>2 DEF NoPlain
  <1> HIDE DEF k
  <1>6. /\ Stays(v) = IF v[1] = Bmc THEN Marked("hiq", Len(k)) ELSE k
    BY DEF Stays, k, q
  <1>7. /\ Marked("hiq", Len(k)) \in Seq(Passes) /\ Len(Marked("hiq", Len(k))) = Len(k)
        /\ NoPlain(Marked("hiq", Len(k)))
    <2>1. "hiq" \in Passes
      BY DEF Passes
    <2>2. /\ Marked("hiq", Len(k)) \in Seq(Passes) /\ Len(Marked("hiq", Len(k))) = Len(k)
          /\ DOMAIN Marked("hiq", Len(k)) = 1 .. Len(k)
          /\ \A i \in 1 .. Len(k) : Marked("hiq", Len(k))[i] = "hiq"
      BY <1>3, <2>1, MarkedSeq
    <2> QED
      BY <2>2 DEF NoPlain
  <1>8. /\ Stays(v) \in Seq(Passes) /\ Len(Stays(v)) = Len(k) /\ NoPlain(Stays(v))
    <2>1. CASE v[1] = Bmc
      BY <1>6, <1>7, <2>1
    <2>2. CASE v[1] # Bmc
      BY <1>5, <1>6, <2>2
    <2> QED
      BY <2>1, <2>2
  <1>9. Plain(v) = << >> <=> NoPlain(q)
    <2>1. Only(q, P) = << >> <=> \A i \in 1 .. Len(q) : q[i] \notin P
      BY <1>1, OnlyTakes
    <2>2. DOMAIN q = 1 .. Len(q)
      BY <1>1
    <2> QED
      BY <1>2, <2>1, <2>2 DEF NoPlain, P
  <1> QED
    BY <1>3, <1>8, <1>9 DEF q

\* stop_sta_xmit of the queues of r.
LEMMA ParkedTakes ==
  ASSUME sta_pending \in [Servqs -> Seq(Passes)], NEW r \in Rcpts,
         NEW g \in [Servqs -> Seq(Passes)], \A v \in Servqs : v[1] = r => g[v] = Stays(v)
  PROVE  /\ Parked(r) \in Seq(Acs)
         /\ r = Bmc => Parked(r) \in Seq({"be"})
         /\ Len(Parked(r)) \in Nat /\ QLen(g, r) \in Nat
         /\ QLen(sta_pending, r) = QLen(g, r) + Len(Parked(r))
  <1> DEFINE be == <<r, "be">>
             vo == <<r, "vo">>
             pb == Len(Plain(be))
             pv == Len(Plain(vo))
             b == ParkedOf(r, "be")
             v == ParkedOf(r, "vo")
  <1>1. be \in Servqs /\ be[1] = r /\ vo[1] = r
    BY SlQueues DEF Rcpts
  <1>2. /\ pb \in Nat /\ Len(Stays(be)) + pb = Len(sta_pending[be]) /\ Len(Stays(be)) \in Nat
    BY <1>1, PlainStays
  <1>3. vo \in Servqs => /\ pv \in Nat /\ Len(Stays(vo)) + pv = Len(sta_pending[vo])
                         /\ Len(Stays(vo)) \in Nat
    BY PlainStays
  <1>4. vo \notin Servqs => pv = 0
    BY DEF Plain
  <1>5. b = [i \in 1 .. pb |-> "be"] /\ v = [i \in 1 .. pv |-> "vo"]
    BY DEF ParkedOf
  <1>6. g[be] = Stays(be) /\ (vo \in Servqs => g[vo] = Stays(vo))
    BY <1>1
  <1>7. /\ QLen(g, r) = Len(g[be]) + (IF vo \in Servqs THEN Len(g[vo]) ELSE 0)
        /\ QLen(sta_pending, r)
             = Len(sta_pending[be]) + (IF vo \in Servqs THEN Len(sta_pending[vo]) ELSE 0)
    BY DEF QLen
  <1>8. Parked(r) = v \o b
    BY DEF Parked
  <1>9. vo \in Servqs <=> r # Bmc /\ "vo" \in Acs
    BY SlQueues DEF Rcpts
  <1> DEFINE sb == Len(Stays(be))
             sv == Len(Stays(vo))
             lb == Len(sta_pending[be])
             lv == Len(sta_pending[vo])
  <1>10. QLen(g, r) = sb + (IF vo \in Servqs THEN sv ELSE 0)
    BY <1>6, <1>7
  <1> HIDE DEF be, vo, pb, pv, b, v, sb, sv, lb, lv
  <1>11. /\ pb \in Nat /\ pv \in Nat /\ QLen(g, r) \in Nat
         /\ QLen(sta_pending, r) = QLen(g, r) + (pv + pb)
    <2>1. /\ pb \in Nat /\ sb \in Nat /\ sb + pb = lb
          /\ vo \in Servqs => pv \in Nat /\ sv \in Nat /\ sv + pv = lv
          /\ vo \notin Servqs => pv = 0
          /\ QLen(sta_pending, r) = lb + (IF vo \in Servqs THEN lv ELSE 0)
      BY <1>2, <1>3, <1>4, <1>7 DEF pb, pv, sb, sv, lb, lv
    <2>2. CASE vo \in Servqs
      <3>1. QLen(g, r) = sb + sv /\ QLen(sta_pending, r) = lb + lv
        BY <1>10, <2>1, <2>2
      <3> QED
        BY <2>1, <2>2, <3>1
    <2>3. CASE vo \notin Servqs
      <3>1. QLen(g, r) = sb + 0 /\ QLen(sta_pending, r) = lb + 0
        BY <1>10, <2>1, <2>3
      <3> QED
        BY <2>1, <2>3, <3>1
    <2> QED
      BY <2>2, <2>3
  <1>12. /\ b \in Seq({"be"}) /\ Len(b) = pb
    <2>1. b \in [1 .. pb -> {"be"}]
      BY <1>5
    <2> QED
      BY <1>11, <2>1, SeqDef
  <1>13. /\ v \in Seq(Acs) /\ Len(v) = pv
         /\ pv = 0 => v = << >>
    <2>1. CASE vo \in Servqs
      <3>1. v \in [1 .. pv -> Acs]
        BY <1>5, <1>9, <2>1
      <3>2. v \in Seq(Acs)
        BY <1>11, <3>1, SeqDef
      <3>3. Len(v) = pv
        BY <1>5, <1>11, <3>2
      <3> QED
        BY <3>2, <3>3
    <2>2. CASE vo \notin Servqs
      <3>1. pv = 0
        BY <1>4, <2>2 DEF pv, vo
      <3>2. v = [i \in {} |-> "vo"]
        BY <1>5, <3>1
      <3>3. v = << >>
        BY <3>2
      <3> QED
        BY <3>1, <3>3
    <2> QED
      BY <2>1, <2>2
  <1>14. b \in Seq(Acs)
    BY <1>12, SlQueues
  <1>15. v \o b \in Seq(Acs) /\ Len(v \o b) = pv + pb
    BY <1>11, <1>12, <1>13, <1>14, ConcatProperties
  <1>16. ASSUME r = Bmc PROVE v \o b = b
    <2>1. v = << >>
      BY <1>4, <1>9, <1>13, <1>16 DEF pv
    <2> QED
      BY <1>14, <2>1
  <1> QED
    BY <1>8, <1>11, <1>12, <1>15, <1>16

\* Arithmetic modulo W, on which the counters rest.
LEMMA SlMod ==
  /\ W \in Nat /\ W > 1 /\ NR_XMITFRAME \in Nat /\ NR_XMITFRAME + 1 < W
  /\ \A x \in Int : x % W \in 0 .. W - 1
  /\ \A x \in 0 .. W - 1 : x % W = x
  /\ \A x, y \in Int : (x + y) % W \in 0 .. W - 1 /\ (x - y) % W \in 0 .. W - 1
  <1>1. W \in Nat /\ W > 1 /\ NR_XMITFRAME \in Nat /\ NR_XMITFRAME + 1 < W
    BY ApSleepAssumption
  <1>2. ASSUME NEW x \in Int PROVE x % W \in 0 .. W - 1
    BY <1>1, Z3
  <1>3. ASSUME NEW x \in 0 .. W - 1 PROVE x % W = x
    BY <1>1, Z3
  <1>4. ASSUME NEW x \in Int, NEW y \in Int
        PROVE  (x + y) % W \in 0 .. W - 1 /\ (x - y) % W \in 0 .. W - 1
    <2>1. x + y \in Int /\ x - y \in Int
      OBVIOUS
    <2> QED
      BY <1>2, <2>1
  <1> QED
    BY <1>1, <1>2, <1>3, <1>4

\* update_beacon enqueues commands, and shows the TIM when it is called at all.
LEMMA BeaconsTyped ==
  ASSUME NEW q \in Seq(Cmds), NEW n \in Nat
  PROVE  q \o Beacons(n) \in Seq(Cmds) /\ Beacons(0) = << >>
  <1>1. Beacons(n) \in [1 .. n -> Cmds]
    BY DEF Beacons, Cmds
  <1>2. Beacons(n) \in Seq(Cmds)
    BY <1>1, SeqDef
  <1>3. Beacons(0) = << >>
    <2>1. Beacons(0) = [i \in {} |-> "TxBeacon"]
      BY DEF Beacons
    <2> QED
      BY <2>1
  <1> QED
    BY <1>2, <1>3, ConcatProperties

\* The number of frames of q that make sleepq_len 1: none, or at least one.
LEMMA UpdatesNat ==
  ASSUME NEW T, NEW q \in Seq(T), NEW s
  PROVE  /\ Updates(s, q) \in Nat
         /\ Updates(s, q) = 0 <=> ~ \E i \in DOMAIN q : Told(s, q[i]) /\ (sleepq_len[s] + i) % W = 1
  <1> DEFINE D == {i \in DOMAIN q : Told(s, q[i]) /\ (sleepq_len[s] + i) % W = 1}
  <1>1. Len(q) \in Nat /\ DOMAIN q = 1 .. Len(q)
    OBVIOUS
  <1>2. IsFiniteSet(DOMAIN q)
    BY <1>1, FS_Interval
  <1>3. D \subseteq DOMAIN q
    OBVIOUS
  <1>4. Updates(s, q) = Cardinality(D)
    BY DEF Updates
  <1>5. D = {} <=> ~ \E i \in DOMAIN q : Told(s, q[i]) /\ (sleepq_len[s] + i) % W = 1
    OBVIOUS
  <1> HIDE DEF D
  <1>6. IsFiniteSet(D)
    BY <1>2, <1>3, FS_Subset
  <1> QED
    BY <1>4, <1>5, <1>6, FS_CardinalityType, FS_EmptySet

\* update_beacon in a step: the commands stay commands, the beacon's TIM is
\* the old one or the new one.
LEMMA UpdateTyped ==
  ASSUME cmd_queue \in Seq(Cmds), NEW t, NEW n \in Nat, UpdateBeacon(t, n)
  PROVE  /\ cmd_queue' \in Seq(Cmds)
         /\ bcn_tim' = IF n > 0 THEN t ELSE bcn_tim
  BY BeaconsTyped DEF UpdateBeacon

\* hal_xmitframe_enqueue in a step: the queues are longer by the frames.
LEMMA Classified ==
  ASSUME TyQueues, NEW r \in Rcpts, NEW q \in Seq(Acs), r = Bmc => q \in Seq({"be"}),
         NEW m \in Passes, Classify(r, q, m)
  PROVE  /\ sta_pending' = ClassTo(sta_pending, r, q, m)
         /\ sta_pending' \in [Servqs -> Seq(Passes)] /\ tx_pending' \subseteq Servqs
         /\ Total(sta_pending', Servqs) = Total(sta_pending, Servqs) + Len(q)
         /\ Total(sta_pending, Servqs) \in Nat
         /\ \A v \in Servqs : v[1] # r => sta_pending'[v] = sta_pending[v]
         /\ \A v \in Servqs : m # "plain" /\ NoPlain(sta_pending[v]) => NoPlain(sta_pending'[v])
  <1>1. sta_pending \in [Servqs -> Seq(Passes)] /\ tx_pending \subseteq Servqs
    BY DEF TyQueues
  <1>2. /\ sta_pending' = ClassTo(sta_pending, r, q, m)
        /\ tx_pending' = tx_pending \cup {<<r, q[i]>> : i \in DOMAIN q}
    BY Zenon DEF Classify, ClassTo
  <1> DEFINE f == sta_pending
             g == ClassTo(f, r, q, m)
  <1>3. /\ g \in [Servqs -> Seq(Passes)]
        /\ Total(g, Servqs) = Total(f, Servqs) + Len(q)
        /\ Total(f, Servqs) \in Nat /\ Len(q) \in Nat
        /\ \A v \in Servqs : v[1] # r => g[v] = f[v]
        /\ \A v \in Servqs : m # "plain" /\ NoPlain(f[v]) => NoPlain(g[v])
        /\ {<<r, q[i]>> : i \in DOMAIN q} \subseteq Servqs
    BY <1>1, ClassTakes
  <1> HIDE DEF g
  <1>4. sta_pending' = g
    BY <1>2 DEF g
  <1> QED
    BY <1>1, <1>2, <1>3, <1>4

\* As many frames wait as before, in the lists of dozing stations or for the chip.
WaitingKept ==
    /\ Total(sleep_q, Rcpts) \in Nat /\ Total(sleep_q', Rcpts) \in Nat
    /\ Total(sta_pending, Servqs) \in Nat /\ Total(sta_pending', Servqs) \in Nat
    /\ Total(sleep_q', Rcpts) + Total(sta_pending', Servqs)
         = Total(sleep_q, Rcpts) + Total(sta_pending, Servqs)

\* What stop_sta_xmit does: the frames of s and of the group that nobody asked
\* for go from the queues to the two lists, behind what waits there.
StopMoves(s, q, g) ==
    /\ q \in Seq(Acs) /\ g \in Seq({"be"})
    /\ sleep_q' \in [Rcpts -> Seq(Acs)]
    /\ sleep_q'[s] = sleep_q[s] \o q /\ sleep_q'[Bmc] = sleep_q[Bmc] \o g
    /\ sleep_q'[Bmc] \in Seq({"be"})
    /\ \A r \in Rcpts \ {s, Bmc} : sleep_q'[r] = sleep_q[r]
    /\ sta_pending' \in [Servqs -> Seq(Passes)] /\ tx_pending' \subseteq tx_pending
    /\ \A v \in Servqs : v[1] \in {s, Bmc} => NoPlain(sta_pending'[v])
    /\ \A v \in Servqs : v[1] \notin {s, Bmc} => sta_pending'[v] = sta_pending[v]

\* stop_sta_xmit buffers what waited plainly for the chip, and loses no frame.
LEMMA StopEffect ==
  ASSUME SlTyped, NEW s \in Stas, stop_sta_xmit(s)
  PROVE  /\ StopMoves(s, Parked(s), Parked(Bmc))
         /\ WaitingKept
  <1> DEFINE q == Parked(s)
             g == Parked(Bmc)
  <1>0. s \in Rcpts /\ Bmc \in Rcpts /\ s # Bmc
    BY SlQueues DEF Rcpts
  <1>1. /\ sta_pending \in [Servqs -> Seq(Passes)] /\ sleep_q \in [Rcpts -> Seq(Acs)]
        /\ sleep_q[Bmc] \in Seq({"be"})
    BY DEF SlTyped, TyQueues, TyBuffers
  <1>2. /\ sleep_q' = [sleep_q EXCEPT ![s] = @ \o q, ![Bmc] = @ \o g]
        /\ sta_pending' = [v \in Servqs |->
              IF v \in Stopped(s) THEN Stays(v) ELSE sta_pending[v]]
        /\ tx_pending' \subseteq tx_pending
    BY DEF stop_sta_xmit
  <1>3. \A v \in Servqs : v \in Stopped(s) <=> v[1] = s \/ v[1] = Bmc
    <2> SUFFICES ASSUME NEW v \in Servqs PROVE v \in Stopped(s) <=> v[1] = s \/ v[1] = Bmc
      OBVIOUS
    <2>1. v = <<v[1], v[2]>> /\ v[1] \in Rcpts /\ v[2] \in Acs /\ (v[1] = Bmc => v[2] = "be")
      BY SlQueues
    <2> QED
      BY <1>0, <2>1 DEF Stopped
  <1>4. \A v \in Servqs : v[1] \in {s, Bmc} => sta_pending'[v] = Stays(v)
    BY <1>2, <1>3
  <1>5. \A v \in Servqs : v[1] \notin {s, Bmc} => sta_pending'[v] = sta_pending[v]
    BY <1>2, <1>3
  <1>6. \A v \in Servqs : Stays(v) \in Seq(Passes) /\ NoPlain(Stays(v))
    BY <1>1, PlainStays
  <1>7. sta_pending' \in [Servqs -> Seq(Passes)]
    <2>1. \A v \in Servqs : sta_pending'[v] \in Seq(Passes)
      BY <1>1, <1>4, <1>5, <1>6
    <2>2. sta_pending' = [v \in Servqs |-> sta_pending'[v]]
      BY <1>2
    <2> QED
      BY <2>1, <2>2, Zenon
  <1>8. /\ q \in Seq(Acs) /\ Len(q) \in Nat /\ QLen(sta_pending', s) \in Nat
        /\ QLen(sta_pending, s) = QLen(sta_pending', s) + Len(q)
    BY <1>0, <1>1, <1>4, <1>7, ParkedTakes
  <1>9. /\ g \in Seq({"be"}) /\ g \in Seq(Acs) /\ Len(g) \in Nat
        /\ QLen(sta_pending', Bmc) \in Nat
        /\ QLen(sta_pending, Bmc) = QLen(sta_pending', Bmc) + Len(g)
    BY <1>0, <1>1, <1>4, <1>7, ParkedTakes
  <1> HIDE DEF q, g
  <1>10. /\ sleep_q' \in [Rcpts -> Seq(Acs)]
         /\ sleep_q'[s] = sleep_q[s] \o q /\ sleep_q'[Bmc] = sleep_q[Bmc] \o g
         /\ \A r \in Rcpts \ {s, Bmc} : sleep_q'[r] = sleep_q[r]
    <2> DEFINE a == sleep_q[s] \o q
               b == sleep_q[Bmc] \o g
    <2>1. a \in Seq(Acs) /\ b \in Seq(Acs)
      BY <1>0, <1>1, <1>8, <1>9, ConcatProperties
    <2>2. sleep_q' = [sleep_q EXCEPT ![s] = a, ![Bmc] = b]
      BY <1>0, <1>1, <1>2
    <2> HIDE DEF a, b
    <2>3. /\ sleep_q' \in [Rcpts -> Seq(Acs)] /\ sleep_q'[s] = a /\ sleep_q'[Bmc] = b
          /\ \A r \in Rcpts \ {s, Bmc} : sleep_q'[r] = sleep_q[r]
      BY <1>0, <1>1, <2>1, <2>2
    <2> QED
      BY <2>3 DEF a, b
  <1>11. sleep_q'[Bmc] \in Seq({"be"})
    BY <1>1, <1>9, <1>10, ConcatProperties
  <1>12. /\ Len(sleep_q'[s]) = Len(sleep_q[s]) + Len(q)
         /\ Len(sleep_q'[Bmc]) = Len(sleep_q[Bmc]) + Len(g)
    <2>1. sleep_q[s] \in Seq(Acs) /\ sleep_q[Bmc] \in Seq(Acs)
      BY <1>0, <1>1
    <2> QED
      BY <1>8, <1>9, <1>10, <2>1, ConcatProperties
  <1>13. /\ Total(sleep_q, Rcpts) \in Nat /\ Total(sleep_q', Rcpts) \in Nat
         /\ Len(sleep_q[s]) \in Nat /\ Len(sleep_q[Bmc]) \in Nat
         /\ Total(sleep_q', Rcpts) + Len(sleep_q[s]) + Len(sleep_q[Bmc])
              = Total(sleep_q, Rcpts) + Len(sleep_q'[s]) + Len(sleep_q'[Bmc])
    BY <1>1, <1>10, SleepqTwo
  <1>14. /\ Total(sta_pending, Servqs) \in Nat /\ Total(sta_pending', Servqs) \in Nat
         /\ Total(sta_pending', Servqs) + QLen(sta_pending, s) + QLen(sta_pending, Bmc)
              = Total(sta_pending, Servqs) + QLen(sta_pending', s) + QLen(sta_pending', Bmc)
    BY <1>1, <1>5, <1>7, ServqsTwo
  <1>15. Total(sleep_q', Rcpts) + Total(sta_pending', Servqs)
           = Total(sleep_q, Rcpts) + Total(sta_pending, Servqs)
    <2> DEFINE b0 == Total(sleep_q, Rcpts)
               b1 == Total(sleep_q', Rcpts)
               p0 == Total(sta_pending, Servqs)
               p1 == Total(sta_pending', Servqs)
               ls == Len(sleep_q[s])
               lb == Len(sleep_q[Bmc])
               lq == Len(q)
               lg == Len(g)
               qs == QLen(sta_pending', s)
               qb == QLen(sta_pending', Bmc)
    <2>1. /\ b0 \in Nat /\ b1 \in Nat /\ p0 \in Nat /\ p1 \in Nat /\ ls \in Nat /\ lb \in Nat
          /\ lq \in Nat /\ lg \in Nat /\ qs \in Nat /\ qb \in Nat
          /\ b1 + ls + lb = b0 + (ls + lq) + (lb + lg)
          /\ p1 + (qs + lq) + (qb + lg) = p0 + qs + qb
      BY <1>8, <1>9, <1>12, <1>13, <1>14
    <2> HIDE DEF b0, b1, p0, p1, ls, lb, lq, lg, qs, qb
    <2>2. b1 + p1 = b0 + p0
      BY <2>1
    <2> QED
      BY <2>2 DEF b0, b1, p0, p1
  <1>16. \A v \in Servqs : v[1] \in {s, Bmc} => NoPlain(sta_pending'[v])
    BY <1>4, <1>6
  <1>17. StopMoves(s, q, g)
    BY <1>2, <1>5, <1>7, <1>8, <1>9, <1>10, <1>11, <1>16 DEF StopMoves
  <1> QED
    BY <1>13, <1>14, <1>15, <1>17 DEF q, g, WaitingKept

\* What wakeup_sta_to_xmit does: the frames of s go from its list to the
\* queues, all marked as triggered; those of the group too when g is their list.
WakeMoves(s, g) ==
    /\ sleep_q' \in [Rcpts -> Seq(Acs)] /\ sleep_q'[s] = << >>
    /\ sleep_q'[Bmc] = IF g = << >> THEN sleep_q[Bmc] ELSE << >>
    /\ \A r \in Rcpts \ {s, Bmc} : sleep_q'[r] = sleep_q[r]
    /\ sta_pending' \in [Servqs -> Seq(Passes)] /\ tx_pending' \subseteq Servqs
    /\ \A v \in Servqs : NoPlain(sta_pending[v]) => NoPlain(sta_pending'[v])
    /\ \A v \in Servqs : v[1] \notin {s, Bmc} => sta_pending'[v] = sta_pending[v]

\* The group frames a wakeup sends: all, when nobody else dozes.
GroupOf == IF sta_dz_bitmap \subseteq {Bmc} THEN sleep_q[Bmc] ELSE << >>

\* wakeup_sta_to_xmit hands on what was buffered, and loses no frame.
LEMMA WakeEffect ==
  ASSUME SlTyped, NEW s \in Stas, NEW c, NEW l, wakeup_sta_to_xmit(c, s, l)
  PROVE  /\ WakeMoves(s, GroupOf)
         /\ WaitingKept
  <1> DEFINE q == sleep_q[s]
             g == GroupOf
             f == sta_pending
             m == "triggered"
             h == ClassTo(f, s, q, m)
             w == ClassTo(h, Bmc, g, m)
  <1>0. s \in Rcpts /\ Bmc \in Rcpts /\ s # Bmc /\ m \in Passes /\ m # "plain"
    BY SlQueues DEF Rcpts, Passes
  <1>1. /\ f \in [Servqs -> Seq(Passes)] /\ sleep_q \in [Rcpts -> Seq(Acs)]
        /\ sleep_q[Bmc] \in Seq({"be"}) /\ tx_pending \subseteq Servqs
    BY DEF SlTyped, TyQueues, TyBuffers
  <1>2. q \in Seq(Acs) /\ g \in Seq(Acs) /\ g \in Seq({"be"}) /\ g \in {sleep_q[Bmc], << >>}
    BY <1>0, <1>1, EmptySeq DEF GroupOf
  <1>3. /\ sleep_q' = [sleep_q EXCEPT ![s] = << >>, ![Bmc] = IF g = << >> THEN @ ELSE << >>]
        /\ sta_pending' = WakeTo(f, s, q, g)
        /\ tx_pending' = tx_pending \cup {<<s, q[i]>> : i \in DOMAIN q}
                                    \cup {<<Bmc, g[i]>> : i \in DOMAIN g}
    BY Zenon DEF wakeup_sta_to_xmit, WakeTo, GroupOf
  <1> HIDE DEF g, q, m
  <1>4. /\ h \in [Servqs -> Seq(Passes)] /\ Total(h, Servqs) = Total(f, Servqs) + Len(q)
        /\ Total(f, Servqs) \in Nat /\ Len(q) \in Nat
        /\ \A v \in Servqs : v[1] # s => h[v] = f[v]
        /\ \A v \in Servqs : m # "plain" /\ NoPlain(f[v]) => NoPlain(h[v])
        /\ {<<s, q[i]>> : i \in DOMAIN q} \subseteq Servqs
    <2>1. s = Bmc => q \in Seq({"be"})
      BY <1>0
    <2>2. f \in [Servqs -> Seq(Passes)] /\ s \in Rcpts /\ q \in Seq(Acs) /\ m \in Passes
      BY <1>0, <1>1, <1>2
    <2> HIDE DEF f
    <2> QED
      BY <2>1, <2>2, ClassTakes
  <1> HIDE DEF h
  <1>5. /\ w \in [Servqs -> Seq(Passes)] /\ Total(w, Servqs) = Total(h, Servqs) + Len(g)
        /\ Len(g) \in Nat
        /\ \A v \in Servqs : v[1] # Bmc => w[v] = h[v]
        /\ \A v \in Servqs : m # "plain" /\ NoPlain(h[v]) => NoPlain(w[v])
        /\ {<<Bmc, g[i]>> : i \in DOMAIN g} \subseteq Servqs
    BY <1>0, <1>2, <1>4, ClassTakes
  <1>6. sta_pending' = w
    BY <1>1, <1>2, <1>3, WakeClasses DEF h, m
  <1> HIDE DEF w
  <1>7. /\ sleep_q' \in [Rcpts -> Seq(Acs)] /\ sleep_q'[s] = << >>
        /\ sleep_q'[Bmc] = IF g = << >> THEN sleep_q[Bmc] ELSE << >>
        /\ \A r \in Rcpts \ {s, Bmc} : sleep_q'[r] = sleep_q[r]
    <2> DEFINE b == IF g = << >> THEN sleep_q[Bmc] ELSE << >>
    <2>1. b \in Seq(Acs) /\ << >> \in Seq(Acs)
      BY <1>0, <1>1
    <2>2. sleep_q' = [sleep_q EXCEPT ![s] = << >>, ![Bmc] = b]
      BY <1>0, <1>1, <1>3
    <2> HIDE DEF b
    <2>3. /\ sleep_q' \in [Rcpts -> Seq(Acs)] /\ sleep_q'[s] = << >> /\ sleep_q'[Bmc] = b
          /\ \A r \in Rcpts \ {s, Bmc} : sleep_q'[r] = sleep_q[r]
      BY <1>0, <1>1, <2>1, <2>2
    <2> QED
      BY <2>3 DEF b
  <1>8. /\ Total(sleep_q, Rcpts) \in Nat /\ Total(sleep_q', Rcpts) \in Nat
        /\ Len(sleep_q[s]) \in Nat /\ Len(sleep_q[Bmc]) \in Nat
        /\ Total(sleep_q', Rcpts) + Len(sleep_q[s]) + Len(sleep_q[Bmc])
             = Total(sleep_q, Rcpts) + Len(sleep_q'[s]) + Len(sleep_q'[Bmc])
    BY <1>1, <1>7, SleepqTwo
  <1>9. /\ Len(sleep_q'[s]) = 0
        /\ Len(sleep_q'[Bmc]) + Len(g) = Len(sleep_q[Bmc])
        /\ Len(sleep_q'[Bmc]) \in Nat
    <2>1. Len(<< >>) = 0
      OBVIOUS
    <2>2. CASE g = << >>
      BY <1>7, <1>8, <2>1, <2>2
    <2>3. CASE g # << >>
      BY <1>2, <1>7, <1>8, <2>1, <2>3
    <2> QED
      BY <2>2, <2>3
  <1>10. Total(sleep_q', Rcpts) + Total(sta_pending', Servqs)
           = Total(sleep_q, Rcpts) + Total(f, Servqs)
    <2> DEFINE b0 == Total(sleep_q, Rcpts)
               b1 == Total(sleep_q', Rcpts)
               p0 == Total(f, Servqs)
               p1 == Total(sta_pending', Servqs)
               lb == Len(sleep_q'[Bmc])
               lq == Len(q)
               lg == Len(g)
    <2>1. /\ b0 \in Nat /\ b1 \in Nat /\ p0 \in Nat /\ lb \in Nat /\ lq \in Nat /\ lg \in Nat
          /\ b1 + lq + (lb + lg) = b0 + 0 + lb
          /\ p1 = p0 + lq + lg
      BY <1>4, <1>5, <1>6, <1>8, <1>9 DEF q
    <2> HIDE DEF b0, b1, p0, p1, lb, lq, lg
    <2>2. b1 + p1 = b0 + p0
      BY <2>1
    <2> QED
      BY <2>2 DEF b0, b1, p0, p1
  <1>11. WakeMoves(s, g)
    <2>1. tx_pending' \subseteq Servqs
      BY <1>1, <1>3, <1>4, <1>5
    <2>2. \A v \in Servqs : NoPlain(f[v]) => NoPlain(sta_pending'[v])
      BY <1>0, <1>4, <1>5, <1>6
    <2>3. \A v \in Servqs : v[1] \notin {s, Bmc} => sta_pending'[v] = f[v]
      BY <1>4, <1>5, <1>6
    <2> QED
      BY <1>5, <1>6, <1>7, <2>1, <2>2, <2>3 DEF WakeMoves
  <1>12. Total(sta_pending', Servqs) \in Nat
    BY <1>4, <1>5, <1>6
  <1> QED
    BY <1>4, <1>8, <1>10, <1>11, <1>12 DEF g, WaitingKept

\* Frames q of r go from its list, which keeps p, to the queues, marked m.
Joins(r, q, p, m) ==
    /\ r \in Rcpts /\ q \in Seq(Acs) /\ p \in Seq(Acs) /\ m \in Passes
    /\ r = Bmc => q \in Seq({"be"}) /\ p \in Seq({"be"})
    /\ Len(p) + Len(q) = Len(sleep_q[r])
    /\ Classify(r, q, m) /\ sleep_q' = [sleep_q EXCEPT ![r] = p]
\* What such a move leaves behind: p is buffered, nothing is lost, and no frame
\* but plain ones came to the tx_servqs.
Joined(r, p, m) ==
    /\ sleep_q' \in [Rcpts -> Seq(Acs)] /\ sleep_q'[Bmc] \in Seq({"be"})
    /\ sleep_q'[r] = p
    /\ \A x \in Rcpts \ {r} : sleep_q'[x] = sleep_q[x]
    /\ sta_pending' \in [Servqs -> Seq(Passes)] /\ tx_pending' \subseteq Servqs
    /\ \A v \in Servqs : m # "plain" /\ NoPlain(sta_pending[v]) => NoPlain(sta_pending'[v])
    /\ WaitingKept

\* Frames taken from a list and classified are moved, not lost.
LEMMA JoinEffect ==
  ASSUME SlTyped, NEW r, NEW q, NEW p, NEW m, Joins(r, q, p, m)
  PROVE  Joined(r, p, m)
  <1>0. /\ r \in Rcpts /\ q \in Seq(Acs) /\ p \in Seq(Acs) /\ m \in Passes
        /\ r = Bmc => q \in Seq({"be"})
        /\ r = Bmc => p \in Seq({"be"})
        /\ Len(p) + Len(q) = Len(sleep_q[r])
        /\ Classify(r, q, m) /\ sleep_q' = [sleep_q EXCEPT ![r] = p]
    BY DEF Joins
  <1>1. TyQueues /\ sleep_q \in [Rcpts -> Seq(Acs)] /\ sleep_q[Bmc] \in Seq({"be"})
    BY DEF SlTyped, TyBuffers
  <1>2. /\ sta_pending' \in [Servqs -> Seq(Passes)] /\ tx_pending' \subseteq Servqs
        /\ Total(sta_pending', Servqs) = Total(sta_pending, Servqs) + Len(q)
        /\ Total(sta_pending, Servqs) \in Nat
        /\ \A v \in Servqs : v[1] # r => sta_pending'[v] = sta_pending[v]
        /\ \A v \in Servqs : m # "plain" /\ NoPlain(sta_pending[v]) => NoPlain(sta_pending'[v])
    BY <1>0, <1>1, Classified
  <1>3. /\ sleep_q' \in [Rcpts -> Seq(Acs)] /\ sleep_q'[r] = p
        /\ \A x \in Rcpts \ {r} : sleep_q'[x] = sleep_q[x]
    BY <1>0, <1>1
  <1>4. sleep_q'[Bmc] \in Seq({"be"})
    BY <1>0, <1>1, <1>3 DEF Rcpts
  <1>5. /\ Total(sleep_q, Rcpts) \in Nat /\ Total(sleep_q', Rcpts) \in Nat
        /\ Len(sleep_q[r]) \in Nat
        /\ Total(sleep_q', Rcpts) + Len(sleep_q[r]) = Total(sleep_q, Rcpts) + Len(p)
    <2>1. /\ Total(sleep_q, Rcpts) \in Nat /\ Total(sleep_q', Rcpts) \in Nat
          /\ Len(sleep_q[r]) \in Nat /\ Len(sleep_q'[r]) \in Nat
          /\ Total(sleep_q', Rcpts) + Len(sleep_q[r]) = Total(sleep_q, Rcpts) + Len(sleep_q'[r])
      BY <1>0, <1>1, <1>3, SleepqOne
    <2> QED
      BY <1>3, <2>1
  <1>6. Len(p) \in Nat /\ Len(q) \in Nat
    BY <1>0
  <1>7. Total(sleep_q', Rcpts) + Total(sta_pending', Servqs)
          = Total(sleep_q, Rcpts) + Total(sta_pending, Servqs)
    <2> DEFINE b0 == Total(sleep_q, Rcpts)
               b1 == Total(sleep_q', Rcpts)
               p0 == Total(sta_pending, Servqs)
               p1 == Total(sta_pending', Servqs)
               lp == Len(p)
               lq == Len(q)
    <2>1. /\ b0 \in Nat /\ b1 \in Nat /\ p0 \in Nat /\ lp \in Nat /\ lq \in Nat
          /\ b1 + (lp + lq) = b0 + lp /\ p1 = p0 + lq
      BY <1>0, <1>2, <1>5, <1>6
    <2> HIDE DEF b0, b1, p0, p1, lp, lq
    <2>2. b1 + p1 = b0 + p0
      BY <2>1
    <2> QED
      BY <2>2 DEF b0, b1, p0, p1
  <1>8. Total(sta_pending', Servqs) \in Nat
    BY <1>2, <1>6
  <1> QED
    BY <1>2, <1>3, <1>4, <1>5, <1>7, <1>8 DEF Joined, WaitingKept

\* xmit_delivery_enabled_frames: what is delivered and what is kept.
LEMMA Delivers ==
  ASSUME SlTyped, NEW s \in Stas
  PROVE  LET q == Only(sleep_q[s], Delivery(s))
             p == Only(sleep_q[s], Acs \ Delivery(s))
         IN  /\ q \in Seq(Acs) /\ p \in Seq(Acs)
             /\ Len(p) + Len(q) = Len(sleep_q[s])
             /\ Len(p) \in Nat /\ Len(q) \in Nat
  <1> DEFINE D == Delivery(s)
             K == Acs \ Delivery(s)
             l == sleep_q[s]
  <1>1. l \in Seq(Acs)
    BY DEF SlTyped, TyBuffers, Rcpts
  <1>2. Acs \subseteq K \cup D /\ K \cap D = {}
    OBVIOUS
  <1> HIDE DEF D, K, l
  <1>3. Only(l, D) \in Seq(Acs \cap D) /\ Only(l, K) \in Seq(Acs \cap K)
    BY <1>1, OnlyTakes
  <1>4. Only(l, D) \in Seq(Acs) /\ Only(l, K) \in Seq(Acs)
    BY <1>3
  <1>5. Len(Only(l, K)) + Len(Only(l, D)) = Len(l)
    BY <1>1, <1>2, OnlySplits
  <1>6. Len(Only(l, D)) \in Nat /\ Len(Only(l, K)) \in Nat
    BY <1>1, OnlyAll
  <1> QED
    BY <1>4, <1>5, <1>6 DEF D, K, l

\* xmit_delivery_enabled_frames hands on the delivery-enabled frames.
LEMMA DeliverEffect ==
  ASSUME SlTyped, NEW s \in Stas, xmit_delivery_enabled_frames(s)
  PROVE  /\ sleep_q' \in [Rcpts -> Seq(Acs)] /\ sleep_q'[Bmc] \in Seq({"be"})
         /\ sleep_q'[s] = Only(sleep_q[s], Acs \ Delivery(s))
         /\ \A x \in Rcpts \ {s} : sleep_q'[x] = sleep_q[x]
         /\ sta_pending' \in [Servqs -> Seq(Passes)] /\ tx_pending' \subseteq Servqs
         /\ \A v \in Servqs : NoPlain(sta_pending[v]) => NoPlain(sta_pending'[v])
         /\ WaitingKept
  <1> DEFINE q == Only(sleep_q[s], Delivery(s))
             p == Only(sleep_q[s], Acs \ Delivery(s))
             m == "triggered"
  <1>0. s \in Rcpts /\ s # Bmc /\ m \in Passes /\ m # "plain"
    BY SlQueues DEF Rcpts, Passes
  <1>1. q \in Seq(Acs) /\ p \in Seq(Acs) /\ Len(p) + Len(q) = Len(sleep_q[s])
    BY Delivers
  <1>2. Classify(s, q, m) /\ sleep_q' = [sleep_q EXCEPT ![s] = p]
    BY Zenon DEF xmit_delivery_enabled_frames
  <1>3. (s = Bmc => q \in Seq({"be"})) /\ (s = Bmc => p \in Seq({"be"}))
    BY <1>0
  <1> HIDE DEF q, p, m
  <1>4. Joined(s, p, m)
    <2>1. Joins(s, q, p, m)
      BY <1>0, <1>1, <1>2, <1>3 DEF Joins
    <2> QED
      BY <2>1, JoinEffect
  <1> QED
    BY <1>0, <1>4 DEF p, Joined

\* A PS-Poll with a frame for it.
LEMMA PollEffect ==
  ASSUME SlTyped, NEW s \in Stas, PsPollFrame(s)
  PROVE  /\ sleep_q' \in [Rcpts -> Seq(Acs)] /\ sleep_q'[Bmc] \in Seq({"be"})
         /\ sleep_q'[s] = Tail(sleep_q[s]) /\ Len(sleep_q'[s]) + 1 = Len(sleep_q[s])
         /\ \A x \in Rcpts \ {s} : sleep_q'[x] = sleep_q[x]
         /\ sta_pending' \in [Servqs -> Seq(Passes)] /\ tx_pending' \subseteq Servqs
         /\ \A v \in Servqs : NoPlain(sta_pending[v]) => NoPlain(sta_pending'[v])
         /\ WaitingKept
  <1> DEFINE l == sleep_q[s]
             q == <<Head(l)>>
             p == Tail(l)
             m == "triggered"
  <1>0. s \in Rcpts /\ s # Bmc /\ m \in Passes /\ m # "plain"
    BY SlQueues DEF Rcpts, Passes
  <1>1. l \in Seq(Acs) /\ l # << >>
    BY <1>0 DEF SlTyped, TyBuffers, PsPollFrame
  <1>2. Classify(s, q, m) /\ sleep_q' = [sleep_q EXCEPT ![s] = p]
    BY Zenon DEF PsPollFrame
  <1>3. q \in Seq(Acs) /\ p \in Seq(Acs) /\ Len(q) = 1 /\ Len(p) + 1 = Len(l)
    <2> HIDE DEF l
    <2> QED
      BY <1>1, HeadTailProperties
  <1>5. Len(p) + Len(q) = Len(sleep_q[s])
    BY <1>3
  <1>6. (s = Bmc => q \in Seq({"be"})) /\ (s = Bmc => p \in Seq({"be"}))
    BY <1>0
  <1> HIDE DEF q, p, m, l
  <1>4. Joined(s, p, m)
    <2>1. Joins(s, q, p, m)
      BY <1>0, <1>2, <1>3, <1>5, <1>6 DEF Joins
    <2> QED
      BY <2>1, JoinEffect
  <1> QED
    BY <1>0, <1>3, <1>4 DEF p, l, Joined

\* The group's frames go to the high queue.
LEMMA GroupEffect ==
  ASSUME SlTyped, TxGroup
  PROVE  /\ sleep_q' \in [Rcpts -> Seq(Acs)] /\ sleep_q'[Bmc] = << >>
         /\ \A x \in Rcpts \ {Bmc} : sleep_q'[x] = sleep_q[x]
         /\ sta_pending' \in [Servqs -> Seq(Passes)] /\ tx_pending' \subseteq Servqs
         /\ \A v \in Servqs : NoPlain(sta_pending[v]) => NoPlain(sta_pending'[v])
         /\ WaitingKept
  <1> DEFINE q == sleep_q[Bmc]
             p == << >>
             m == "hiq"
  <1>0. Bmc \in Rcpts /\ m \in Passes /\ m # "plain"
    BY DEF Rcpts, Passes
  <1>1. q \in Seq(Acs) /\ q \in Seq({"be"})
    BY <1>0 DEF SlTyped, TyBuffers
  <1>2. Classify(Bmc, q, m) /\ sleep_q' = [sleep_q EXCEPT ![Bmc] = p]
    BY Zenon DEF TxGroup
  <1>3. p \in Seq(Acs) /\ p \in Seq({"be"}) /\ Len(p) + Len(q) = Len(sleep_q[Bmc])
    <2>1. p \in Seq(Acs) /\ p \in Seq({"be"}) /\ Len(p) = 0 /\ Len(q) \in Nat
      BY <1>1
    <2> QED
      BY <2>1
  <1> HIDE DEF q, p, m
  <1>4. Joined(Bmc, p, m)
    <2>1. Joins(Bmc, q, p, m)
      BY <1>0, <1>1, <1>2, <1>3 DEF Joins
    <2> QED
      BY <2>1, JoinEffect
  <1> QED
    BY <1>0, <1>4 DEF p, Joined

\* rtw_free_stainfo frees what waits for the station.
LEMMA WaitingFrames ==
  ASSUME SlTyped, NEW s \in Stas
  PROVE  /\ Waiting(s) \in Nat /\ Waiting(s) = Len(sleep_q[s]) + QLen(sta_pending, s)
         /\ Len(sleep_q[s]) \in Nat /\ QLen(sta_pending, s) \in Nat
  <1>1. sta_pending \in [Servqs -> Seq(Passes)] /\ sleep_q[s] \in Seq(Acs)
    BY DEF SlTyped, TyQueues, TyBuffers, Rcpts
  <1>2. /\ <<s, "be">> \in Servqs
        /\ <<s, "vo">> \in Servqs <=> "vo" \in Acs
    BY SlQueues
  <1> DEFINE n == Len(sleep_q[s])
             b == Len(sta_pending[<<s, "be">>])
             v == IF "vo" \in Acs THEN Len(sta_pending[<<s, "vo">>]) ELSE 0
  <1>3. n \in Nat /\ b \in Nat
    BY <1>1, <1>2, LenProperties
  <1>4. v \in Nat
    BY <1>1, <1>2, LenProperties
  <1>5. Waiting(s) = n + b + v
    BY DEF Waiting
  <1>6. QLen(sta_pending, s) = b + v
    BY <1>2 DEF QLen
  <1> HIDE DEF n, b, v
  <1>7. Waiting(s) \in Nat /\ Waiting(s) = n + (b + v) /\ b + v \in Nat
    BY <1>3, <1>4, <1>5
  <1> QED
    BY <1>3, <1>6, <1>7 DEF n

-----------------------------------------------------------------------------
(***************************************************************************)
(* Every context, on any number of processors: types and the pool.         *)
(***************************************************************************)
\* rtw_init: the types hold at the start,
LEMMA SlTypedInit == Init => SlTyped
  <1> SUFFICES ASSUME Init PROVE SlTyped
    OBVIOUS
  <1>1. TyStations
    BY DEF Init, TyStations, Rcpts
  <1>2. TyBuffers
    BY SlMod DEF Init, TyBuffers, Rcpts
  <1>3. TyQueues
    BY SlMod DEF Init, TyQueues
  <1>4. TyHands
    BY SlQueues DEF Init, TyHands, NoRx, Rcpts
  <1>5. TyThread
    <2>1. << >> \in Seq(Cmds)
      OBVIOUS
    <2> QED
      BY <2>1 DEF Init, TyThread
  <1> QED
    BY <1>1, <1>2, <1>3, <1>4, <1>5 DEF SlTyped

\* A receive context goes on, or is done with its frame.
LEMMA RxGotoTyped ==
  ASSUME TyHands, NEW l \in {"idle", "update", "wmmps", "pspoll"},
         NEW f \in [sta : Rcpts, qos : BOOLEAN, ac : Acs], l # "idle" => f.sta \in Stas,
         RxGoto(l, f), UNCHANGED xmit
  PROVE  TyHands' /\ pc' = [pc EXCEPT !["rx"] = l]
  <1>1. pc' = [pc EXCEPT !["rx"] = l] /\ rx' = IF l = "idle" THEN NoRx ELSE f
    BY DEF RxGoto, Goto
  <1>2. NoRx \in [sta : Rcpts, qos : BOOLEAN, ac : Acs]
    BY SlQueues DEF NoRx, Rcpts
  <1> QED
    BY <1>1, <1>2 DEF TyHands

\* ... and every step keeps them.
LEMMA SlTypedNext == SlTyped /\ [Next]_vars => SlTyped'
  <1> SUFFICES ASSUME SlTyped, [Next]_vars PROVE SlTyped'
    OBVIOUS
  <1>T. TyStations /\ TyBuffers /\ TyQueues /\ TyHands /\ TyThread
    BY DEF SlTyped
  <1>N. /\ UNCHANGED <<kind, sleeping, sta_dz_bitmap, tim_bitmap, bcn_tim>> => TyStations'
        /\ UNCHANGED dozing => TyBuffers'
        /\ UNCHANGED <<sta_pending, tx_pending, free_xmitframe_cnt>> => TyQueues'
        /\ UNCHANGED <<xmit, pc, rx>> => TyHands'
        /\ UNCHANGED <<cmd_queue, thread, hiq>> => TyThread'
    BY <1>T DEF TyStations, TyBuffers, TyQueues, TyHands, TyThread, dozing
  <1>C. cmd_queue \in Seq(Cmds) /\ Append(cmd_queue, "ChkHiq") \in Seq(Cmds)
        /\ Append(cmd_queue, "TxBeacon") \in Seq(Cmds)
    <2>1. "ChkHiq" \in Cmds /\ "TxBeacon" \in Cmds
      BY DEF Cmds
    <2> QED
      BY <1>T, <2>1 DEF TyThread
  <1>S. \A s \in Stas : s \in Rcpts /\ s # Bmc
    BY SlQueues DEF Rcpts
  <1>1. CASE UNCHANGED vars
    BY <1>1, <1>N DEF vars, bits, beacon, dozing, queues, SlTyped
  <1>2. ASSUME NEW r \in Rcpts, NEW a \in Acs, XmitBegin(r, a) PROVE SlTyped'
    <2>1. <<r, a>> \in Servqs /\ free_xmitframe_cnt > 0
          /\ free_xmitframe_cnt' = free_xmitframe_cnt - 1
          /\ UNCHANGED <<kind, sleeping, queues, pc, rx, thread, hiq>>
      BY <1>2 DEF XmitBegin
    <2>2. TyQueues'
      BY <1>T, <2>1 DEF TyQueues, queues
    <2>3. CASE XmitBuffers(r, a) /\ UNCHANGED xmit
      <3>1. TyHands'
        BY <1>N, <2>1, <2>3
      <3>2. sleep_q' = [sleep_q EXCEPT ![r] = Append(@, a)]
            /\ sleepq_len' = [sleepq_len EXCEPT ![r] = (@ + 1) % W]
        BY <2>3 DEF XmitBuffers
      <3>3. sleep_q' \in [Rcpts -> Seq(Acs)] /\ sleep_q'[Bmc] \in Seq({"be"})
        <4>1. r = Bmc => a = "be"
          BY <2>1, SlQueues
        <4> QED
          BY <1>T, <3>2, <4>1 DEF TyBuffers, Rcpts
      <3>4. sleepq_len' \in [Rcpts -> 0 .. W - 1]
        <4>1. sleepq_len[r] + 1 \in Int
          BY <1>T, SlMod DEF TyBuffers
        <4>2. (sleepq_len[r] + 1) % W \in 0 .. W - 1
          BY <4>1, SlMod
        <4> QED
          BY <1>T, <3>2, <4>2 DEF TyBuffers
      <3>5. CASE r = Bmc
        <4>1. /\ tim_bitmap' = tim_bitmap \cup {Bmc}
              /\ sta_dz_bitmap' = sta_dz_bitmap \cup {Bmc}
              /\ UpdateBeacon(tim_bitmap', 1)
              /\ UNCHANGED sleepq_ac_len
          BY <2>3, <3>5 DEF XmitBuffers
        <4>2. cmd_queue' \in Seq(Cmds) /\ bcn_tim' = tim_bitmap'
          BY <1>C, <4>1, UpdateTyped
        <4>3. TyStations'
          BY <1>T, <2>1, <4>1, <4>2 DEF TyStations, Rcpts
        <4>4. TyBuffers'
          BY <1>T, <3>3, <3>4, <4>1 DEF TyBuffers
        <4>5. TyThread'
          BY <1>T, <2>1, <4>2 DEF TyThread
        <4> QED
          BY <2>2, <3>1, <4>3, <4>4, <4>5 DEF SlTyped
      <3>6. CASE r # Bmc
        <4>1. /\ tim_bitmap' = tim_bitmap \cup {s \in {r} : Told(s, a)}
              /\ sleepq_ac_len' = [sleepq_ac_len EXCEPT
                                     ![r] = (@ + CountWmmps(r, <<a>>)) % W]
              /\ UpdateBeacon(tim_bitmap', Updates(r, <<a>>))
              /\ UNCHANGED sta_dz_bitmap
          BY <2>3, <3>6 DEF XmitBuffers
        <4>0. r \in Stas /\ <<a>> \in Seq(Acs)
          BY <3>6 DEF Rcpts
        <4>2. cmd_queue' \in Seq(Cmds) /\ (bcn_tim' = tim_bitmap' \/ bcn_tim' = bcn_tim)
          <5>1. Updates(r, <<a>>) \in Nat
            BY <4>0, UpdatesNat
          <5> QED
            BY <1>C, <4>1, <5>1, UpdateTyped
        <4>3. TyStations'
          <5>1. {s \in {r} : Told(s, a)} \subseteq Rcpts
            OBVIOUS
          <5> QED
            BY <1>T, <2>1, <4>1, <4>2, <5>1 DEF TyStations
        <4>4. TyBuffers'
          <5>1. CountWmmps(r, <<a>>) \in Nat
            BY <4>0, OnlyAll DEF CountWmmps
          <5>2. (sleepq_ac_len[r] + CountWmmps(r, <<a>>)) % W \in 0 .. W - 1
            <6>1. sleepq_ac_len[r] + CountWmmps(r, <<a>>) \in Int
              <7>1. sleepq_ac_len[r] \in 0 .. W - 1
                BY <1>T, <4>0 DEF TyBuffers
              <7> QED
                BY <5>1, <7>1, SlMod
            <6> QED
              BY <6>1, SlMod
          <5>3. sleepq_ac_len' \in [Stas -> 0 .. W - 1]
            BY <1>T, <4>0, <4>1, <5>2 DEF TyBuffers
          <5> QED
            BY <1>T, <3>3, <3>4, <5>3 DEF TyBuffers
        <4>5. TyThread'
          BY <1>T, <2>1, <4>2 DEF TyThread
        <4> QED
          BY <2>2, <3>1, <4>3, <4>4, <4>5 DEF SlTyped
      <3> QED
        BY <3>5, <3>6
    <2>4. CASE xmit' = [to |-> r, ac |-> a] /\ UNCHANGED <<bits, beacon, dozing>>
      <3>1. TyHands'
        BY <1>T, <2>1, <2>4 DEF TyHands
      <3> QED
        BY <1>N, <2>1, <2>2, <2>4, <3>1 DEF bits, beacon, dozing, SlTyped
    <2> QED
      BY <1>2, <2>3, <2>4 DEF XmitBegin
  <1>3. CASE XmitDirect
    <2>1. /\ xmit' = NoXmit /\ free_xmitframe_cnt' = free_xmitframe_cnt + 1
          /\ UNCHANGED <<kind, sleeping, bits, beacon, dozing, queues, pc, rx, thread, hiq>>
      BY <1>3 DEF XmitDirect
    <2>2. TyQueues' /\ TyHands'
      BY <1>T, <2>1 DEF TyQueues, queues, TyHands
    <2> QED
      BY <1>N, <2>1, <2>2 DEF bits, beacon, dozing, SlTyped
  <1>4. CASE XmitEnqueue
    <2>1. /\ xmit # NoXmit /\ xmit' = NoXmit /\ Classify(xmit.to, <<xmit.ac>>, "plain")
          /\ UNCHANGED <<kind, sleeping, bits, beacon, dozing, free_xmitframe_cnt, pc, rx,
                         thread, hiq>>
      BY <1>4 DEF XmitEnqueue
    <2>2. <<xmit.to, xmit.ac>> \in Servqs /\ xmit.to \in Rcpts /\ xmit.ac \in Acs
      BY <1>T, <2>1 DEF TyHands
    <2>3. TyQueues'
      <3>1. /\ <<xmit.ac>> \in Seq(Acs) /\ "plain" \in Passes
            /\ xmit.to = Bmc => <<xmit.ac>> \in Seq({"be"})
        <4>1. xmit.to = Bmc => xmit.ac = "be"
          BY <2>2, SlQueues
        <4> QED
          BY <2>2, <4>1 DEF Passes
      <3>2. sta_pending' \in [Servqs -> Seq(Passes)] /\ tx_pending' \subseteq Servqs
        BY <1>T, <2>1, <2>2, <3>1, Classified
      <3> QED
        BY <1>T, <2>1, <3>2 DEF TyQueues
    <2>4. TyHands'
      BY <1>T, <2>1 DEF TyHands
    <2> QED
      BY <1>N, <2>1, <2>3, <2>4 DEF bits, beacon, dozing, SlTyped
  <1>5. ASSUME NEW v \in Servqs, XmitTasklet(v) PROVE SlTyped'
    <2>1. /\ sta_pending[v] # << >> /\ sta_pending' = [sta_pending EXCEPT ![v] = Tail(@)]
          /\ tx_pending' \subseteq tx_pending
          /\ free_xmitframe_cnt' = free_xmitframe_cnt + 1
          /\ hiq' \in {hiq, TRUE} /\ cmd_queue' \in {cmd_queue, Append(cmd_queue, "ChkHiq")}
          /\ UNCHANGED <<kind, sleeping, bits, bcn_tim, dozing, xmit, pc, rx, thread>>
      BY <1>5 DEF XmitTasklet
    <2>2. TyQueues'
      BY <1>T, <2>1 DEF TyQueues
    <2>3. TyThread'
      BY <1>T, <1>C, <2>1 DEF TyThread
    <2> QED
      BY <1>N, <2>1, <2>2, <2>3 DEF bits, dozing, SlTyped
  <1>6. ASSUME NEW s \in Stas, stop_sta_xmit(s)
        PROVE  /\ TyBuffers'
               /\ sta_pending' \in [Servqs -> Seq(Passes)] /\ tx_pending' \subseteq Servqs
               /\ sleeping' \subseteq Stas
               /\ sta_dz_bitmap' \subseteq Rcpts /\ tim_bitmap' \subseteq Rcpts
               /\ bcn_tim' \subseteq Rcpts /\ cmd_queue' \in Seq(Cmds)
    <2> DEFINE q == Parked(s)
               g == Parked(Bmc)
    <2>0. s \in Rcpts /\ Bmc \in Rcpts /\ s # Bmc
      BY SlQueues DEF Rcpts
    <2>1. StopMoves(s, q, g)
      BY <1>6, StopEffect
    <2>2. /\ sleeping' = sleeping \cup {s}
          /\ sta_dz_bitmap' = sta_dz_bitmap \cup {s} \cup {r \in {Bmc} : g # << >>}
          /\ tim_bitmap' = tim_bitmap
                \cup {t \in {s} : \E i \in DOMAIN q : Told(s, q[i])}
                \cup {r \in {Bmc} : g # << >>}
          /\ sleepq_len' = [sleepq_len EXCEPT ![s] = (@ + Len(q)) % W,
                                              ![Bmc] = (@ + Len(g)) % W]
          /\ sleepq_ac_len' = [sleepq_ac_len EXCEPT ![s] = (@ + CountWmmps(s, q)) % W]
          /\ UpdateBeacon(tim_bitmap', Updates(s, q) + Len(g))
      BY <1>6, Zenon DEF stop_sta_xmit
    <2>3. q \in Seq(Acs) /\ g \in Seq({"be"}) /\ Len(q) \in Nat /\ Len(g) \in Nat
      BY <2>1 DEF StopMoves
    <2>4. CountWmmps(s, q) \in Nat /\ Updates(s, q) \in Nat
      BY <2>3, OnlyAll, UpdatesNat DEF CountWmmps
    <2>5. tx_pending' \subseteq Servqs /\ sta_pending' \in [Servqs -> Seq(Passes)]
      BY <1>T, <2>1 DEF StopMoves, TyQueues
    <2>6. {t \in {s} : \E i \in DOMAIN q : Told(s, q[i])} \subseteq Rcpts
          /\ {r \in {Bmc} : g # << >>} \subseteq Rcpts
      BY <2>0
    <2>7. sleep_q' \in [Rcpts -> Seq(Acs)] /\ sleep_q'[Bmc] \in Seq({"be"})
      BY <2>1 DEF StopMoves
    <2> HIDE DEF q, g
    <2>8. sleepq_len' \in [Rcpts -> 0 .. W - 1]
      <3>1. sleepq_len \in [Rcpts -> 0 .. W - 1] /\ sleepq_len[s] \in Int /\ sleepq_len[Bmc] \in Int
        BY <1>T, <2>0, SlMod DEF TyBuffers
      <3> DEFINE a == (sleepq_len[s] + Len(q)) % W
                 b == (sleepq_len[Bmc] + Len(g)) % W
      <3>4. Len(q) \in Int /\ Len(g) \in Int
        BY <2>3
      <3>5. /\ (sleepq_len[s] + Len(q)) % W \in 0 .. W - 1
            /\ (sleepq_len[Bmc] + Len(g)) % W \in 0 .. W - 1
        BY <3>1, <3>4, SlMod
      <3>2. a \in 0 .. W - 1 /\ b \in 0 .. W - 1
        BY <3>5
      <3>3. sleepq_len' = [sleepq_len EXCEPT ![s] = a, ![Bmc] = b]
        BY <2>0, <2>2, <3>1
      <3> HIDE DEF a, b
      <3> QED
        BY <3>1, <3>2, <3>3
    <2>9. sleepq_ac_len' \in [Stas -> 0 .. W - 1]
      <3>1. sleepq_ac_len \in [Stas -> 0 .. W - 1]
        BY <1>T DEF TyBuffers
      <3>2. sleepq_ac_len[s] \in Int
        BY <3>1, SlMod
      <3>3. (sleepq_ac_len[s] + CountWmmps(s, q)) % W \in 0 .. W - 1
        BY <2>4, <3>2, SlMod
      <3> QED
        BY <2>2, <3>1, <3>3
    <2>10. sta_dz_bitmap' \subseteq Rcpts /\ tim_bitmap' \subseteq Rcpts /\ sleeping' \subseteq Stas
      BY <1>T, <2>0, <2>2, <2>6 DEF TyStations
    <2>11. cmd_queue' \in Seq(Cmds) /\ bcn_tim' \subseteq Rcpts
      <3>1. Updates(s, q) + Len(g) \in Nat
        BY <2>3, <2>4
      <3>2. cmd_queue' \in Seq(Cmds) /\ bcn_tim' \in {tim_bitmap', bcn_tim}
        BY <1>C, <2>2, <3>1, UpdateTyped
      <3> QED
        BY <1>T, <2>10, <3>2 DEF TyStations
    <2> QED
      BY <2>5, <2>7, <2>8, <2>9, <2>10, <2>11 DEF TyBuffers
  <1>7. ASSUME NEW s \in Stas, NEW c \in {"rx", "timer"}, NEW l \in {"idle", "wmmps"},
               wakeup_sta_to_xmit(c, s, l)
        PROVE  /\ TyBuffers'
               /\ sta_pending' \in [Servqs -> Seq(Passes)] /\ tx_pending' \subseteq Servqs
               /\ sleeping' \subseteq Stas
               /\ sta_dz_bitmap' \subseteq Rcpts /\ tim_bitmap' \subseteq Rcpts
               /\ pc' \in {[pc EXCEPT ![c] = l], [pc EXCEPT ![c] = "update"]}
    <2> DEFINE q == sleep_q[s]
               g == GroupOf
               len == (sleepq_len[s] - Len(q)) % W
               glen == (sleepq_len[Bmc] - Len(g)) % W
    <2>0. s \in Rcpts /\ Bmc \in Rcpts /\ s # Bmc
      BY SlQueues DEF Rcpts
    <2>1. WakeMoves(s, g)
      BY <1>7, WakeEffect
    <2>2. /\ sleepq_len' = [sleepq_len EXCEPT ![s] = len, ![Bmc] = glen]
          /\ sleepq_ac_len' = [sleepq_ac_len EXCEPT ![s] = (@ - CountWmmps(s, q)) % W]
      BY <1>7, Zenon DEF wakeup_sta_to_xmit, GroupOf
    <2>3. /\ tim_bitmap' \subseteq tim_bitmap /\ sta_dz_bitmap' \subseteq sta_dz_bitmap
          /\ sleeping' \subseteq sleeping
          /\ pc' \in {[pc EXCEPT ![c] = l], [pc EXCEPT ![c] = "update"]}
      BY <1>7 DEF wakeup_sta_to_xmit, Goto
    <2>4. q \in Seq(Acs) /\ g \in Seq(Acs)
      BY <1>T, <2>0, EmptySeq DEF TyBuffers, GroupOf
    <2>5. sleep_q'[Bmc] \in Seq({"be"}) /\ sleep_q' \in [Rcpts -> Seq(Acs)]
      BY <1>T, <2>1, EmptySeq DEF TyBuffers, WakeMoves
    <2>6. CountWmmps(s, q) \in Nat /\ Len(q) \in Nat /\ Len(g) \in Nat
      BY <2>4, OnlyAll DEF CountWmmps
    <2> HIDE DEF q, g
    <2>7. len \in 0 .. W - 1 /\ glen \in 0 .. W - 1
      <3>1. sleepq_len[s] \in Int /\ sleepq_len[Bmc] \in Int
        BY <1>T, <2>0, SlMod DEF TyBuffers
      <3>2. Len(q) \in Int /\ Len(g) \in Int
        BY <2>6
      <3>3. /\ (sleepq_len[s] - Len(q)) % W \in 0 .. W - 1
            /\ (sleepq_len[Bmc] - Len(g)) % W \in 0 .. W - 1
        BY <3>1, <3>2, SlMod
      <3> QED
        BY <3>3
    <2> HIDE DEF len, glen
    <2>8. sleepq_len' \in [Rcpts -> 0 .. W - 1]
      BY <1>T, <2>2, <2>7 DEF TyBuffers
    <2>9. sleepq_ac_len' \in [Stas -> 0 .. W - 1]
      <3>1. sleepq_ac_len \in [Stas -> 0 .. W - 1]
        BY <1>T DEF TyBuffers
      <3>2. sleepq_ac_len[s] \in Int
        BY <3>1, SlMod
      <3> DEFINE n == CountWmmps(s, q)
      <3>4. n \in Int
        BY <2>6
      <3> HIDE DEF n
      <3>5. (sleepq_ac_len[s] - n) % W \in 0 .. W - 1
        BY <3>2, <3>4, SlMod
      <3>3. (sleepq_ac_len[s] - CountWmmps(s, q)) % W \in 0 .. W - 1
        BY <3>5 DEF n
      <3> QED
        BY <2>2, <3>1, <3>3
    <2>10. sta_dz_bitmap' \subseteq Rcpts /\ tim_bitmap' \subseteq Rcpts /\ sleeping' \subseteq Stas
      BY <1>T, <2>3 DEF TyStations
    <2>11. sta_pending' \in [Servqs -> Seq(Passes)] /\ tx_pending' \subseteq Servqs
      BY <2>1 DEF WakeMoves
    <2> QED
      BY <2>3, <2>5, <2>8, <2>9, <2>10, <2>11 DEF TyBuffers
  <1>8. ASSUME NEW s \in Stas, NEW pwr \in BOOLEAN, NEW qos \in BOOLEAN, NEW a \in Acs,
               RxData(s, pwr, qos, a)
        PROVE  SlTyped'
    <2> DEFINE f == [sta |-> s, qos |-> qos, ac |-> a]
    <2>1. /\ pc["rx"] = "idle"
          /\ rx' = IF pc'["rx"] = "idle" THEN NoRx ELSE f
          /\ UNCHANGED <<kind, free_xmitframe_cnt, xmit, thread, hiq>>
      BY <1>8 DEF RxData
    <2>2. f \in [sta : Rcpts, qos : BOOLEAN, ac : Acs] /\ f.sta \in Stas
          /\ NoRx \in [sta : Rcpts, qos : BOOLEAN, ac : Acs] /\ Next1(qos) \in {"idle", "wmmps"}
      BY SlQueues DEF NoRx, Rcpts, Next1
    <2>3. ASSUME NEW l \in {"idle", "wmmps", "update"}, pc' = [pc EXCEPT !["rx"] = l]
          PROVE  TyHands'
      <3> HIDE DEF f
      <3>1. pc' \in [{"rx", "timer"} -> {"idle", "update", "wmmps", "pspoll"}] /\ pc'["rx"] = l
        BY <1>T, <2>3 DEF TyHands
      <3>2. rx' \in [sta : Rcpts, qos : BOOLEAN, ac : Acs]
        BY <2>1, <2>2
      <3>3. pc'["rx"] # "idle" => rx'.sta \in Stas
        BY <2>1, <2>2
      <3> QED
        BY <1>T, <2>1, <3>1, <3>2, <3>3 DEF TyHands
    <2>4. CASE stop_sta_xmit(s) /\ Goto("rx", Next1(qos))
      <3>1. TyHands'
        BY <2>2, <2>3, <2>4 DEF Goto
      <3> QED
        BY <1>T, <1>6, <2>1, <2>4, <3>1
           DEF SlTyped, TyStations, TyQueues, TyThread
    <2>5. CASE wakeup_sta_to_xmit("rx", s, Next1(qos)) /\ UNCHANGED beacon
      <3>0. /\ TyBuffers'
            /\ sta_pending' \in [Servqs -> Seq(Passes)] /\ tx_pending' \subseteq Servqs
            /\ sleeping' \subseteq Stas
            /\ sta_dz_bitmap' \subseteq Rcpts /\ tim_bitmap' \subseteq Rcpts
            /\ pc' \in {[pc EXCEPT !["rx"] = Next1(qos)], [pc EXCEPT !["rx"] = "update"]}
        BY <1>7, <2>2, <2>5
      <3>1. TyHands'
        BY <2>2, <2>3, <3>0
      <3> QED
        BY <1>T, <2>1, <2>5, <3>0, <3>1
           DEF SlTyped, TyStations, TyQueues, TyThread, beacon
    <2>6. CASE Goto("rx", "wmmps") /\ UNCHANGED <<sleeping, bits, beacon, dozing, queues>>
      <3>1. TyHands'
        BY <2>3, <2>6 DEF Goto
      <3> QED
        BY <1>N, <2>1, <2>6, <3>1 DEF SlTyped, bits, beacon, queues
    <2> QED
      BY <1>8, <2>4, <2>5, <2>6 DEF RxData
  <1>9. ASSUME NEW s \in Stas, expire_timeout_chk(s) PROVE SlTyped'
    <2>1. /\ wakeup_sta_to_xmit("timer", s, "idle")
          /\ UNCHANGED <<kind, beacon, free_xmitframe_cnt, xmit, rx, thread, hiq>>
      BY <1>9 DEF expire_timeout_chk
    <2>2. /\ TyBuffers'
          /\ sta_pending' \in [Servqs -> Seq(Passes)] /\ tx_pending' \subseteq Servqs
          /\ sleeping' \subseteq Stas
          /\ sta_dz_bitmap' \subseteq Rcpts /\ tim_bitmap' \subseteq Rcpts
          /\ pc' \in {[pc EXCEPT !["timer"] = "idle"], [pc EXCEPT !["timer"] = "update"]}
      BY <1>7, <2>1
    <2>3. TyHands'
      BY <1>T, <2>1, <2>2 DEF TyHands
    <2> QED
      BY <1>T, <2>1, <2>2, <2>3 DEF SlTyped, TyStations, TyQueues, TyThread, beacon
  <1>10. ASSUME NEW c \in {"rx", "timer"}, AfterWakeup(c) PROVE SlTyped'
    <2>1. /\ UpdateBeacon(tim_bitmap, 1) /\ pc[c] = "update"
          /\ UNCHANGED <<kind, sleeping, bits, dozing, queues, free_xmitframe_cnt, xmit,
                         thread, hiq>>
      BY <1>10 DEF AfterWakeup
    <2>2. cmd_queue' \in Seq(Cmds) /\ bcn_tim' = tim_bitmap
      BY <1>C, <2>1, UpdateTyped
    <2>3. TyHands'
      <3>1. CASE c = "rx" /\ RxGoto(Next1(rx.qos), rx)
        <4>1. Next1(rx.qos) \in {"idle", "update", "wmmps", "pspoll"} /\ rx.sta \in Stas
          BY <1>T, <2>1, <3>1 DEF Next1, TyHands
        <4>2. rx \in [sta : Rcpts, qos : BOOLEAN, ac : Acs]
          BY <1>T DEF TyHands
        <4> QED
          BY <1>T, <2>1, <3>1, <4>1, <4>2, RxGotoTyped
      <3>2. CASE c # "rx" /\ Goto(c, "idle") /\ UNCHANGED rx
        BY <1>T, <2>1, <3>2 DEF TyHands, Goto
      <3> QED
        BY <1>10, <3>1, <3>2 DEF AfterWakeup
    <2> QED
      BY <1>T, <1>N, <2>1, <2>2, <2>3 DEF SlTyped, TyStations, TyThread, bits, queues
  <1>11. CASE process_wmmps_data
    <2> DEFINE s == rx.sta
    <2>1. /\ pc["rx"] = "wmmps" /\ RxGoto("idle", rx)
          /\ UNCHANGED <<kind, sleeping, sta_dz_bitmap, free_xmitframe_cnt, xmit, thread, hiq>>
      BY <1>11, Zenon DEF process_wmmps_data
    <2>2. \/ xmit_delivery_enabled_frames(s)
          \/ UNCHANGED <<tim_bitmap, beacon, dozing, queues>>
      BY <1>11, Zenon DEF process_wmmps_data
    <2>3. TyHands' /\ s \in Stas
      <3>1. rx \in [sta : Rcpts, qos : BOOLEAN, ac : Acs] /\ rx.sta \in Stas
        BY <1>T, <2>1 DEF TyHands
      <3> QED
        BY <1>T, <2>1, <3>1, RxGotoTyped
    <2> HIDE DEF s
    <2>4. CASE xmit_delivery_enabled_frames(s)
      <3> DEFINE n == Len(Only(sleep_q[s], Delivery(s)))
                 told == ~ has_legacy_ac(s) /\ sleepq_ac_len[s] \in 1 .. n
      <3>1. /\ sleepq_len' = [sleepq_len EXCEPT ![s] = (@ - n) % W]
            /\ sleepq_ac_len' = [sleepq_ac_len EXCEPT ![s] = (@ - n) % W]
            /\ tim_bitmap' = IF told THEN tim_bitmap \ {s} ELSE tim_bitmap
            /\ UpdateBeacon(tim_bitmap', IF told THEN 1 ELSE 0)
        BY <2>4, Zenon DEF xmit_delivery_enabled_frames
      <3>2. /\ sleep_q' \in [Rcpts -> Seq(Acs)] /\ sleep_q'[Bmc] \in Seq({"be"})
            /\ sta_pending' \in [Servqs -> Seq(Passes)] /\ tx_pending' \subseteq Servqs
        BY <2>3, <2>4, DeliverEffect
      <3>3. n \in Nat
        BY <2>3, Delivers
      <3> HIDE DEF n, told
      <3>4. s \in Rcpts
        BY <2>3 DEF Rcpts
      <3>5. sleepq_len' \in [Rcpts -> 0 .. W - 1] /\ sleepq_ac_len' \in [Stas -> 0 .. W - 1]
        <4>1. /\ sleepq_len \in [Rcpts -> 0 .. W - 1] /\ sleepq_ac_len \in [Stas -> 0 .. W - 1]
          BY <1>T DEF TyBuffers
        <4>2. sleepq_len[s] \in Int /\ sleepq_ac_len[s] \in Int /\ n \in Int
          BY <2>3, <3>3, <3>4, <4>1, SlMod
        <4>3. (sleepq_len[s] - n) % W \in 0 .. W - 1 /\ (sleepq_ac_len[s] - n) % W \in 0 .. W - 1
          BY <4>2, SlMod
        <4> QED
          BY <3>1, <4>1, <4>3
      <3>6. TyBuffers'
        BY <3>2, <3>5 DEF TyBuffers
      <3>7. cmd_queue' \in Seq(Cmds) /\ bcn_tim' \in {tim_bitmap', bcn_tim}
        <4>1. (IF told THEN 1 ELSE 0) \in Nat
          OBVIOUS
        <4> QED
          BY <1>C, <3>1, <4>1, UpdateTyped
      <3> QED
        BY <1>T, <2>1, <2>3, <3>1, <3>2, <3>6, <3>7
           DEF SlTyped, TyStations, TyQueues, TyThread
    <2>5. CASE UNCHANGED <<tim_bitmap, beacon, dozing, queues>>
      BY <1>N, <2>1, <2>3, <2>5 DEF SlTyped, beacon, queues
    <2> QED
      BY <2>2, <2>4, <2>5
  <1>12. ASSUME NEW s \in Stas, PsPoll(s) PROVE SlTyped'
    <2>0. s \in Rcpts
      BY DEF Rcpts
    <2>1. UNCHANGED <<kind, sleeping, sta_dz_bitmap, free_xmitframe_cnt, xmit, thread, hiq>>
      BY <1>12 DEF PsPoll
    <2>2. CASE PsPollFrame(s)
      <3>1. /\ sleep_q' \in [Rcpts -> Seq(Acs)] /\ sleep_q'[Bmc] \in Seq({"be"})
            /\ sta_pending' \in [Servqs -> Seq(Passes)] /\ tx_pending' \subseteq Servqs
        BY <2>2, PollEffect
      <3>2. /\ sleepq_len' = [sleepq_len EXCEPT ![s] = (@ - 1) % W]
            /\ tim_bitmap' \subseteq tim_bitmap
            /\ UpdateBeacon(tim_bitmap', IF sleepq_len'[s] = 0 THEN 1 ELSE 0)
            /\ UNCHANGED <<sleepq_ac_len, pc, rx>>
        BY <2>2 DEF PsPollFrame, PsPollTim
      <3>3. TyBuffers'
        <4>1. sleepq_len[s] \in Int /\ 1 \in Int
          BY <1>T, <2>0, SlMod DEF TyBuffers
        <4>2. (sleepq_len[s] - 1) % W \in 0 .. W - 1
          BY <4>1, SlMod
        <4>3. sleepq_len' \in [Rcpts -> 0 .. W - 1]
          BY <1>T, <2>0, <3>2, <4>2 DEF TyBuffers
        <4> QED
          BY <1>T, <3>1, <3>2, <4>3 DEF TyBuffers
      <3>4. cmd_queue' \in Seq(Cmds) /\ bcn_tim' \in {tim_bitmap', bcn_tim}
        <4>1. (IF sleepq_len'[s] = 0 THEN 1 ELSE 0) \in Nat
          OBVIOUS
        <4> QED
          BY <1>C, <3>2, <4>1, UpdateTyped
      <3> QED
        BY <1>T, <1>N, <2>1, <3>1, <3>2, <3>3, <3>4
           DEF SlTyped, TyStations, TyQueues, TyThread
    <2>3. CASE /\ RxGoto("pspoll", [sta |-> s, qos |-> FALSE, ac |-> "be"])
               /\ UNCHANGED <<tim_bitmap, beacon, dozing, queues>>
      <3> DEFINE f == [sta |-> s, qos |-> FALSE, ac |-> "be"]
      <3>1. f \in [sta : Rcpts, qos : BOOLEAN, ac : Acs] /\ f.sta \in Stas
        BY <2>0, SlQueues
      <3>2. RxGoto("pspoll", f)
        BY <2>3
      <3> HIDE DEF f
      <3>3. TyHands'
        BY <1>T, <2>1, <3>1, <3>2, RxGotoTyped
      <3> QED
        BY <1>N, <2>1, <2>3, <3>3 DEF SlTyped, beacon, queues
    <2> QED
      BY <1>12, <2>2, <2>3 DEF PsPoll
  <1>13. CASE PsPollNone
    <2> DEFINE s == rx.sta
               told == s \in tim_bitmap
    <2>1. /\ pc["rx"] = "pspoll" /\ RxGoto("idle", rx)
          /\ sleepq_len' = IF told THEN [sleepq_len EXCEPT ![s] = 0] ELSE sleepq_len
          /\ tim_bitmap' = tim_bitmap \ {s}
          /\ UpdateBeacon(tim_bitmap', IF told THEN 1 ELSE 0)
          /\ UNCHANGED <<kind, sleeping, sta_dz_bitmap, sleep_q, sleepq_ac_len, queues,
                         free_xmitframe_cnt, xmit, thread, hiq>>
      BY <1>13, Zenon DEF PsPollNone
    <2>2. TyHands'
      <3>1. rx \in [sta : Rcpts, qos : BOOLEAN, ac : Acs] /\ rx.sta \in Stas
        BY <1>T, <2>1 DEF TyHands
      <3> QED
        BY <1>T, <2>1, <3>1, RxGotoTyped
    <2>3. cmd_queue' \in Seq(Cmds) /\ bcn_tim' \in {tim_bitmap', bcn_tim}
      <3>1. (IF told THEN 1 ELSE 0) \in Nat
        OBVIOUS
      <3> HIDE DEF told
      <3> QED
        BY <1>C, <2>1, <3>1, UpdateTyped
    <2>4. TyBuffers'
      <3>1. 0 \in 0 .. W - 1
        BY SlMod
      <3>2. sleepq_len' \in [Rcpts -> 0 .. W - 1]
        BY <1>T, <2>1, <3>1 DEF TyBuffers
      <3> QED
        BY <1>T, <2>1, <3>2 DEF TyBuffers
    <2> QED
      BY <1>T, <1>N, <2>1, <2>2, <2>3, <2>4 DEF SlTyped, TyStations, TyThread, queues
  <1>14. CASE TxGroup
    <2>1. /\ sleep_q' \in [Rcpts -> Seq(Acs)] /\ sleep_q'[Bmc] = << >>
          /\ sta_pending' \in [Servqs -> Seq(Passes)] /\ tx_pending' \subseteq Servqs
      BY <1>14, GroupEffect
    <2>2. /\ thread' = "idle"
          /\ sleepq_len' = [sleepq_len EXCEPT ![Bmc] = (@ - Len(sleep_q[Bmc])) % W]
          /\ UNCHANGED <<kind, sleeping, bits, beacon, sleepq_ac_len, free_xmitframe_cnt, xmit,
                         pc, rx, hiq>>
      BY <1>14 DEF TxGroup
    <2>3. TyBuffers'
      <3>1. Bmc \in Rcpts
        BY DEF Rcpts
      <3>2. sleepq_len[Bmc] \in Int /\ Len(sleep_q[Bmc]) \in Int
        BY <1>T, <3>1, SlMod DEF TyBuffers
      <3>3. (sleepq_len[Bmc] - Len(sleep_q[Bmc])) % W \in 0 .. W - 1
        BY <3>2, SlMod
      <3>4. sleepq_len' \in [Rcpts -> 0 .. W - 1]
        BY <1>T, <2>2, <3>1, <3>3 DEF TyBuffers
      <3>5. sleep_q'[Bmc] \in Seq({"be"})
        BY <2>1
      <3> QED
        BY <1>T, <2>1, <2>2, <3>4, <3>5 DEF TyBuffers
    <2> QED
      BY <1>T, <1>N, <2>1, <2>2, <2>3 DEF SlTyped, TyQueues, TyThread, bits, beacon
  <1>15. CASE TxBeacon \/ ChkHiq
    <2>1. /\ cmd_queue' = Tail(cmd_queue) /\ cmd_queue # << >>
          /\ thread' \in {thread, "bmc_wait", "hiq_wait", "idle"}
          /\ UNCHANGED <<kind, sleeping, bits, bcn_tim, dozing, queues, free_xmitframe_cnt,
                         xmit, pc, rx, hiq>>
      BY <1>15 DEF TxBeacon, ChkHiq, Serves
    <2>2. cmd_queue' \in Seq(Cmds)
      BY <1>C, <2>1
    <2> QED
      BY <1>T, <1>N, <2>1, <2>2 DEF SlTyped, TyThread, bits, queues
  <1>16. CASE ChkHiqEmpty
    <2>1. /\ thread' = "idle"
          /\ tim_bitmap' = tim_bitmap \ {Bmc} /\ sta_dz_bitmap' = sta_dz_bitmap \ {Bmc}
          /\ UpdateBeacon(tim_bitmap', 1)
          /\ UNCHANGED <<kind, sleeping, dozing, queues, free_xmitframe_cnt, xmit, pc, rx, hiq>>
      BY <1>16 DEF ChkHiqEmpty
    <2>2. cmd_queue' \in Seq(Cmds) /\ bcn_tim' = tim_bitmap'
      BY <1>C, <2>1, UpdateTyped
    <2> QED
      BY <1>T, <1>N, <2>1, <2>2 DEF SlTyped, TyStations, TyThread, queues
  <1>17. CASE ChkHiqAgain
    <2>1. /\ thread' = "idle" /\ cmd_queue' = Append(cmd_queue, "ChkHiq")
          /\ UNCHANGED <<kind, sleeping, bits, bcn_tim, dozing, queues, free_xmitframe_cnt,
                         xmit, pc, rx, hiq>>
      BY <1>17 DEF ChkHiqAgain
    <2> QED
      BY <1>T, <1>N, <1>C, <2>1 DEF SlTyped, TyThread, bits, queues
  <1>18. CASE HiqDrains
    <2>1. /\ hiq' = FALSE
          /\ UNCHANGED <<kind, sleeping, bits, beacon, dozing, queues, free_xmitframe_cnt, xmit,
                         pc, rx, thread>>
      BY <1>18 DEF HiqDrains
    <2> QED
      BY <1>T, <1>N, <2>1 DEF SlTyped, TyThread, bits, beacon, queues
  <1>19. ASSUME NEW s \in Stas, NEW k \in Kinds, Associate(s, k) PROVE SlTyped'
    <2>1. /\ kind' = [kind EXCEPT ![s] = k] /\ sleeping' = sleeping \ {s}
          /\ UNCHANGED bcn_tim
          /\ cmd_queue' \in {cmd_queue, Append(cmd_queue, "TxBeacon")}
          /\ UNCHANGED <<bits, dozing, queues, free_xmitframe_cnt, xmit, pc, rx, thread, hiq>>
      BY <1>19 DEF Associate, CapabilityUpdate
    <2>2. TyStations' /\ TyThread'
      BY <1>T, <1>C, <2>1 DEF TyStations, TyThread, bits
    <2> QED
      BY <1>N, <2>1, <2>2 DEF SlTyped, queues
  <1>20. ASSUME NEW s \in Stas, rtw_free_stainfo(s) PROVE SlTyped'
    <2>1. /\ kind' = [kind EXCEPT ![s] = "none"]
          /\ free_xmitframe_cnt' = free_xmitframe_cnt + Waiting(s)
          /\ sleep_q' = [sleep_q EXCEPT ![s] = << >>]
          /\ sleepq_len' = [sleepq_len EXCEPT ![s] = 0]
          /\ sleepq_ac_len' = [sleepq_ac_len EXCEPT ![s] = 0]
          /\ sta_pending' = [v \in Servqs |-> IF v[1] = s THEN << >> ELSE sta_pending[v]]
          /\ tx_pending' \subseteq tx_pending
          /\ tim_bitmap' \subseteq tim_bitmap /\ sta_dz_bitmap' \subseteq sta_dz_bitmap
          /\ UNCHANGED bcn_tim
          /\ cmd_queue' \in {cmd_queue, Append(cmd_queue, "TxBeacon")}
          /\ UNCHANGED <<sleeping, xmit, pc, rx, thread, hiq>>
      BY <1>20 DEF rtw_free_stainfo, CapabilityUpdate
    <2>2. TyStations' /\ TyThread'
      BY <1>T, <1>C, <2>1 DEF TyStations, TyThread
    <2>3. TyBuffers'
      <3>1. 0 \in 0 .. W - 1 /\ s \in Rcpts /\ s # Bmc /\ << >> \in Seq(Acs)
        BY SlMod, SlQueues DEF Rcpts
      <3>2. sleep_q' \in [Rcpts -> Seq(Acs)] /\ sleep_q'[Bmc] = sleep_q[Bmc]
        BY <1>T, <2>1, <3>1 DEF TyBuffers, Rcpts
      <3> QED
        BY <1>T, <2>1, <3>1, <3>2 DEF TyBuffers
    <2>4. TyQueues'
      <3>1. Waiting(s) \in Nat
        BY WaitingFrames
      <3>2. << >> \in Seq(Passes)
        OBVIOUS
      <3>3. sta_pending' \in [Servqs -> Seq(Passes)]
        BY <1>T, <2>1, <3>2 DEF TyQueues
      <3> QED
        BY <1>T, <2>1, <3>1, <3>3 DEF TyQueues
    <2> QED
      BY <1>N, <2>1, <2>2, <2>3, <2>4 DEF SlTyped
  <1> QED
    BY <1>1, <1>2, <1>3, <1>4, <1>5, <1>8, <1>9, <1>10, <1>11, <1>12, <1>13, <1>14, <1>15,
       <1>16, <1>17, <1>18, <1>19, <1>20 DEF Next

\* The whole pool is free at the start,
LEMMA PoolInit == Init => PoolConserved
  <1> SUFFICES ASSUME Init PROVE PoolConserved
    OBVIOUS
  <1>1. Total(sleep_q, Rcpts) = 0
    <2>1. \A r \in Rcpts : sleep_q[r] = << >>
      BY DEF Init
    <2> QED
      BY <2>1, SlFinite, TotalNone
  <1>2. Total(sta_pending, Servqs) = 0
    <2>1. \A v \in Servqs : sta_pending[v] = << >>
      BY DEF Init
    <2> QED
      BY <2>1, SlFinite, TotalNone
  <1>3. free_xmitframe_cnt = NR_XMITFRAME /\ xmit = NoXmit /\ NR_XMITFRAME \in Nat
    BY SlMod DEF Init
  <1> QED
    BY <1>1, <1>2, <1>3 DEF PoolConserved

\* The sums of a state with the types.
LEMMA TotalsNat ==
  ASSUME SlTyped
  PROVE  Total(sleep_q, Rcpts) \in Nat /\ Total(sta_pending, Servqs) \in Nat
  <1>1. Bmc \in Rcpts /\ <<Bmc, "be">> \in Servqs
    BY SlQueues DEF Rcpts
  <1>2. sleep_q \in [Rcpts -> Seq(Acs)] /\ sta_pending \in [Servqs -> Seq(Passes)]
    BY DEF SlTyped, TyBuffers, TyQueues
  <1>3. Total(sleep_q, Rcpts) \in Nat
    BY <1>1, <1>2, SlFinite, TotalBounds
  <1>4. Total(sta_pending, Servqs) \in Nat
    BY <1>1, <1>2, SlFinite, TotalBounds
  <1> QED
    BY <1>3, <1>4

\* ... and every step moves frames without losing or doubling one.
LEMMA PoolNext == SlTyped /\ PoolConserved /\ [Next]_vars => PoolConserved'
  <1> SUFFICES ASSUME SlTyped, PoolConserved, [Next]_vars PROVE PoolConserved'
    OBVIOUS
  <1> DEFINE b0 == Total(sleep_q, Rcpts)
             b1 == Total(sleep_q', Rcpts)
             p0 == Total(sta_pending, Servqs)
             p1 == Total(sta_pending', Servqs)
             x0 == IF xmit = NoXmit THEN 0 ELSE 1
             x1 == IF xmit' = NoXmit THEN 0 ELSE 1
             f0 == free_xmitframe_cnt
             f1 == free_xmitframe_cnt'
  <1>T. /\ sleep_q \in [Rcpts -> Seq(Acs)] /\ sta_pending \in [Servqs -> Seq(Passes)]
        /\ f0 \in Nat /\ TyQueues /\ TyHands /\ TyBuffers
    BY DEF SlTyped, TyBuffers, TyQueues
  <1>P. b0 \in Nat /\ p0 \in Nat /\ f0 \in Nat /\ x0 \in {0, 1} /\ f0 + b0 + p0 + x0 = NR_XMITFRAME
    BY <1>T, TotalsNat DEF PoolConserved
  <1>G. f1 + b1 + p1 + x1 = NR_XMITFRAME => PoolConserved'
    BY DEF PoolConserved
  <1>N. /\ UNCHANGED dozing => b1 = b0
        /\ UNCHANGED queues => p1 = p0
        /\ UNCHANGED xmit => x1 = x0
    BY DEF dozing, queues
  <1>K. ASSUME WaitingKept, UNCHANGED <<free_xmitframe_cnt, xmit>> PROVE PoolConserved'
    <2>1. b1 \in Nat /\ p1 \in Nat /\ b1 + p1 = b0 + p0 /\ f1 = f0 /\ x1 = x0
      BY <1>K, <1>N DEF WaitingKept
    <2> HIDE DEF b0, b1, p0, p1, x0, x1, f0, f1
    <2> QED
      BY <1>P, <1>G, <2>1
  <1>S. ASSUME UNCHANGED <<dozing, queues, free_xmitframe_cnt, xmit>> PROVE PoolConserved'
    <2>1. f1 = f0
      BY <1>S
    <2> HIDE DEF b0, b1, p0, p1, x0, x1, f0, f1
    <2> QED
      BY <1>S, <1>P, <1>G, <1>N, <2>1
  <1>1. CASE UNCHANGED vars
    BY <1>1, <1>S DEF vars
  <1>2. ASSUME NEW r \in Rcpts, NEW a \in Acs, XmitBegin(r, a) PROVE PoolConserved'
    <2>1. f0 > 0 /\ f1 = f0 - 1 /\ xmit = NoXmit /\ UNCHANGED queues
      BY <1>2 DEF XmitBegin
    <2>2. CASE XmitBuffers(r, a) /\ UNCHANGED xmit
      <3>1. sleep_q' = [sleep_q EXCEPT ![r] = Append(@, a)]
        BY <2>2 DEF XmitBuffers
      <3>2. /\ sleep_q' \in [Rcpts -> Seq(Acs)] /\ Len(sleep_q'[r]) = Len(sleep_q[r]) + 1
            /\ \A y \in Rcpts \ {r} : sleep_q'[y] = sleep_q[y]
        <4>1. sleep_q[r] \in Seq(Acs)
          BY <1>T
        <4>2. Append(sleep_q[r], a) \in Seq(Acs) /\ Len(Append(sleep_q[r], a)) = Len(sleep_q[r]) + 1
          BY <4>1
        <4> QED
          BY <1>T, <3>1, <4>2
      <3>3. /\ b1 \in Nat /\ Len(sleep_q[r]) \in Nat
            /\ b1 + Len(sleep_q[r]) = b0 + Len(sleep_q'[r])
        BY <1>T, <3>2, SleepqOne
      <3>4. b1 = b0 + 1 /\ p1 = p0 /\ x1 = x0
        <4> DEFINE l == Len(sleep_q[r])
        <4>1. b1 + l = b0 + (l + 1) /\ l \in Nat /\ b1 \in Nat
          BY <3>2, <3>3
        <4>2. p1 = p0 /\ x1 = x0
          BY <1>N, <2>1, <2>2
        <4> HIDE DEF b0, b1, p0, p1, x0, x1, f0, f1, l
        <4> QED
          BY <1>P, <4>1, <4>2
      <3> HIDE DEF b0, b1, p0, p1, x0, x1, f0, f1
      <3> QED
        BY <1>P, <1>G, <2>1, <3>4
    <2>3. CASE xmit' = [to |-> r, ac |-> a] /\ UNCHANGED <<bits, beacon, dozing>>
      <3>1. xmit' # NoXmit
        <4>1. xmit'.ac # "none"
          BY <2>3, SlQueues
        <4> QED
          BY <4>1 DEF NoXmit
      <3>2. x0 = 0 /\ x1 = 1 /\ b1 = b0 /\ p1 = p0
        BY <1>N, <2>1, <2>3, <3>1
      <3> HIDE DEF b0, b1, p0, p1, x0, x1, f0, f1
      <3> QED
        BY <1>P, <1>G, <2>1, <3>2
    <2> QED
      BY <1>2, <2>2, <2>3 DEF XmitBegin
  <1>3. CASE XmitDirect
    <2>1. x0 = 1 /\ x1 = 0 /\ f1 = f0 + 1 /\ b1 = b0 /\ p1 = p0
      BY <1>3, <1>N DEF XmitDirect
    <2> HIDE DEF b0, b1, p0, p1, x0, x1, f0, f1
    <2> QED
      BY <1>P, <1>G, <2>1
  <1>4. CASE XmitEnqueue
    <2>1. /\ xmit # NoXmit /\ xmit' = NoXmit /\ Classify(xmit.to, <<xmit.ac>>, "plain")
          /\ UNCHANGED <<dozing, free_xmitframe_cnt>>
      BY <1>4 DEF XmitEnqueue
    <2>2. <<xmit.to, xmit.ac>> \in Servqs /\ xmit.to \in Rcpts /\ xmit.ac \in Acs
      BY <1>T, <2>1 DEF TyHands
    <2>3. p1 = p0 + 1
      <3>1. /\ <<xmit.ac>> \in Seq(Acs) /\ "plain" \in Passes /\ Len(<<xmit.ac>>) = 1
            /\ xmit.to = Bmc => <<xmit.ac>> \in Seq({"be"})
        <4>1. xmit.to = Bmc => xmit.ac = "be"
          BY <2>2, SlQueues
        <4> QED
          BY <2>2, <4>1 DEF Passes
      <3>2. Total(sta_pending', Servqs) = Total(sta_pending, Servqs) + Len(<<xmit.ac>>)
        BY <1>T, <2>1, <2>2, <3>1, Classified
      <3> QED
        BY <3>1, <3>2
    <2>4. x0 = 1 /\ x1 = 0 /\ b1 = b0 /\ f1 = f0
      BY <1>N, <2>1
    <2> HIDE DEF b0, b1, p0, p1, x0, x1, f0, f1
    <2> QED
      BY <1>P, <1>G, <2>3, <2>4
  <1>5. ASSUME NEW v \in Servqs, XmitTasklet(v) PROVE PoolConserved'
    <2>1. /\ sta_pending[v] # << >> /\ sta_pending' = [sta_pending EXCEPT ![v] = Tail(@)]
          /\ f1 = f0 + 1 /\ UNCHANGED <<dozing, xmit>>
      BY <1>5 DEF XmitTasklet
    <2>2. /\ Len(sta_pending[v]) \in Nat
          /\ Len(sta_pending'[v]) \in Nat /\ Len(sta_pending'[v]) + 1 = Len(sta_pending[v])
          /\ \A y \in Servqs : Len(sta_pending[y]) \in Nat /\ Len(sta_pending'[y]) \in Nat
          /\ \A y \in Servqs \ {v} : sta_pending'[y] = sta_pending[y]
      <3>1. sta_pending[v] \in Seq(Passes)
        BY <1>T
      <3>2. /\ Tail(sta_pending[v]) \in Seq(Passes)
            /\ Len(Tail(sta_pending[v])) + 1 = Len(sta_pending[v])
        BY <2>1, <3>1
      <3>3. sta_pending' \in [Servqs -> Seq(Passes)] /\ sta_pending'[v] = Tail(sta_pending[v])
        BY <1>T, <2>1, <3>2
      <3>4. \A y \in Servqs \ {v} : sta_pending'[y] = sta_pending[y]
        BY <1>T, <2>1
      <3> QED
        BY <1>T, <3>2, <3>3, <3>4, LenProperties
    <2>3. p1 + Len(sta_pending[v]) = p0 + Len(sta_pending'[v]) /\ p1 \in Nat
      <3>1. DifferAt(sta_pending, sta_pending', Servqs, v)
        BY <2>2 DEF DifferAt
      <3> QED
        BY <3>1, SlFinite, TotalOne
    <2>4. p1 + 1 = p0
      <3> DEFINE l == Len(sta_pending'[v])
      <3>1. p1 + (l + 1) = p0 + l /\ l \in Nat /\ p1 \in Nat
        BY <2>2, <2>3
      <3> HIDE DEF p0, p1, l
      <3> QED
        BY <1>P, <3>1
    <2>5. p1 \in Nat /\ x1 = x0 /\ b1 = b0
      BY <1>N, <2>1, <2>3
    <2> HIDE DEF b0, b1, p0, p1, x0, x1, f0, f1
    <2> QED
      BY <1>P, <1>G, <2>1, <2>4, <2>5
  <1>6. ASSUME NEW s \in Stas, NEW pwr \in BOOLEAN, NEW qos \in BOOLEAN, NEW a \in Acs,
               RxData(s, pwr, qos, a)
        PROVE  PoolConserved'
    <2>1. UNCHANGED <<free_xmitframe_cnt, xmit>>
      BY <1>6 DEF RxData
    <2>2. \/ stop_sta_xmit(s)
          \/ wakeup_sta_to_xmit("rx", s, Next1(qos))
          \/ UNCHANGED <<dozing, queues>>
      BY <1>6, Zenon DEF RxData
    <2>3. CASE stop_sta_xmit(s)
      BY <1>K, <2>1, <2>3, StopEffect
    <2>4. CASE wakeup_sta_to_xmit("rx", s, Next1(qos))
      BY <1>K, <2>1, <2>4, WakeEffect
    <2>5. CASE UNCHANGED <<dozing, queues>>
      BY <1>S, <2>1, <2>5
    <2> QED
      BY <2>2, <2>3, <2>4, <2>5
  <1>7. ASSUME NEW s \in Stas, expire_timeout_chk(s) PROVE PoolConserved'
    <2>1. wakeup_sta_to_xmit("timer", s, "idle") /\ UNCHANGED <<free_xmitframe_cnt, xmit>>
      BY <1>7 DEF expire_timeout_chk
    <2> QED
      BY <1>K, <2>1, WakeEffect
  <1>8. CASE process_wmmps_data
    <2>1. pc["rx"] = "wmmps" /\ UNCHANGED <<free_xmitframe_cnt, xmit>>
      BY <1>8, Zenon DEF process_wmmps_data
    <2>2. xmit_delivery_enabled_frames(rx.sta) \/ UNCHANGED <<dozing, queues>>
      BY <1>8, Zenon DEF process_wmmps_data
    <2>3. rx.sta \in Stas
      BY <1>T, <2>1 DEF TyHands
    <2>4. CASE xmit_delivery_enabled_frames(rx.sta)
      BY <1>K, <2>1, <2>3, <2>4, DeliverEffect
    <2> QED
      BY <1>S, <2>1, <2>2, <2>4
  <1>9. ASSUME NEW s \in Stas, PsPoll(s) PROVE PoolConserved'
    <2>1. UNCHANGED <<free_xmitframe_cnt, xmit>>
      BY <1>9 DEF PsPoll
    <2>2. CASE PsPollFrame(s)
      BY <1>K, <2>1, <2>2, PollEffect
    <2>3. CASE UNCHANGED <<dozing, queues>>
      BY <1>S, <2>1, <2>3
    <2> QED
      BY <1>9, <2>2, <2>3 DEF PsPoll
  <1>10. CASE TxGroup
    <2>1. UNCHANGED <<free_xmitframe_cnt, xmit>>
      BY <1>10 DEF TxGroup
    <2> QED
      BY <1>K, <1>10, <2>1, GroupEffect
  <1>11. ASSUME NEW s \in Stas, rtw_free_stainfo(s) PROVE PoolConserved'
    <2>1. /\ f1 = f0 + Waiting(s)
          /\ sleep_q' = [sleep_q EXCEPT ![s] = << >>]
          /\ sta_pending' = [v \in Servqs |-> IF v[1] = s THEN << >> ELSE sta_pending[v]]
          /\ UNCHANGED xmit
      BY <1>11 DEF rtw_free_stainfo
    <2>2. s \in Rcpts /\ << >> \in Seq(Acs) /\ << >> \in Seq(Passes) /\ Len(<< >>) = 0
      BY DEF Rcpts
    <2>3. /\ sleep_q' \in [Rcpts -> Seq(Acs)] /\ Len(sleep_q'[s]) = 0
          /\ \A y \in Rcpts \ {s} : sleep_q'[y] = sleep_q[y]
      BY <1>T, <2>1, <2>2
    <2>4. /\ sta_pending' \in [Servqs -> Seq(Passes)]
          /\ \A v \in Servqs : v[1] # s => sta_pending'[v] = sta_pending[v]
          /\ \A v \in Servqs : v[1] = s => sta_pending'[v] = << >>
      BY <1>T, <2>1, <2>2
    <2>5. b1 \in Nat /\ b1 + Len(sleep_q[s]) = b0 + Len(sleep_q'[s])
      BY <1>T, <2>2, <2>3, SleepqOne
    <2>6. p1 \in Nat /\ p1 + QLen(sta_pending, s) = p0 + QLen(sta_pending', s)
      BY <1>T, <2>2, <2>4, ServqsOne
    <2>7. QLen(sta_pending', s) = 0
      <3>1. <<s, "be">>[1] = s /\ <<s, "vo">>[1] = s /\ <<s, "be">> \in Servqs
        BY SlQueues
      <3>2. /\ sta_pending'[<<s, "be">>] = << >>
            /\ <<s, "vo">> \in Servqs => sta_pending'[<<s, "vo">>] = << >>
        BY <2>4, <3>1
      <3> QED
        BY <2>2, <3>2 DEF QLen
    <2> DEFINE n == Len(sleep_q[s])
               q == QLen(sta_pending, s)
    <2>8. n \in Nat /\ q \in Nat /\ f1 = f0 + (n + q)
      BY <2>1, WaitingFrames
    <2>9. b1 + n = b0 + 0 /\ p1 + q = p0 + 0 /\ x1 = x0 /\ b1 \in Nat /\ p1 \in Nat
      BY <1>N, <2>1, <2>3, <2>5, <2>6, <2>7
    <2> HIDE DEF b0, b1, p0, p1, x0, x1, f0, f1, n, q
    <2> QED
      BY <1>P, <1>G, <2>8, <2>9
  <1>12. CASE PsPollNone
    <2>1. UNCHANGED <<sleep_q, queues, free_xmitframe_cnt, xmit>>
      BY <1>12, Zenon DEF PsPollNone
    <2>2. b1 = b0 /\ p1 = p0 /\ x1 = x0 /\ f1 = f0
      BY <1>N, <2>1
    <2> HIDE DEF b0, b1, p0, p1, x0, x1, f0, f1
    <2> QED
      BY <1>P, <1>G, <2>2
  <1>13. CASE TxBeacon \/ ChkHiq \/ ChkHiqEmpty \/ ChkHiqAgain \/ HiqDrains
    <2>1. UNCHANGED <<dozing, queues, free_xmitframe_cnt, xmit>>
      BY <1>13 DEF TxBeacon, ChkHiq, ChkHiqEmpty, ChkHiqAgain, HiqDrains
    <2> QED
      BY <1>S, <2>1
  <1>14. ASSUME NEW c \in {"rx", "timer"}, AfterWakeup(c) PROVE PoolConserved'
    <2>1. UNCHANGED <<dozing, queues, free_xmitframe_cnt, xmit>>
      BY <1>14 DEF AfterWakeup
    <2> QED
      BY <1>S, <2>1
  <1>15. ASSUME NEW s \in Stas, NEW k \in Kinds, Associate(s, k) PROVE PoolConserved'
    <2>1. UNCHANGED <<dozing, queues, free_xmitframe_cnt, xmit>>
      BY <1>15 DEF Associate
    <2> QED
      BY <1>S, <2>1
  <1> QED
    BY <1>1, <1>2, <1>3, <1>4, <1>5, <1>6, <1>7, <1>8, <1>9, <1>10, <1>11, <1>12, <1>13,
       <1>14, <1>15 DEF Next

\* Every list fits into a counter.
LEMMA PoolBounds ==
  ASSUME SlTyped, PoolConserved
  PROVE  /\ free_xmitframe_cnt \in 0 .. NR_XMITFRAME
         /\ \A r \in Rcpts : Len(sleep_q[r]) \in 0 .. W - 2
  <1> DEFINE b == Total(sleep_q, Rcpts)
             p == Total(sta_pending, Servqs)
             x == IF xmit = NoXmit THEN 0 ELSE 1
             f == free_xmitframe_cnt
  <1>1. b \in Nat /\ p \in Nat /\ f \in Nat /\ x \in Nat /\ f + b + p + x = NR_XMITFRAME
    BY TotalsNat DEF PoolConserved, SlTyped, TyQueues
  <1>2. W \in Nat /\ NR_XMITFRAME \in Nat /\ NR_XMITFRAME + 1 < W
    BY SlMod
  <1> HIDE DEF p, x, f
  <1>3. f <= NR_XMITFRAME /\ b <= NR_XMITFRAME
    <2> HIDE DEF b
    <2> QED
      BY <1>1, <1>2
  <1>4. ASSUME NEW r \in Rcpts PROVE Len(sleep_q[r]) \in 0 .. W - 2
    <2>1. sleep_q \in [Rcpts -> Seq(Acs)]
      BY DEF SlTyped, TyBuffers
    <2>2. Len(sleep_q[r]) \in Nat /\ Len(sleep_q[r]) <= b
      BY <2>1, SlFinite, TotalBounds
    <2> HIDE DEF b
    <2> QED
      BY <1>1, <1>2, <1>3, <2>2
  <1> QED
    BY <1>1, <1>2, <1>3, <1>4 DEF f

\* The types of TypeOK.
LEMMA SlTypes ==
  ASSUME SlTyped, PoolConserved
  PROVE  TypeOK
  <1>1. free_xmitframe_cnt \in 0 .. NR_XMITFRAME
    BY PoolBounds
  <1>2. Kinds \subseteq AllKinds
    BY ApSleepAssumption
  <1> QED
    BY <1>1, <1>2 DEF SlTyped, TyStations, TyBuffers, TyQueues, TyHands, TyThread, TypeOK, Cmds

\* No frame of the pool is lost or freed twice, whatever runs in parallel.
THEOREM PoolKept == Spec => [](TypeOK /\ PoolConserved)
  <1>1. Init => SlTyped /\ PoolConserved
    BY SlTypedInit, PoolInit
  <1>2. SlTyped /\ PoolConserved /\ [Next]_vars => (SlTyped /\ PoolConserved)'
    BY SlTypedNext, PoolNext
  <1>3. SlTyped /\ PoolConserved => TypeOK /\ PoolConserved
    BY SlTypes
  <1> QED
    BY <1>1, <1>2, <1>3, PTL DEF Spec

-----------------------------------------------------------------------------
(***************************************************************************)
(* One processor: the counters, and who dozes is served.                   *)
(***************************************************************************)
\* On one processor: while rtw_xmit has a frame in its hands nobody else runs,
\* so what it saw of the receiver still holds; the same for a PS-Poll that
\* found nothing.
SlOrder ==
    /\ xmit # NoXmit => /\ pc["rx"] = "idle" /\ pc["timer"] = "idle"
                        /\ ~ Dozes(xmit.to) /\ (xmit.to \in Stas => Known(xmit.to))
    /\ pc["rx"] = "pspoll" => sleep_q[rx.sta] = << >>
\* sleepq_len is the length of the list.
SlCounts == \A r \in Rcpts : sleepq_len[r] = Len(sleep_q[r])
\* The two records of dozing agree, and only known stations that doze have
\* frames buffered.
SlAgree ==
    /\ \A s \in Stas : Known(s) => (s \in sleeping <=> s \in sta_dz_bitmap)
    /\ \A s \in Stas : sleep_q[s] # << >> => Known(s) /\ s \in sleeping
    /\ \A s \in Stas : s \in sta_dz_bitmap => Known(s)
\* Only frames that may pass wait for the chip.
SlSpared ==
    /\ \A s \in Stas, a \in Acs :
          Known(s) /\ s \in sleeping => NoPlain(sta_pending[<<s, a>>])
    /\ sta_dz_bitmap # {} => NoPlain(sta_pending[<<Bmc, "be">>])
\* What holds of the stations that doze.
SlDozing == SlCounts /\ SlAgree /\ SlSpared

\* What one processor means.
LEMMA Alone ==
  ASSUME ~ Smp, NEW c, Runs(c)
  PROVE  /\ c # "xmit" => xmit = NoXmit
         /\ c # "rx" => pc["rx"] = "idle"
         /\ c # "timer" => pc["timer"] = "idle"
  BY DEF Runs

\* No step of another context comes between.
LEMMA OrderNext == ~ Smp /\ SlTyped /\ SlOrder /\ [Next]_vars => SlOrder'
  <1> SUFFICES ASSUME ~ Smp, SlTyped, SlOrder, [Next]_vars PROVE SlOrder'
    OBVIOUS
  <1>T. pc \in [{"rx", "timer"} -> {"idle", "update", "wmmps", "pspoll"}]
    BY DEF SlTyped, TyHands
  <1>K. ASSUME xmit' = NoXmit, pc'["rx"] # "pspoll" PROVE SlOrder'
    BY <1>K DEF SlOrder
  <1>1. CASE UNCHANGED vars
    BY <1>1 DEF vars, bits, dozing, SlOrder, Dozes, Known
  <1>2. ASSUME NEW r \in Rcpts, NEW a \in Acs, XmitBegin(r, a) PROVE SlOrder'
    <2>1. /\ Runs("xmit") /\ xmit = NoXmit /\ (r \in Stas => kind[r] # "none")
          /\ UNCHANGED <<kind, sleeping, pc, rx>>
      BY <1>2 DEF XmitBegin, Begins
    <2>2. pc["rx"] = "idle" /\ pc["timer"] = "idle"
      BY <2>1, Alone
    <2>3. CASE UNCHANGED xmit
      BY <1>K, <2>1, <2>2, <2>3
    <2>4. CASE xmit' = [to |-> r, ac |-> a] /\ ~ Dozes(r) /\ UNCHANGED <<bits, beacon, dozing>>
      <3>1. ~ Dozes(r)' /\ xmit'.to = r /\ (r \in Stas => Known(r)')
        BY <2>1, <2>4 DEF Dozes, bits, Known
      <3>2. ~ Dozes(xmit.to)' /\ (xmit'.to \in Stas => Known(xmit.to)')
        BY <3>1 DEF Dozes, Known
      <3> QED
        BY <2>1, <2>2, <3>2 DEF SlOrder
    <2> QED
      BY <1>2, <2>3, <2>4 DEF XmitBegin
  <1>3. CASE XmitDirect \/ XmitEnqueue
    <2>1. Runs("xmit") /\ xmit' = NoXmit /\ UNCHANGED pc
      BY <1>3 DEF XmitDirect, XmitEnqueue
    <2> QED
      BY <1>K, <2>1, Alone
  <1>4. ASSUME NEW v \in Servqs, XmitTasklet(v) PROVE SlOrder'
    <2>1. Runs("tasklet") /\ UNCHANGED <<xmit, pc>>
      BY <1>4 DEF XmitTasklet
    <2> QED
      BY <1>K, <2>1, Alone
  <1>5. ASSUME NEW s \in Stas, NEW pwr \in BOOLEAN, NEW qos \in BOOLEAN, NEW a \in Acs,
               RxData(s, pwr, qos, a)
        PROVE  SlOrder'
    <2>1. Runs("rx") /\ UNCHANGED xmit
      BY <1>5, Zenon DEF RxData, Begins
    <2>2. \/ pc' = [pc EXCEPT !["rx"] = Next1(qos)]
          \/ pc' = [pc EXCEPT !["rx"] = "update"]
          \/ pc' = [pc EXCEPT !["rx"] = "wmmps"]
      BY <1>5 DEF RxData, wakeup_sta_to_xmit, Goto
    <2>3. Next1(qos) \in {"wmmps", "idle"}
      BY DEF Next1
    <2> QED
      BY <1>K, <1>T, <2>1, <2>2, <2>3, Alone
  <1>6. ASSUME NEW s \in Stas, PsPoll(s) PROVE SlOrder'
    <2>1. Runs("rx") /\ UNCHANGED xmit /\ pc["rx"] = "idle"
      BY <1>6 DEF PsPoll, Begins
    <2>2. xmit = NoXmit
      BY <2>1, Alone
    <2>3. CASE PsPollFrame(s)
      <3>1. UNCHANGED pc
        BY <2>3 DEF PsPollFrame
      <3> QED
        BY <1>K, <2>1, <2>2, <3>1
    <2>4. CASE /\ sleep_q[s] = << >>
               /\ RxGoto("pspoll", [sta |-> s, qos |-> FALSE, ac |-> "be"])
               /\ UNCHANGED <<tim_bitmap, beacon, dozing, queues>>
      <3>1. rx'.sta = s /\ sleep_q' = sleep_q
        BY <2>4 DEF RxGoto, dozing
      <3>2. sleep_q'[rx'.sta] = << >>
        BY <2>4, <3>1
      <3> QED
        BY <2>1, <2>2, <3>2 DEF SlOrder
    <2> QED
      BY <1>6, <2>3, <2>4 DEF PsPoll
  <1>7. ASSUME NEW s \in Stas, rtw_free_stainfo(s) PROVE SlOrder'
    <2>1. Runs("free") /\ UNCHANGED <<xmit, pc>>
      BY <1>7 DEF rtw_free_stainfo
    <2> QED
      BY <1>K, <2>1, Alone
  <1>8. ASSUME NEW s \in Stas, expire_timeout_chk(s) PROVE SlOrder'
    <2>1. Runs("timer") /\ UNCHANGED xmit /\ wakeup_sta_to_xmit("timer", s, "idle")
      BY <1>8 DEF expire_timeout_chk, Begins
    <2>2. xmit = NoXmit /\ pc["rx"] = "idle"
      BY <2>1, Alone
    <2>3. pc'["rx"] = "idle"
      BY <1>T, <2>1, <2>2 DEF wakeup_sta_to_xmit, Goto
    <2> QED
      BY <1>K, <2>1, <2>2, <2>3
  <1>9. ASSUME NEW s \in Stas, NEW k \in Kinds, Associate(s, k) PROVE SlOrder'
    <2>1. Runs("rx") /\ pc["rx"] = "idle" /\ UNCHANGED <<xmit, pc>>
      BY <1>9 DEF Associate, Begins
    <2> QED
      BY <1>K, <2>1, Alone
  <1>10. ASSUME NEW c \in {"rx", "timer"}, AfterWakeup(c) PROVE SlOrder'
    <2>1. Runs(c) /\ UNCHANGED xmit
      BY <1>10 DEF AfterWakeup
    <2>2. xmit = NoXmit
      BY <2>1, Alone
    <2>3. CASE c = "rx"
      <3>1. pc' = [pc EXCEPT !["rx"] = Next1(rx.qos)] /\ Next1(rx.qos) \in {"wmmps", "idle"}
        BY <1>10, <2>3 DEF AfterWakeup, RxGoto, Goto, Next1
      <3> QED
        BY <1>K, <1>T, <2>1, <2>2, <3>1
    <2>4. CASE c = "timer"
      <3>1. pc' = [pc EXCEPT !["timer"] = "idle"] /\ pc["rx"] = "idle"
        BY <1>10, <2>1, <2>4, Alone DEF AfterWakeup, Goto
      <3> QED
        BY <1>K, <1>T, <2>1, <2>2, <3>1
    <2> QED
      BY <2>3, <2>4
  <1>11. CASE process_wmmps_data \/ PsPollNone
    <2>1. Runs("rx") /\ UNCHANGED xmit /\ pc' = [pc EXCEPT !["rx"] = "idle"]
      BY <1>11, Zenon DEF process_wmmps_data, PsPollNone, RxGoto, Goto
    <2> QED
      BY <1>K, <1>T, <2>1, Alone
  <1>12. CASE TxBeacon \/ TxGroup \/ ChkHiq \/ ChkHiqEmpty \/ ChkHiqAgain
    <2>1. Runs("thread") /\ UNCHANGED <<xmit, pc>>
      BY <1>12 DEF TxBeacon, TxGroup, ChkHiq, ChkHiqEmpty, ChkHiqAgain, Serves
    <2> QED
      BY <1>K, <2>1, Alone
  <1>13. CASE HiqDrains
    BY <1>13 DEF HiqDrains, bits, dozing, SlOrder, Dozes, Known
  <1> QED
    BY <1>1, <1>2, <1>3, <1>4, <1>5, <1>6, <1>7, <1>8, <1>9, <1>10, <1>11, <1>12, <1>13 DEF Next

\* Every list fits into its counter, so counting modulo W is exact.
Fits == \A r \in Rcpts : Len(sleep_q[r]) \in 0 .. W - 2

\* The pool is smaller than W,
LEMMA FitsAlways == SlTyped /\ PoolConserved => Fits
  BY PoolBounds DEF Fits
\* ... and so the lists fit after a step as well.
LEMMA FitsNext == SlTyped' /\ PoolConserved' => Fits'
  BY FitsAlways, PTL

\* A counter that is moved by n, and the list with it.
LEMMA Exact ==
  ASSUME NEW l \in Int, NEW n \in Int, NEW k, k = l + n, k \in 0 .. W - 1
  PROVE  (l + n) % W = k
  <1>1. k % W = k
    BY SlMod
  <1> QED
    BY <1>1
\* The same when frames are taken out.
LEMMA ExactLess ==
  ASSUME NEW l \in Int, NEW n \in Int, NEW k, k = l - n, k \in 0 .. W - 1
  PROVE  (l - n) % W = k
  <1>1. k % W = k
    BY SlMod
  <1> QED
    BY <1>1

\* Every way into a sleep_q and out of it keeps sleepq_len; that the "error!"
\* branch of a PS-Poll may set it to 0 rests on SlOrder.
LEMMA CountsNext ==
  ~ Smp /\ SlTyped /\ SlTyped' /\ Fits' /\ SlOrder /\ SlCounts /\ [Next]_vars => SlCounts'
  <1> SUFFICES ASSUME ~ Smp, SlTyped, SlTyped', Fits', SlOrder, SlCounts, [Next]_vars
               PROVE  SlCounts'
    OBVIOUS
  <1>0. Bmc \in Rcpts /\ Stas \subseteq Rcpts /\ Bmc \notin Stas
    BY SlQueues DEF Rcpts
  <1>T. /\ sleep_q \in [Rcpts -> Seq(Acs)] /\ sleep_q' \in [Rcpts -> Seq(Acs)]
        /\ sleepq_len \in [Rcpts -> 0 .. W - 1]
    BY DEF SlTyped, TyBuffers
  <1>L. \A r \in Rcpts : /\ Len(sleep_q[r]) \in Nat /\ Len(sleep_q'[r]) \in 0 .. W - 1
                         /\ sleepq_len[r] = Len(sleep_q[r])
    <2> SUFFICES ASSUME NEW r \in Rcpts
                 PROVE  /\ Len(sleep_q[r]) \in Nat /\ Len(sleep_q'[r]) \in 0 .. W - 1
                        /\ sleepq_len[r] = Len(sleep_q[r])
      OBVIOUS
    <2>1. sleep_q[r] \in Seq(Acs)
      BY <1>T
    <2>2. Len(sleep_q'[r]) \in 0 .. W - 2
      BY DEF Fits
    <2>3. Len(sleep_q'[r]) \in 0 .. W - 1
      <3> DEFINE k == Len(sleep_q'[r])
      <3>1. k \in 0 .. W - 2 /\ W \in Nat
        BY <2>2, SlMod
      <3> HIDE DEF k
      <3>2. k \in 0 .. W - 1
        BY <3>1
      <3> QED
        BY <3>2 DEF k
    <2>4. sleepq_len[r] = Len(sleep_q[r])
      BY DEF SlCounts
    <2> QED
      BY <2>1, <2>3, <2>4
  <1>W. \A r \in Rcpts : \A n \in Int :
           /\ Len(sleep_q'[r]) = Len(sleep_q[r]) + n
                => (sleepq_len[r] + n) % W = Len(sleep_q'[r])
           /\ Len(sleep_q'[r]) = Len(sleep_q[r]) - n
                => (sleepq_len[r] - n) % W = Len(sleep_q'[r])
    <2> SUFFICES ASSUME NEW r \in Rcpts, NEW n \in Int
                 PROVE  /\ Len(sleep_q'[r]) = Len(sleep_q[r]) + n
                             => (sleepq_len[r] + n) % W = Len(sleep_q'[r])
                        /\ Len(sleep_q'[r]) = Len(sleep_q[r]) - n
                             => (sleepq_len[r] - n) % W = Len(sleep_q'[r])
      OBVIOUS
    <2> DEFINE k == Len(sleep_q'[r])
               l == Len(sleep_q[r])
    <2>1. k \in 0 .. W - 1 /\ l \in Int /\ sleepq_len[r] = l
      BY <1>L
    <2>2. k = l + n => (l + n) % W = k
      <3> HIDE DEF k, l
      <3> QED
        BY <2>1, Exact
    <2>3. k = l - n => (l - n) % W = k
      <3> HIDE DEF k, l
      <3> QED
        BY <2>1, ExactLess
    <2> QED
      BY <2>1, <2>2, <2>3
  \* One list and its counter move.
  <1>O. ASSUME NEW r \in Rcpts, NEW k, sleepq_len' = [sleepq_len EXCEPT ![r] = k],
               k = Len(sleep_q'[r]), \A x \in Rcpts \ {r} : sleep_q'[x] = sleep_q[x]
        PROVE  SlCounts'
    <2> SUFFICES ASSUME NEW x \in Rcpts PROVE sleepq_len'[x] = Len(sleep_q'[x])
      BY DEF SlCounts
    <2>1. CASE x = r
      BY <1>T, <1>O, <2>1
    <2>2. CASE x # r
      BY <1>T, <1>L, <1>O, <2>2
    <2> QED
      BY <2>1, <2>2
  \* The lists of a station and of the group move.
  <1>B. ASSUME NEW s \in Stas, NEW k, NEW g,
               sleepq_len' = [sleepq_len EXCEPT ![s] = k, ![Bmc] = g],
               k = Len(sleep_q'[s]), g = Len(sleep_q'[Bmc]),
               \A x \in Rcpts \ {s, Bmc} : sleep_q'[x] = sleep_q[x]
        PROVE  SlCounts'
    <2> SUFFICES ASSUME NEW x \in Rcpts PROVE sleepq_len'[x] = Len(sleep_q'[x])
      BY DEF SlCounts
    <2>1. CASE x = Bmc
      BY <1>0, <1>T, <1>B, <2>1
    <2>2. CASE x = s
      BY <1>0, <1>T, <1>B, <2>2
    <2>3. CASE x # s /\ x # Bmc
      BY <1>T, <1>L, <1>B, <2>3
    <2> QED
      BY <2>1, <2>2, <2>3
  <1>S. ASSUME UNCHANGED dozing PROVE SlCounts'
    BY <1>S DEF SlCounts, dozing
  <1>V. ASSUME NEW s \in Stas, NEW c, NEW l, wakeup_sta_to_xmit(c, s, l) PROVE SlCounts'
    <2> DEFINE q == sleep_q[s]
               g == GroupOf
               len == (sleepq_len[s] - Len(q)) % W
               glen == (sleepq_len[Bmc] - Len(g)) % W
    <2>1. sleepq_len' = [sleepq_len EXCEPT ![s] = len, ![Bmc] = glen]
      BY <1>V, Zenon DEF wakeup_sta_to_xmit, GroupOf
    <2>2. WakeMoves(s, g)
      BY <1>V, WakeEffect
    <2>3. sleep_q'[s] = << >> /\ sleep_q'[Bmc] = (IF g = << >> THEN sleep_q[Bmc] ELSE << >>)
          /\ \A r \in Rcpts \ {s, Bmc} : sleep_q'[r] = sleep_q[r]
      BY <2>2 DEF WakeMoves
    <2>4. len = Len(sleep_q'[s])
      <3>1. Len(sleep_q'[s]) = Len(sleep_q[s]) - Len(q) /\ Len(q) \in Int
        BY <1>0, <1>L, <2>3
      <3> QED
        BY <1>0, <1>W, <3>1
    <2>5. glen = Len(sleep_q'[Bmc])
      <3>1. Len(g) \in Int /\ Len(sleep_q'[Bmc]) = Len(sleep_q[Bmc]) - Len(g)
        <4>1. CASE g = << >>
          BY <1>0, <1>L, <2>3, <4>1
        <4>2. CASE g # << >>
          BY <1>0, <1>L, <2>3, <4>2 DEF GroupOf
        <4> QED
          BY <4>1, <4>2
      <3> QED
        BY <1>0, <1>W, <3>1
    <2> HIDE DEF len, glen
    <2> QED
      BY <1>B, <2>1, <2>3, <2>4, <2>5
  <1>P. ASSUME NEW s \in Stas, stop_sta_xmit(s) PROVE SlCounts'
    <2> DEFINE q == Parked(s)
               g == Parked(Bmc)
               len == (sleepq_len[s] + Len(q)) % W
               glen == (sleepq_len[Bmc] + Len(g)) % W
    <2>1. sleepq_len' = [sleepq_len EXCEPT ![s] = len, ![Bmc] = glen]
      BY <1>0, <1>P, <1>T, Zenon DEF stop_sta_xmit
    <2>2. StopMoves(s, q, g)
      BY <1>P, StopEffect
    <2>3. /\ q \in Seq(Acs) /\ g \in Seq({"be"})
          /\ sleep_q'[s] = sleep_q[s] \o q /\ sleep_q'[Bmc] = sleep_q[Bmc] \o g
          /\ \A r \in Rcpts \ {s, Bmc} : sleep_q'[r] = sleep_q[r]
      BY <2>2, Zenon DEF StopMoves
    <2> HIDE DEF q, g
    <2>4. len = Len(sleep_q'[s])
      <3>0. Len(q) \in Nat
        BY <2>3
      <3>1. Len(sleep_q'[s]) = Len(sleep_q[s]) + Len(q)
        BY <1>0, <1>T, <2>3, ConcatProperties
      <3> QED
        BY <1>0, <1>W, <3>0, <3>1
    <2>5. glen = Len(sleep_q'[Bmc])
      <3>0. Len(g) \in Nat /\ g \in Seq(Acs)
        BY <2>3, SlQueues
      <3>1. Len(sleep_q'[Bmc]) = Len(sleep_q[Bmc]) + Len(g)
        BY <1>0, <1>T, <2>3, <3>0, ConcatProperties
      <3> QED
        BY <1>0, <1>W, <3>0, <3>1
    <2> HIDE DEF len, glen
    <2> QED
      BY <1>B, <2>1, <2>3, <2>4, <2>5
  <1>1. CASE UNCHANGED vars
    BY <1>1, <1>S DEF vars
  <1>2. ASSUME NEW r \in Rcpts, NEW a \in Acs, XmitBegin(r, a) PROVE SlCounts'
    <2>1. CASE XmitBuffers(r, a)
      <3>1. sleep_q' = [sleep_q EXCEPT ![r] = Append(@, a)]
            /\ sleepq_len' = [sleepq_len EXCEPT ![r] = (@ + 1) % W]
        BY <2>1 DEF XmitBuffers
      <3>2. Len(sleep_q'[r]) = Len(sleep_q[r]) + 1
        BY <1>T, <3>1
      <3>3. (sleepq_len[r] + 1) % W = Len(sleep_q'[r])
        BY <1>W, <3>2
      <3>4. sleepq_len' = [sleepq_len EXCEPT ![r] = (sleepq_len[r] + 1) % W]
        BY <3>1
      <3>5. \A x \in Rcpts \ {r} : sleep_q'[x] = sleep_q[x]
        BY <1>T, <3>1
      <3> QED
        BY <1>O, <3>3, <3>4, <3>5
    <2>2. CASE UNCHANGED <<bits, beacon, dozing>>
      BY <1>S, <2>2
    <2> QED
      BY <1>2, <2>1, <2>2 DEF XmitBegin
  <1>3. CASE XmitDirect \/ XmitEnqueue
    BY <1>3, <1>S DEF XmitDirect, XmitEnqueue
  <1>4. ASSUME NEW v \in Servqs, XmitTasklet(v) PROVE SlCounts'
    BY <1>4, <1>S DEF XmitTasklet
  <1>5. ASSUME NEW s \in Stas, NEW pwr \in BOOLEAN, NEW qos \in BOOLEAN, NEW a \in Acs,
               RxData(s, pwr, qos, a)
        PROVE  SlCounts'
    <2>1. stop_sta_xmit(s) \/ wakeup_sta_to_xmit("rx", s, Next1(qos)) \/ UNCHANGED dozing
      BY <1>5, Zenon DEF RxData
    <2> QED
      BY <1>P, <1>S, <1>V, <2>1
  <1>6. ASSUME NEW s \in Stas, PsPoll(s) PROVE SlCounts'
    <2>1. CASE PsPollFrame(s)
      <3>1. sleepq_len' = [sleepq_len EXCEPT ![s] = (sleepq_len[s] - 1) % W]
        BY <2>1, Zenon DEF PsPollFrame
      <3>2. /\ Len(sleep_q'[s]) + 1 = Len(sleep_q[s])
            /\ \A x \in Rcpts \ {s} : sleep_q'[x] = sleep_q[x]
        BY <2>1, PollEffect
      <3>3. (sleepq_len[s] - 1) % W = Len(sleep_q'[s])
        <4>1. Len(sleep_q'[s]) = Len(sleep_q[s]) - 1
          BY <1>0, <1>L, <3>2
        <4> QED
          BY <1>0, <1>W, <4>1
      <3> QED
        BY <1>0, <1>O, <3>1, <3>2, <3>3
    <2> QED
      BY <1>6, <1>S, <2>1, Zenon DEF PsPoll
  <1>7. ASSUME NEW s \in Stas, rtw_free_stainfo(s) PROVE SlCounts'
    <2>1. sleep_q' = [sleep_q EXCEPT ![s] = << >>] /\ sleepq_len' = [sleepq_len EXCEPT ![s] = 0]
      BY <1>7 DEF rtw_free_stainfo
    <2>2. 0 = Len(sleep_q'[s]) /\ \A x \in Rcpts \ {s} : sleep_q'[x] = sleep_q[x]
      BY <1>0, <1>T, <2>1
    <2> QED
      BY <1>0, <1>O, <2>1, <2>2
  <1>8. ASSUME NEW s \in Stas, expire_timeout_chk(s) PROVE SlCounts'
    BY <1>8, <1>V DEF expire_timeout_chk
  <1>9. ASSUME NEW s \in Stas, NEW k \in Kinds, Associate(s, k) PROVE SlCounts'
    BY <1>9, <1>S DEF Associate
  <1>10. ASSUME NEW c \in {"rx", "timer"}, AfterWakeup(c) PROVE SlCounts'
    BY <1>10, <1>S DEF AfterWakeup
  <1>11. CASE process_wmmps_data
    <2>1. pc["rx"] = "wmmps"
      BY <1>11, Zenon DEF process_wmmps_data
    <2>2. rx.sta \in Stas
      BY <2>1 DEF SlTyped, TyHands
    <2> DEFINE s == rx.sta
    <2>3. xmit_delivery_enabled_frames(s) \/ UNCHANGED dozing
      BY <1>11, Zenon DEF process_wmmps_data
    <2>4. CASE xmit_delivery_enabled_frames(s)
      <3> DEFINE q == Only(sleep_q[s], Delivery(s))
                 p == Only(sleep_q[s], Acs \ Delivery(s))
      <3>1. sleepq_len' = [sleepq_len EXCEPT ![s] = (sleepq_len[s] - Len(q)) % W]
        BY <1>0, <1>T, <2>2, <2>4 DEF xmit_delivery_enabled_frames
      <3>2. sleep_q'[s] = p /\ \A x \in Rcpts \ {s} : sleep_q'[x] = sleep_q[x]
        BY <2>2, <2>4, DeliverEffect
      <3>3. Len(p) + Len(q) = Len(sleep_q[s]) /\ Len(p) \in Nat /\ Len(q) \in Nat
        BY <2>2, Delivers
      <3>4. (sleepq_len[s] - Len(q)) % W = Len(sleep_q'[s])
        <4>1. Len(sleep_q'[s]) = Len(sleep_q[s]) - Len(q)
          <5>1. Len(sleep_q'[s]) = Len(p)
            BY <3>2
          <5> DEFINE lp == Len(p)
                     lq == Len(q)
          <5>2. Len(sleep_q'[s]) = lp /\ lp + lq = Len(sleep_q[s]) /\ lp \in Nat /\ lq \in Nat
            BY <3>3, <5>1
          <5> HIDE DEF lp, lq
          <5>3. Len(sleep_q'[s]) = Len(sleep_q[s]) - lq
            BY <5>2
          <5> QED
            BY <5>3 DEF lq
        <4>2. s \in Rcpts /\ Len(q) \in Int
          BY <1>0, <2>2, <3>3
        <4> HIDE DEF q
        <4> QED
          BY <1>W, <4>1, <4>2
      <3>5. s \in Rcpts
        BY <1>0, <2>2
      <3> HIDE DEF q, p, s
      <3> QED
        BY <1>O, <3>1, <3>2, <3>4, <3>5
    <2> QED
      BY <1>S, <2>3, <2>4
  <1>12. CASE PsPollNone
    <2> DEFINE s == rx.sta
    <2>1. pc["rx"] = "pspoll" /\ UNCHANGED sleep_q
          /\ sleepq_len' = IF s \in tim_bitmap THEN [sleepq_len EXCEPT ![s] = 0] ELSE sleepq_len
      BY <1>12, Zenon DEF PsPollNone
    <2>2. s \in Rcpts /\ sleep_q'[s] = << >>
      BY <1>0, <2>1 DEF SlTyped, TyHands, SlOrder
    <2>3. Len(sleep_q'[s]) = 0
      BY <2>2
    <2> HIDE DEF s
    <2>4. CASE s \in tim_bitmap
      <3>1. sleepq_len' = [sleepq_len EXCEPT ![s] = 0]
        BY <2>1, <2>4
      <3> QED
        BY <1>O, <2>1, <2>2, <2>3, <3>1
    <2>5. CASE s \notin tim_bitmap
      BY <2>1, <2>5 DEF SlCounts
    <2> QED
      BY <2>4, <2>5
  <1>13. CASE TxGroup
    <2>1. sleepq_len' = [sleepq_len EXCEPT ![Bmc] = (sleepq_len[Bmc] - Len(sleep_q[Bmc])) % W]
      BY <1>0, <1>13, <1>T DEF TxGroup
    <2>2. sleep_q'[Bmc] = << >> /\ \A x \in Rcpts \ {Bmc} : sleep_q'[x] = sleep_q[x]
      BY <1>13, GroupEffect
    <2>3. (sleepq_len[Bmc] - Len(sleep_q[Bmc])) % W = Len(sleep_q'[Bmc])
      <3>1. Len(sleep_q'[Bmc]) = Len(sleep_q[Bmc]) - Len(sleep_q[Bmc]) /\ Len(sleep_q[Bmc]) \in Int
        BY <1>0, <1>L, <2>2
      <3> QED
        BY <1>0, <1>W, <3>1
    <2> QED
      BY <1>0, <1>O, <2>1, <2>2, <2>3
  <1>14. CASE TxBeacon \/ ChkHiq \/ ChkHiqEmpty \/ ChkHiqAgain \/ HiqDrains
    BY <1>14, <1>S DEF TxBeacon, ChkHiq, ChkHiqEmpty, ChkHiqAgain, HiqDrains
  <1> QED
    BY <1>1, <1>2, <1>3, <1>4, <1>5, <1>6, <1>7, <1>8, <1>9, <1>10, <1>11, <1>12, <1>13, <1>14 DEF Next

\* What a wakeup does to the records of dozing.
LEMMA WakeBits ==
  ASSUME SlTyped, SlTyped', Fits', SlCounts, SlCounts', NEW s \in Stas, NEW c, NEW l,
         wakeup_sta_to_xmit(c, s, l)
  PROVE  /\ s \notin sleeping' /\ s \notin sta_dz_bitmap' /\ s \notin tim_bitmap'
         /\ \A t \in Stas \ {s} : /\ t \in sleeping' <=> t \in sleeping
                                  /\ t \in sta_dz_bitmap' <=> t \in sta_dz_bitmap
                                  /\ t \in tim_bitmap' <=> t \in tim_bitmap
         /\ sta_dz_bitmap' \subseteq sta_dz_bitmap
         /\ s \in Stas /\ pc' = [pc EXCEPT ![c] = "update"]
  <1> DEFINE len == (sleepq_len[s] - Len(sleep_q[s])) % W
             glen == (sleepq_len[Bmc] - Len(GroupOf)) % W
             over == {t \in {s} : len = 0}
                       \cup {r \in {Bmc} : sta_dz_bitmap \subseteq {Bmc} /\ glen = 0}
  <1>0. s \in Rcpts /\ s # Bmc
    BY SlQueues DEF Rcpts
  <1>1. /\ tim_bitmap' = tim_bitmap \ over /\ sta_dz_bitmap' = sta_dz_bitmap \ over
        /\ sleeping' = sleeping \ over /\ pc' = [pc EXCEPT ![c] = IF over = {} THEN l ELSE "update"]
    BY Zenon DEF wakeup_sta_to_xmit, GroupOf, Goto
  <1>2. len = 0
    <2>1. sleepq_len[s] = Len(sleep_q[s]) /\ Len(sleep_q[s]) \in Nat
      BY <1>0 DEF SlCounts, SlTyped, TyBuffers
    <2>2. sleepq_len[s] - Len(sleep_q[s]) = 0
      BY <2>1
    <2> QED
      BY <2>2, SlMod
  <1>3. s \in over /\ over \subseteq {s, Bmc}
    BY <1>2
  <1> HIDE DEF over
  <1> QED
    BY <1>0, <1>1, <1>3, SlQueues

\* Every step keeps the two records of dozing together.
LEMMA AgreeNext ==
  SlTyped /\ SlTyped' /\ Fits' /\ SlCounts /\ SlCounts' /\ SlAgree /\ [Next]_vars => SlAgree'
  <1> SUFFICES ASSUME SlTyped, SlTyped', Fits', SlCounts, SlCounts', SlAgree, [Next]_vars
               PROVE  SlAgree'
    OBVIOUS
  <1>0. Bmc \in Rcpts /\ Stas \subseteq Rcpts /\ Bmc \notin Stas
    BY SlQueues DEF Rcpts
  <1>T. /\ sleep_q \in [Rcpts -> Seq(Acs)] /\ sleep_q' \in [Rcpts -> Seq(Acs)]
        /\ kind \in [Stas -> Kinds \cup {"none"}]
    BY DEF SlTyped, TyBuffers, TyStations
  \* One station is concerned; the others stay as they are.
  <1>O. ASSUME NEW s \in Stas, UNCHANGED kind,
               \A t \in Stas \ {s} : /\ t \in sleeping' <=> t \in sleeping
                                     /\ t \in sta_dz_bitmap' <=> t \in sta_dz_bitmap
                                     /\ sleep_q'[t] = sleep_q[t],
               Known(s) => (s \in sleeping' <=> s \in sta_dz_bitmap'),
               sleep_q'[s] # << >> => Known(s) /\ s \in sleeping',
               s \in sta_dz_bitmap' => Known(s)
        PROVE  SlAgree'
    <2>1. \A t \in Stas : Known(t)' <=> Known(t)
      BY <1>O DEF Known
    <2>2. ASSUME NEW t \in Stas, Known(t)' PROVE (t \in sleeping' <=> t \in sta_dz_bitmap')
      BY <1>O, <2>1, <2>2 DEF SlAgree
    <2>3. ASSUME NEW t \in Stas, sleep_q'[t] # << >> PROVE Known(t)' /\ t \in sleeping'
      BY <1>O, <2>1, <2>3 DEF SlAgree
    <2>4. ASSUME NEW t \in Stas, t \in sta_dz_bitmap' PROVE Known(t)'
      BY <1>O, <2>1, <2>4 DEF SlAgree
    <2> QED
      BY <2>2, <2>3, <2>4 DEF SlAgree
  <1>S. ASSUME UNCHANGED <<kind, sleeping, sleep_q>>,
               \A t \in Stas : t \in sta_dz_bitmap' <=> t \in sta_dz_bitmap
        PROVE  SlAgree'
    <2>1. \A t : Known(t)' <=> Known(t)
      BY <1>S DEF Known
    <2> QED
      BY <1>S, <2>1 DEF SlAgree
  <1>D. UNCHANGED <<kind, sleeping, bits, dozing>> => SlAgree'
    BY <1>S DEF bits, dozing
  <1>V. ASSUME NEW s \in Stas, NEW c, NEW l, wakeup_sta_to_xmit(c, s, l), UNCHANGED kind
        PROVE  SlAgree'
    <2>1. s \notin sleeping' /\ s \notin sta_dz_bitmap'
          /\ \A t \in Stas \ {s} : /\ t \in sleeping' <=> t \in sleeping
                                   /\ t \in sta_dz_bitmap' <=> t \in sta_dz_bitmap
      BY <1>V, WakeBits
    <2>2. WakeMoves(s, GroupOf)
      BY <1>V, WakeEffect
    <2>3. sleep_q'[s] = << >> /\ \A t \in Rcpts \ {s, Bmc} : sleep_q'[t] = sleep_q[t]
      BY <2>2 DEF WakeMoves
    <2> QED
      BY <1>0, <1>O, <1>V, <2>1, <2>3
  <1>1. CASE UNCHANGED vars
    BY <1>1, <1>D DEF vars
  <1>2. ASSUME NEW r \in Rcpts, NEW a \in Acs, XmitBegin(r, a) PROVE SlAgree'
    <2>1. UNCHANGED <<kind, sleeping>> /\ (r \in Stas => Known(r))
      BY <1>2 DEF XmitBegin, Known
    <2>2. CASE Dozes(r) /\ XmitBuffers(r, a)
      <3>1. sleep_q' = [sleep_q EXCEPT ![r] = Append(@, a)]
        BY <2>2 DEF XmitBuffers
      <3>2. \A t \in Stas : t \in sta_dz_bitmap' <=> t \in sta_dz_bitmap
        BY <1>0, <2>2 DEF XmitBuffers
      <3>3. \A t \in Rcpts \ {r} : sleep_q'[t] = sleep_q[t]
        BY <1>T, <3>1
      <3>4. CASE r = Bmc
        <4>1. \A t \in Stas : sleep_q'[t] = sleep_q[t] /\ (Known(t)' <=> Known(t))
          BY <1>0, <2>1, <3>3, <3>4 DEF Known
        <4> QED
          BY <2>1, <3>2, <4>1 DEF SlAgree
      <3>5. CASE r \in Stas
        <4>1. r \in sleeping /\ r \in sta_dz_bitmap
          BY <1>0, <2>2, <3>5 DEF Dozes
        <4> QED
          BY <1>0, <1>O, <2>1, <3>2, <3>3, <3>5, <4>1
      <3> QED
        BY <3>4, <3>5 DEF Rcpts
    <2>3. CASE UNCHANGED <<bits, beacon, dozing>>
      BY <1>D, <2>1, <2>3
    <2> QED
      BY <1>2, <2>2, <2>3 DEF XmitBegin
  <1>3. CASE XmitDirect \/ XmitEnqueue
    BY <1>3, <1>D DEF XmitDirect, XmitEnqueue
  <1>4. ASSUME NEW v \in Servqs, XmitTasklet(v) PROVE SlAgree'
    BY <1>4, <1>D DEF XmitTasklet
  <1>5. ASSUME NEW s \in Stas, NEW pwr \in BOOLEAN, NEW qos \in BOOLEAN, NEW a \in Acs,
               RxData(s, pwr, qos, a)
        PROVE  SlAgree'
    <2>1. UNCHANGED kind /\ Known(s)
      BY <1>5, Zenon DEF RxData, Known
    <2>2. \/ stop_sta_xmit(s)
          \/ wakeup_sta_to_xmit("rx", s, Next1(qos))
          \/ UNCHANGED <<sleeping, bits, dozing>>
      BY <1>5, Zenon DEF RxData
    <2>3. CASE stop_sta_xmit(s)
      <3>1. /\ sleeping' = sleeping \cup {s}
            /\ sta_dz_bitmap' = sta_dz_bitmap \cup {s} \cup {r \in {Bmc} : Parked(Bmc) # << >>}
        BY <2>3, Zenon DEF stop_sta_xmit
      <3>2. StopMoves(s, Parked(s), Parked(Bmc))
        BY <2>3, StopEffect
      <3>3. \A t \in Rcpts \ {s, Bmc} : sleep_q'[t] = sleep_q[t]
        BY <3>2 DEF StopMoves
      <3> QED
        BY <1>0, <1>O, <2>1, <3>1, <3>3
    <2>4. CASE wakeup_sta_to_xmit("rx", s, Next1(qos))
      BY <1>V, <2>1, <2>4
    <2>5. CASE UNCHANGED <<sleeping, bits, dozing>>
      BY <1>D, <2>1, <2>5
    <2> QED
      BY <2>2, <2>3, <2>4, <2>5
  <1>6. ASSUME NEW s \in Stas, PsPoll(s) PROVE SlAgree'
    <2>1. UNCHANGED <<kind, sleeping, sta_dz_bitmap>> /\ Known(s) /\ s \in sleeping
          /\ s \in sta_dz_bitmap
      BY <1>6, Zenon DEF PsPoll, Known
    <2>2. CASE PsPollFrame(s)
      <3>1. \A x \in Rcpts \ {s} : sleep_q'[x] = sleep_q[x]
        BY <2>2, PollEffect
      <3> QED
        BY <1>0, <1>O, <2>1, <3>1
    <2>3. CASE UNCHANGED dozing
      BY <1>S, <2>1, <2>3 DEF dozing
    <2> QED
      BY <1>6, <2>2, <2>3, Zenon DEF PsPoll
  <1>7. ASSUME NEW s \in Stas, rtw_free_stainfo(s) PROVE SlAgree'
    <2>1. /\ kind' = [kind EXCEPT ![s] = "none"] /\ sleep_q' = [sleep_q EXCEPT ![s] = << >>]
          /\ sta_dz_bitmap' = sta_dz_bitmap \ {s} /\ UNCHANGED sleeping
      BY <1>7 DEF rtw_free_stainfo
    <2>2. kind'[s] = "none" /\ sleep_q'[s] = << >> /\ s \notin sta_dz_bitmap'
      BY <1>0, <1>T, <2>1
    <2>3. \A t \in Stas \ {s} : /\ kind'[t] = kind[t] /\ sleep_q'[t] = sleep_q[t]
                                /\ t \in sta_dz_bitmap' <=> t \in sta_dz_bitmap
      BY <1>0, <1>T, <2>1
    <2>4. ~ Known(s)' /\ \A t \in Stas \ {s} : Known(t)' <=> Known(t)
      BY <2>2, <2>3 DEF Known
    <2>5. ASSUME NEW t \in Stas, Known(t)' PROVE (t \in sleeping' <=> t \in sta_dz_bitmap')
      BY <2>1, <2>3, <2>4, <2>5 DEF SlAgree
    <2>6. ASSUME NEW t \in Stas, sleep_q'[t] # << >> PROVE Known(t)' /\ t \in sleeping'
      BY <2>1, <2>2, <2>3, <2>4, <2>6 DEF SlAgree
    <2>7. ASSUME NEW t \in Stas, t \in sta_dz_bitmap' PROVE Known(t)'
      BY <2>2, <2>3, <2>4, <2>7 DEF SlAgree
    <2> QED
      BY <2>5, <2>6, <2>7 DEF SlAgree
  <1>8. ASSUME NEW s \in Stas, expire_timeout_chk(s) PROVE SlAgree'
    BY <1>8, <1>V DEF expire_timeout_chk
  <1>9. ASSUME NEW s \in Stas, NEW k \in Kinds, Associate(s, k) PROVE SlAgree'
    <2>1. /\ kind[s] = "none" /\ kind' = [kind EXCEPT ![s] = k] /\ sleeping' = sleeping \ {s}
          /\ UNCHANGED <<bits, dozing>>
      BY <1>9 DEF Associate
    <2>2. s \notin sta_dz_bitmap /\ sleep_q[s] = << >>
      BY <2>1 DEF SlAgree, Known
    <2>3. \A t \in Stas \ {s} : Known(t)' <=> Known(t)
      BY <1>T, <2>1 DEF Known
    <2>4. UNCHANGED <<sta_dz_bitmap, sleep_q>>
      BY <2>1 DEF bits, dozing
    <2>5. ASSUME NEW t \in Stas, Known(t)' PROVE (t \in sleeping' <=> t \in sta_dz_bitmap')
      BY <2>1, <2>2, <2>3, <2>4, <2>5 DEF SlAgree
    <2>6. ASSUME NEW t \in Stas, sleep_q'[t] # << >> PROVE Known(t)' /\ t \in sleeping'
      BY <2>1, <2>2, <2>3, <2>4, <2>6 DEF SlAgree
    <2>7. ASSUME NEW t \in Stas, t \in sta_dz_bitmap' PROVE Known(t)'
      BY <2>2, <2>3, <2>4, <2>7 DEF SlAgree
    <2> QED
      BY <2>5, <2>6, <2>7 DEF SlAgree
  <1>10. ASSUME NEW c \in {"rx", "timer"}, AfterWakeup(c) PROVE SlAgree'
    BY <1>10, <1>D DEF AfterWakeup
  <1>11. CASE process_wmmps_data
    <2> DEFINE s == rx.sta
    <2>1. UNCHANGED <<kind, sleeping, sta_dz_bitmap>> /\ pc["rx"] = "wmmps"
      BY <1>11, Zenon DEF process_wmmps_data
    <2>2. s \in Stas
      BY <2>1 DEF SlTyped, TyHands
    <2>3. \/ xmit_delivery_enabled_frames(s) /\ s \in sleeping /\ kind[s] \in {"mixed", "uapsd"}
          \/ UNCHANGED dozing
      BY <1>11, Zenon DEF process_wmmps_data
    <2>4. CASE xmit_delivery_enabled_frames(s) /\ s \in sleeping /\ kind[s] \in {"mixed", "uapsd"}
      <3>1. \A x \in Rcpts \ {s} : sleep_q'[x] = sleep_q[x]
        BY <2>2, <2>4, DeliverEffect
      <3>2. Known(s) /\ (s \in sleeping <=> s \in sta_dz_bitmap)
        BY <2>2, <2>4 DEF Known, SlAgree
      <3> QED
        BY <1>0, <1>O, <2>1, <2>2, <2>4, <3>1, <3>2
    <2>5. CASE UNCHANGED dozing
      BY <1>S, <2>1, <2>5 DEF dozing
    <2> QED
      BY <2>3, <2>4, <2>5
  <1>12. CASE PsPollNone
    BY <1>12, <1>S, Zenon DEF PsPollNone
  <1>13. CASE TxGroup
    <2>1. UNCHANGED <<kind, sleeping, bits>>
      BY <1>13 DEF TxGroup
    <2>2. \A x \in Rcpts \ {Bmc} : sleep_q'[x] = sleep_q[x]
      BY <1>13, GroupEffect
    <2>3. \A t \in Stas : sleep_q'[t] = sleep_q[t] /\ (Known(t)' <=> Known(t))
      BY <1>0, <2>1, <2>2 DEF Known
    <2> QED
      BY <2>1, <2>3 DEF SlAgree, bits
  <1>14. CASE TxBeacon \/ ChkHiq \/ ChkHiqAgain \/ HiqDrains
    BY <1>14, <1>D DEF TxBeacon, ChkHiq, ChkHiqAgain, HiqDrains
  <1>15. CASE ChkHiqEmpty
    <2>1. UNCHANGED <<kind, sleeping, sleep_q>> /\ sta_dz_bitmap' = sta_dz_bitmap \ {Bmc}
      BY <1>15 DEF ChkHiqEmpty, dozing
    <2> QED
      BY <1>0, <1>S, <2>1
  <1> QED
    BY <1>1, <1>2, <1>3, <1>4, <1>5, <1>6, <1>7, <1>8, <1>9, <1>10, <1>11, <1>12, <1>13, <1>14,
       <1>15 DEF Next

\* No frame that may not pass comes to the tx_servqs of a dozing station: rtw_xmit
\* has seen that the receiver is awake, and one processor keeps it awake.
LEMMA SparedNext ==
  ~ Smp /\ SlTyped /\ SlTyped' /\ Fits' /\ SlOrder /\ SlCounts /\ SlCounts' /\ SlAgree /\ SlSpared
    /\ [Next]_vars => SlSpared'
  <1> SUFFICES ASSUME ~ Smp, SlTyped, SlTyped', Fits', SlOrder, SlCounts, SlCounts', SlAgree,
                      SlSpared, [Next]_vars
               PROVE  SlSpared'
    OBVIOUS
  <1>0. /\ Bmc \in Rcpts /\ Stas \subseteq Rcpts /\ Bmc \notin Stas
        /\ <<Bmc, "be">> \in Servqs /\ \A s \in Stas, a \in Acs : <<s, a>> \in Servqs
    BY SlQueues DEF Rcpts
  <1>T. /\ sta_pending \in [Servqs -> Seq(Passes)] /\ sta_pending' \in [Servqs -> Seq(Passes)]
        /\ kind \in [Stas -> Kinds \cup {"none"}] /\ TyQueues
    BY DEF SlTyped, TyQueues, TyStations
  \* Nobody begins to doze, and no frame comes that may not pass.
  <1>O. ASSUME \A t \in Stas : Known(t)' /\ t \in sleeping' => Known(t) /\ t \in sleeping,
               sta_dz_bitmap' # {} => sta_dz_bitmap # {},
               \A v \in Servqs : NoPlain(sta_pending[v]) => NoPlain(sta_pending'[v])
        PROVE  SlSpared'
    <2>1. ASSUME NEW t \in Stas, NEW a \in Acs, Known(t)' /\ t \in sleeping'
          PROVE  NoPlain(sta_pending'[<<t, a>>])
      BY <1>0, <1>O, <2>1 DEF SlSpared
    <2>2. ASSUME sta_dz_bitmap' # {} PROVE NoPlain(sta_pending'[<<Bmc, "be">>])
      BY <1>0, <1>O, <2>2 DEF SlSpared
    <2>3. \A t \in Stas, a \in Acs :
             Known(t)' /\ t \in sleeping' => NoPlain(sta_pending[<<t, a>>])'
      BY <2>1 DEF NoPlain
    <2>4. sta_dz_bitmap' # {} => NoPlain(sta_pending[<<Bmc, "be">>])'
      BY <2>2 DEF NoPlain
    <2> QED
      BY <2>3, <2>4 DEF SlSpared
  <1>K. UNCHANGED <<kind, sleeping>>
          => \A t \in Stas : Known(t)' /\ t \in sleeping' => Known(t) /\ t \in sleeping
    BY DEF Known
  <1>Q. UNCHANGED queues => \A v \in Servqs : NoPlain(sta_pending[v]) => NoPlain(sta_pending'[v])
    BY DEF queues
  <1>D. ASSUME UNCHANGED <<kind, sleeping, sta_dz_bitmap, queues>> PROVE SlSpared'
    <2>1. \A t \in Stas : Known(t)' /\ t \in sleeping' => Known(t) /\ t \in sleeping
      BY <1>D, <1>K
    <2>2. \A v \in Servqs : NoPlain(sta_pending[v]) => NoPlain(sta_pending'[v])
      BY <1>D, <1>Q
    <2> QED
      BY <1>D, <1>O, <2>1, <2>2
  <1>V. ASSUME NEW s \in Stas, NEW c, NEW l, wakeup_sta_to_xmit(c, s, l), UNCHANGED kind
        PROVE  SlSpared'
    <2>1. s \notin sleeping'
          /\ \A t \in Stas \ {s} : t \in sleeping' <=> t \in sleeping
      BY <1>V, WakeBits
    <2>2. sta_dz_bitmap' \subseteq sta_dz_bitmap
      BY <1>V, WakeBits
    <2>3. WakeMoves(s, GroupOf)
      BY <1>V, WakeEffect
    <2>4. \A v \in Servqs : NoPlain(sta_pending[v]) => NoPlain(sta_pending'[v])
      BY <2>3 DEF WakeMoves
    <2>5. \A t \in Stas : Known(t)' /\ t \in sleeping' => Known(t) /\ t \in sleeping
      BY <1>V, <2>1 DEF Known
    <2> QED
      BY <1>O, <2>2, <2>4, <2>5
  <1>1. CASE UNCHANGED vars
    BY <1>1, <1>D DEF vars, bits
  <1>2. ASSUME NEW r \in Rcpts, NEW a \in Acs, XmitBegin(r, a) PROVE SlSpared'
    <2>1. UNCHANGED <<kind, sleeping, queues>>
      BY <1>2 DEF XmitBegin
    <2>2. CASE Dozes(r) /\ XmitBuffers(r, a)
      <3>1. sta_dz_bitmap' # {} => sta_dz_bitmap # {}
        BY <2>2 DEF XmitBuffers, Dozes
      <3> QED
        BY <1>K, <1>O, <1>Q, <2>1, <3>1
    <2>3. CASE UNCHANGED <<bits, beacon, dozing>>
      BY <1>D, <2>1, <2>3 DEF bits
    <2> QED
      BY <1>2, <2>2, <2>3 DEF XmitBegin
  <1>3. CASE XmitDirect
    BY <1>3, <1>D DEF XmitDirect, bits
  <1>4. CASE XmitEnqueue
    <2> DEFINE r == xmit.to
               a == xmit.ac
    <2>1. /\ xmit # NoXmit /\ Classify(r, <<a>>, "plain")
          /\ UNCHANGED <<kind, sleeping, sta_dz_bitmap>>
      BY <1>4 DEF XmitEnqueue, bits
    <2>2. ~ Dozes(r) /\ (r \in Stas => Known(r)) /\ <<r, a>> \in Servqs
      BY <2>1 DEF SlOrder, SlTyped, TyHands
    <2>3. r \in Rcpts /\ a \in Acs /\ (r = Bmc => a = "be") /\ <<a>> \in Seq(Acs)
      BY <2>2, SlQueues DEF Servqs, Rcpts
    <2>4. r = Bmc => <<a>> \in Seq({"be"})
      BY <2>3
    <2>5. \A v \in Servqs : v[1] # r => sta_pending'[v] = sta_pending[v]
      <3>0. "plain" \in Passes
        BY DEF Passes
      <3> HIDE DEF r, a
      <3> QED
        BY <1>T, <2>1, <2>3, <2>4, <3>0, Classified
    <2> HIDE DEF r, a
    <2>6. ASSUME NEW t \in Stas, NEW b \in Acs, Known(t)' /\ t \in sleeping'
          PROVE  NoPlain(sta_pending'[<<t, b>>])
      <3>1. Known(t) /\ t \in sleeping
        BY <2>1, <2>6 DEF Known
      <3>2. t # r
        BY <1>0, <2>2, <3>1 DEF Dozes, SlAgree
      <3> QED
        BY <1>0, <2>5, <3>1, <3>2 DEF SlSpared
    <2>7. ASSUME sta_dz_bitmap' # {} PROVE NoPlain(sta_pending'[<<Bmc, "be">>])
      <3>1. r # Bmc
        BY <2>1, <2>2, <2>7 DEF Dozes
      <3> QED
        BY <1>0, <2>1, <2>5, <2>7, <3>1 DEF SlSpared
    <2>8. \A t \in Stas, b \in Acs :
             Known(t)' /\ t \in sleeping' => NoPlain(sta_pending[<<t, b>>])'
      BY <2>6 DEF NoPlain
    <2>9. sta_dz_bitmap' # {} => NoPlain(sta_pending[<<Bmc, "be">>])'
      BY <2>7 DEF NoPlain
    <2> QED
      BY <2>8, <2>9 DEF SlSpared
  <1>5. ASSUME NEW v \in Servqs, XmitTasklet(v) PROVE SlSpared'
    <2>1. /\ sta_pending' = [sta_pending EXCEPT ![v] = Tail(@)] /\ sta_pending[v] # << >>
          /\ UNCHANGED <<kind, sleeping, sta_dz_bitmap>>
      BY <1>5 DEF XmitTasklet, bits
    <2>2. ASSUME NEW x \in Servqs, NoPlain(sta_pending[x]) PROVE NoPlain(sta_pending'[x])
      <3>1. CASE x = v
        <4>1. sta_pending'[x] = Tail(sta_pending[v]) /\ sta_pending[v] \in Seq(Passes)
          BY <1>T, <2>1, <3>1
        <4>2. \A i \in 1 .. Len(sta_pending[v]) : sta_pending[v][i] # "plain"
          BY <2>2, <3>1, <4>1 DEF NoPlain
        <4>3. /\ Len(Tail(sta_pending[v])) = Len(sta_pending[v]) - 1
              /\ Tail(sta_pending[v]) \in Seq(Passes)
              /\ \A i \in 1 .. Len(Tail(sta_pending[v])) :
                    Tail(sta_pending[v])[i] = sta_pending[v][i + 1]
          BY <2>1, <4>1, HeadTailProperties
        <4>4. \A i \in 1 .. Len(Tail(sta_pending[v])) : Tail(sta_pending[v])[i] # "plain"
          BY <4>1, <4>2, <4>3
        <4> QED
          BY <4>1, <4>3, <4>4 DEF NoPlain
      <3>2. CASE x # v
        BY <1>T, <2>1, <2>2, <3>2
      <3> QED
        BY <3>1, <3>2
    <2> QED
      BY <1>K, <1>O, <2>1, <2>2
  <1>6. ASSUME NEW s \in Stas, NEW pwr \in BOOLEAN, NEW qos \in BOOLEAN, NEW a \in Acs,
               RxData(s, pwr, qos, a)
        PROVE  SlSpared'
    <2>1. UNCHANGED kind /\ Known(s)
      BY <1>6, Zenon DEF RxData, Known
    <2>2. \/ stop_sta_xmit(s)
          \/ wakeup_sta_to_xmit("rx", s, Next1(qos))
          \/ UNCHANGED <<sleeping, bits, queues>>
      BY <1>6, Zenon DEF RxData
    <2>3. CASE stop_sta_xmit(s)
      <3>1. sleeping' = sleeping \cup {s}
        BY <2>3, Zenon DEF stop_sta_xmit
      <3>2. StopMoves(s, Parked(s), Parked(Bmc))
        BY <2>3, StopEffect
      <3>3. /\ \A v \in Servqs : v[1] \in {s, Bmc} => NoPlain(sta_pending'[v])
            /\ \A v \in Servqs : v[1] \notin {s, Bmc} => sta_pending'[v] = sta_pending[v]
        BY <3>2 DEF StopMoves
      <3>4. ASSUME NEW t \in Stas, NEW b \in Acs, Known(t)' /\ t \in sleeping'
            PROVE  NoPlain(sta_pending[<<t, b>>])'
        <4>1. CASE t = s
          BY <1>0, <3>3, <4>1 DEF NoPlain
        <4>2. CASE t # s
          <5>1. Known(t) /\ t \in sleeping /\ sta_pending'[<<t, b>>] = sta_pending[<<t, b>>]
            BY <1>0, <2>1, <3>1, <3>3, <3>4, <4>2 DEF Known
          <5> QED
            BY <5>1 DEF SlSpared, NoPlain
        <4> QED
          BY <4>1, <4>2
      <3>5. NoPlain(sta_pending[<<Bmc, "be">>])'
        BY <1>0, <3>3 DEF NoPlain
      <3> QED
        BY <3>4, <3>5 DEF SlSpared
    <2>4. CASE wakeup_sta_to_xmit("rx", s, Next1(qos))
      BY <1>V, <2>1, <2>4
    <2>5. CASE UNCHANGED <<sleeping, bits, queues>>
      BY <1>D, <2>1, <2>5 DEF bits
    <2> QED
      BY <2>2, <2>3, <2>4, <2>5
  <1>7. ASSUME NEW s \in Stas, PsPoll(s) PROVE SlSpared'
    <2>1. UNCHANGED <<kind, sleeping, sta_dz_bitmap>>
      BY <1>7, Zenon DEF PsPoll
    <2>2. CASE PsPollFrame(s)
      <3>1. \A v \in Servqs : NoPlain(sta_pending[v]) => NoPlain(sta_pending'[v])
        BY <2>2, PollEffect
      <3> QED
        BY <1>K, <1>O, <2>1, <3>1
    <2>3. CASE UNCHANGED queues
      BY <1>D, <2>1, <2>3
    <2> QED
      BY <1>7, <2>2, <2>3, Zenon DEF PsPoll
  <1>8. ASSUME NEW s \in Stas, rtw_free_stainfo(s) PROVE SlSpared'
    <2>1. /\ kind' = [kind EXCEPT ![s] = "none"] /\ UNCHANGED sleeping
          /\ sta_dz_bitmap' = sta_dz_bitmap \ {s}
          /\ sta_pending' = [v \in Servqs |-> IF v[1] = s THEN << >> ELSE sta_pending[v]]
      BY <1>8 DEF rtw_free_stainfo
    <2>2. \A t \in Stas : Known(t)' /\ t \in sleeping' => Known(t) /\ t \in sleeping
      BY <1>T, <2>1 DEF Known
    <2>3. \A v \in Servqs : NoPlain(sta_pending[v]) => NoPlain(sta_pending'[v])
      BY <2>1 DEF NoPlain
    <2> QED
      BY <1>O, <2>1, <2>2, <2>3
  <1>9. ASSUME NEW s \in Stas, expire_timeout_chk(s) PROVE SlSpared'
    BY <1>9, <1>V DEF expire_timeout_chk
  <1>10. ASSUME NEW s \in Stas, NEW k \in Kinds, Associate(s, k) PROVE SlSpared'
    <2>1. /\ kind' = [kind EXCEPT ![s] = k] /\ sleeping' = sleeping \ {s}
          /\ UNCHANGED <<sta_dz_bitmap, queues>>
      BY <1>10 DEF Associate, bits
    <2>2. \A t \in Stas : Known(t)' /\ t \in sleeping' => Known(t) /\ t \in sleeping
      BY <1>T, <2>1 DEF Known
    <2> QED
      BY <1>O, <1>Q, <2>1, <2>2
  <1>11. ASSUME NEW c \in {"rx", "timer"}, AfterWakeup(c) PROVE SlSpared'
    BY <1>11, <1>D DEF AfterWakeup, bits
  <1>12. CASE process_wmmps_data
    <2>1. UNCHANGED <<kind, sleeping, sta_dz_bitmap>> /\ pc["rx"] = "wmmps"
      BY <1>12, Zenon DEF process_wmmps_data
    <2>2. rx.sta \in Stas
      BY <2>1 DEF SlTyped, TyHands
    <2>3. xmit_delivery_enabled_frames(rx.sta) \/ UNCHANGED queues
      BY <1>12, Zenon DEF process_wmmps_data
    <2>4. CASE xmit_delivery_enabled_frames(rx.sta)
      <3>1. \A v \in Servqs : NoPlain(sta_pending[v]) => NoPlain(sta_pending'[v])
        BY <2>2, <2>4, DeliverEffect
      <3> QED
        BY <1>K, <1>O, <2>1, <3>1
    <2> QED
      BY <1>D, <2>1, <2>3, <2>4
  <1>13. CASE PsPollNone
    BY <1>13, <1>D, Zenon DEF PsPollNone
  <1>14. CASE TxGroup
    <2>1. UNCHANGED <<kind, sleeping, sta_dz_bitmap>>
      BY <1>14 DEF TxGroup, bits
    <2>2. \A v \in Servqs : NoPlain(sta_pending[v]) => NoPlain(sta_pending'[v])
      BY <1>14, GroupEffect
    <2> QED
      BY <1>K, <1>O, <2>1, <2>2
  <1>15. CASE TxBeacon \/ ChkHiq \/ ChkHiqAgain \/ HiqDrains
    BY <1>15, <1>D DEF TxBeacon, ChkHiq, ChkHiqAgain, HiqDrains, bits
  <1>16. CASE ChkHiqEmpty
    <2>1. UNCHANGED <<kind, sleeping, queues>> /\ sta_dz_bitmap' = sta_dz_bitmap \ {Bmc}
      BY <1>16 DEF ChkHiqEmpty
    <2> QED
      BY <1>K, <1>O, <1>Q, <2>1
  <1> QED
    BY <1>1, <1>2, <1>3, <1>4, <1>5, <1>6, <1>7, <1>8, <1>9, <1>10, <1>11, <1>12, <1>13, <1>14,
       <1>15, <1>16 DEF Next

\* Nobody dozes at the start.
LEMMA DozingInit == Init => SlOrder /\ SlDozing
  <1> SUFFICES ASSUME Init PROVE SlOrder /\ SlDozing
    OBVIOUS
  <1>1. xmit = NoXmit /\ pc["rx"] = "idle" /\ sta_dz_bitmap = {} /\ sleeping = {}
    BY DEF Init
  <1>2. /\ \A r \in Rcpts : sleepq_len[r] = 0 /\ sleep_q[r] = << >>
        /\ \A s \in Stas : s \in Rcpts
    BY DEF Init, Rcpts
  <1> QED
    BY <1>1, <1>2 DEF SlOrder, SlDozing, SlCounts, SlAgree, SlSpared

\* The inductive invariant for one processor.
SlServed == SlTyped /\ PoolConserved /\ SlOrder /\ SlDozing

\* It is inductive: the pool gives the bound, the bound the counters, the counters
\* the records, the records the queues.
LEMMA ServedNext == ~ Smp /\ SlServed /\ [Next]_vars => SlServed'
  <1> SUFFICES ASSUME ~ Smp, SlServed, [Next]_vars PROVE SlServed'
    OBVIOUS
  <1>1. SlTyped' /\ PoolConserved' /\ SlOrder'
    BY SlTypedNext, PoolNext, OrderNext DEF SlServed
  <1>2. Fits'
    BY <1>1, FitsNext
  <1>3. SlCounts'
    BY <1>1, <1>2, CountsNext DEF SlServed, SlDozing
  <1>4. SlAgree'
    BY <1>1, <1>2, <1>3, AgreeNext DEF SlServed, SlDozing
  <1>5. SlSpared'
    BY <1>1, <1>2, <1>3, SparedNext DEF SlServed, SlDozing
  <1> QED
    BY <1>1, <1>3, <1>4, <1>5 DEF SlServed, SlDozing

\* On one processor, for any set of stations, WMM-PS classes, pool and counter
\* width: sleeping and sta_dz_bitmap agree, nothing stays buffered for who is awake,
\* and only frames that were asked for or announced wait for the chip (stop_sta_xmit,
\* wakeup_sta_to_xmit).
THEOREM DozersAlwaysServed ==
  ASSUME ~ Smp
  PROVE  Spec => []DozersServed
  <1>1. Init => SlServed
    BY SlTypedInit, PoolInit, DozingInit DEF SlServed
  <1>2. SlServed /\ [Next]_vars => SlServed'
    BY ServedNext
  <1>3. SlServed => DozersServed
    <2> SUFFICES ASSUME SlServed PROVE DozersServed
      OBVIOUS
    <2>1. sta_pending \in [Servqs -> Seq(Passes)] /\ SlAgree /\ SlSpared
      BY DEF SlServed, SlTyped, TyQueues, SlDozing
    <2>2. SleepAgrees
      BY <2>1 DEF SleepAgrees, SlAgree
    <2>3. \A v \in Servqs : NoPlain(sta_pending[v]) => Plain(v) = << >>
      BY <2>1, PlainStays
    <2>4. DozersSpared
      BY <2>1, <2>3, SlQueues DEF DozersSpared, SlSpared
    <2> QED
      BY <2>2, <2>4 DEF DozersServed
  <1> QED
    BY <1>1, <1>2, <1>3, PTL DEF Spec

-----------------------------------------------------------------------------
(***************************************************************************)
(* No mixed stations: the second counter, the TIM and the beacon.          *)
(***************************************************************************)
\* Without stations that have some of their categories delivery-enabled: the
\* second counter counts all frames or none, the TIM names who has frames, and
\* the beacon shows it.
SlAcLen == \A s \in Stas : sleepq_ac_len[s] = IF kind[s] = "uapsd" THEN Len(sleep_q[s]) ELSE 0
\* The TIM names exactly the stations with frames,
SlTim == \A s \in Stas : s \in tim_bitmap <=> sleep_q[s] # << >>
\* ... and the beacon shows them.
SlShown == \A s \in Stas : s \in tim_bitmap => s \in bcn_tim

\* Without mixed stations all categories of a station are told and counted alike.
LEMMA Unmixed ==
  ASSUME "mixed" \notin Kinds, SlTyped, NEW s \in Stas
  PROVE  /\ kind[s] \in {"legacy", "uapsd", "none"}
         /\ \A a \in Acs : Told(s, a)
         /\ \A q \in Seq(Acs) :
               CountWmmps(s, q) = IF kind[s] = "uapsd" THEN Len(q) ELSE 0
         /\ Wmmps(s, "be") <=> kind[s] = "uapsd"
         /\ kind[s] = "uapsd" => Delivery(s) = Acs
  <1>1. kind[s] \in {"legacy", "uapsd", "none"}
    BY ApSleepAssumption DEF SlTyped, TyStations, AllKinds
  <1>2. \A a \in Acs : Wmmps(s, a) <=> kind[s] = "uapsd"
    BY <1>1 DEF Wmmps
  <1>3. \A a \in Acs : Told(s, a)
    BY <1>2 DEF Told, has_legacy_ac
  <1>4. /\ kind[s] = "uapsd" => Delivery(s) = Acs
        /\ kind[s] # "uapsd" => Delivery(s) = {}
    BY <1>2 DEF Delivery
  <1>5. ASSUME NEW q \in Seq(Acs)
        PROVE  CountWmmps(s, q) = IF kind[s] = "uapsd" THEN Len(q) ELSE 0
    <2>1. CASE kind[s] = "uapsd"
      BY <1>4, <2>1, OnlyAll DEF CountWmmps
    <2>2. CASE kind[s] # "uapsd"
      <3>1. Only(q, {}) = << >>
        BY OnlyAll
      <3>2. Len(<< >>) = 0
        OBVIOUS
      <3>3. CountWmmps(s, q) = Len(Only(q, {}))
        BY <1>4, <2>2 DEF CountWmmps
      <3> QED
        BY <2>2, <3>1, <3>2, <3>3
    <2> QED
      BY <2>1, <2>2
  <1>6. Wmmps(s, "be") <=> kind[s] = "uapsd"
    BY <1>1 DEF Wmmps
  <1> QED
    BY <1>1, <1>3, <1>4, <1>5, <1>6

\* The counter of one station, when frames come to it and go.
LEMMA AcLenMoves ==
  ASSUME "mixed" \notin Kinds, SlTyped, SlTyped', Fits', SlAcLen, NEW s \in Stas,
         NEW q \in Seq(Acs)
  PROVE  /\ Len(sleep_q'[s]) = Len(sleep_q[s]) + Len(q)
              => (sleepq_ac_len[s] + CountWmmps(s, q)) % W
                   = IF kind[s] = "uapsd" THEN Len(sleep_q'[s]) ELSE 0
         /\ Len(sleep_q'[s]) = Len(sleep_q[s]) - Len(q)
              => (sleepq_ac_len[s] - CountWmmps(s, q)) % W
                   = IF kind[s] = "uapsd" THEN Len(sleep_q'[s]) ELSE 0
  <1> DEFINE l == Len(sleep_q[s])
             k == Len(sleep_q'[s])
             n == Len(q)
  <1>1. l \in Int /\ k \in 0 .. W - 2 /\ n \in Int /\ W \in Nat /\ W > 1
    BY SlMod DEF SlTyped, TyBuffers, Fits, Rcpts
  <1>2. CountWmmps(s, q) = IF kind[s] = "uapsd" THEN n ELSE 0
    BY Unmixed
  <1>3. sleepq_ac_len[s] = IF kind[s] = "uapsd" THEN l ELSE 0
    BY DEF SlAcLen
  <1> HIDE DEF l, k, n
  <1>4. k \in 0 .. W - 1 /\ 0 \in 0 .. W - 1
    BY <1>1
  <1>5. k = l + n => (l + n) % W = k
    BY <1>1, <1>4, Exact
  <1>6. k = l - n => (l - n) % W = k
    BY <1>1, <1>4, ExactLess
  <1>7. (0 + 0) % W = 0 /\ (0 - 0) % W = 0
    BY <1>4, SlMod
  <1>8. CASE kind[s] = "uapsd"
    BY <1>2, <1>3, <1>5, <1>6, <1>8 DEF l, k, n
  <1>9. CASE kind[s] # "uapsd"
    BY <1>2, <1>3, <1>7, <1>9
  <1> QED
    BY <1>8, <1>9

\* Every step keeps sleepq_ac_len.
LEMMA AcLenNext ==
  "mixed" \notin Kinds /\ SlTyped /\ SlTyped' /\ Fits' /\ SlAgree /\ SlAcLen /\ [Next]_vars
    => SlAcLen'
  <1> SUFFICES ASSUME "mixed" \notin Kinds, SlTyped, SlTyped', Fits', SlAgree, SlAcLen, [Next]_vars
               PROVE  SlAcLen'
    OBVIOUS
  <1>0. Bmc \in Rcpts /\ Stas \subseteq Rcpts /\ Bmc \notin Stas
    BY SlQueues DEF Rcpts
  <1>T. /\ sleep_q \in [Rcpts -> Seq(Acs)] /\ sleep_q' \in [Rcpts -> Seq(Acs)]
        /\ sleepq_ac_len \in [Stas -> 0 .. W - 1] /\ kind \in [Stas -> Kinds \cup {"none"}]
    BY DEF SlTyped, TyBuffers, TyStations
  <1>O. ASSUME NEW s \in Stas, NEW k, sleepq_ac_len' = [sleepq_ac_len EXCEPT ![s] = k],
               k = (IF kind[s] = "uapsd" THEN Len(sleep_q'[s]) ELSE 0), UNCHANGED kind,
               \A t \in Stas \ {s} : sleep_q'[t] = sleep_q[t]
        PROVE  SlAcLen'
    <2> SUFFICES ASSUME NEW t \in Stas
                 PROVE  sleepq_ac_len'[t] = IF kind[t] = "uapsd" THEN Len(sleep_q'[t]) ELSE 0
      BY <1>O DEF SlAcLen
    <2>1. CASE t = s
      BY <1>T, <1>O, <2>1
    <2>2. CASE t # s
      <3>1. sleepq_ac_len'[t] = sleepq_ac_len[t] /\ sleep_q'[t] = sleep_q[t]
        BY <1>T, <1>O, <2>2
      <3> QED
        BY <3>1 DEF SlAcLen
    <2> QED
      BY <2>1, <2>2
  <1>S. ASSUME UNCHANGED <<kind, sleepq_ac_len>>, \A t \in Stas : sleep_q'[t] = sleep_q[t]
        PROVE  SlAcLen'
    BY <1>S DEF SlAcLen
  <1>D. UNCHANGED <<kind, dozing>> => SlAcLen'
    BY <1>S DEF dozing
  <1>V. ASSUME NEW s \in Stas, NEW c, NEW l, wakeup_sta_to_xmit(c, s, l), UNCHANGED kind
        PROVE  SlAcLen'
    <2> DEFINE q == sleep_q[s]
               k == (sleepq_ac_len[s] - CountWmmps(s, q)) % W
    <2>1. sleepq_ac_len' = [sleepq_ac_len EXCEPT ![s] = k]
      BY <1>V, Zenon DEF wakeup_sta_to_xmit
    <2>2. WakeMoves(s, GroupOf)
      BY <1>V, WakeEffect
    <2>3. sleep_q'[s] = << >> /\ \A t \in Rcpts \ {s, Bmc} : sleep_q'[t] = sleep_q[t]
      BY <2>2 DEF WakeMoves
    <2>4. q \in Seq(Acs) /\ Len(sleep_q'[s]) = Len(sleep_q[s]) - Len(q)
      BY <1>0, <1>T, <2>3
    <2>5. k = IF kind[s] = "uapsd" THEN Len(sleep_q'[s]) ELSE 0
      BY <2>4, AcLenMoves
    <2>6. \A t \in Stas \ {s} : sleep_q'[t] = sleep_q[t]
      BY <1>0, <2>3
    <2> HIDE DEF k
    <2> QED
      BY <1>O, <1>V, <2>1, <2>5, <2>6
  <1>1. CASE UNCHANGED vars
    BY <1>1, <1>D DEF vars
  <1>2. ASSUME NEW r \in Rcpts, NEW a \in Acs, XmitBegin(r, a) PROVE SlAcLen'
    <2>1. UNCHANGED kind
      BY <1>2 DEF XmitBegin
    <2>2. CASE XmitBuffers(r, a)
      <3>1. sleep_q' = [sleep_q EXCEPT ![r] = Append(@, a)]
        BY <2>2 DEF XmitBuffers
      <3>2. \A t \in Rcpts \ {r} : sleep_q'[t] = sleep_q[t]
        BY <1>T, <3>1
      <3>3. CASE r = Bmc
        <4>1. UNCHANGED sleepq_ac_len
          BY <2>2, <3>3 DEF XmitBuffers
        <4> QED
          BY <1>0, <1>S, <2>1, <3>2, <3>3, <4>1
      <3>4. CASE r \in Stas
        <4> DEFINE k == (sleepq_ac_len[r] + CountWmmps(r, <<a>>)) % W
        <4>1. sleepq_ac_len' = [sleepq_ac_len EXCEPT ![r] = k]
          BY <1>0, <2>2, <3>4, Zenon DEF XmitBuffers
        <4>2. <<a>> \in Seq(Acs) /\ Len(sleep_q'[r]) = Len(sleep_q[r]) + Len(<<a>>)
          BY <1>T, <3>1
        <4>3. k = IF kind[r] = "uapsd" THEN Len(sleep_q'[r]) ELSE 0
          BY <3>4, <4>2, AcLenMoves
        <4>4. \A t \in Stas \ {r} : sleep_q'[t] = sleep_q[t]
          BY <1>0, <3>2
        <4> HIDE DEF k
        <4> QED
          BY <1>O, <2>1, <3>4, <4>1, <4>3, <4>4
      <3> QED
        BY <3>3, <3>4 DEF Rcpts
    <2>3. CASE UNCHANGED <<bits, beacon, dozing>>
      BY <1>D, <2>1, <2>3
    <2> QED
      BY <1>2, <2>2, <2>3 DEF XmitBegin
  <1>3. CASE XmitDirect \/ XmitEnqueue
    BY <1>3, <1>D DEF XmitDirect, XmitEnqueue
  <1>4. ASSUME NEW v \in Servqs, XmitTasklet(v) PROVE SlAcLen'
    BY <1>4, <1>D DEF XmitTasklet
  <1>5. ASSUME NEW s \in Stas, NEW pwr \in BOOLEAN, NEW qos \in BOOLEAN, NEW a \in Acs,
               RxData(s, pwr, qos, a)
        PROVE  SlAcLen'
    <2>1. UNCHANGED kind
      BY <1>5, Zenon DEF RxData
    <2>2. stop_sta_xmit(s) \/ wakeup_sta_to_xmit("rx", s, Next1(qos)) \/ UNCHANGED dozing
      BY <1>5, Zenon DEF RxData
    <2>3. CASE stop_sta_xmit(s)
      <3> DEFINE q == Parked(s)
                 k == (sleepq_ac_len[s] + CountWmmps(s, q)) % W
      <3>1. sleepq_ac_len' = [sleepq_ac_len EXCEPT ![s] = k]
        BY <2>3, Zenon DEF stop_sta_xmit
      <3>2. StopMoves(s, q, Parked(Bmc))
        BY <2>3, StopEffect
      <3>3. /\ q \in Seq(Acs) /\ sleep_q'[s] = sleep_q[s] \o q
            /\ \A t \in Rcpts \ {s, Bmc} : sleep_q'[t] = sleep_q[t]
        BY <3>2, Zenon DEF StopMoves
      <3> HIDE DEF q
      <3>4. Len(sleep_q'[s]) = Len(sleep_q[s]) + Len(q)
        BY <1>0, <1>T, <3>3, ConcatProperties
      <3>5. k = IF kind[s] = "uapsd" THEN Len(sleep_q'[s]) ELSE 0
        BY <3>3, <3>4, AcLenMoves
      <3>6. \A t \in Stas \ {s} : sleep_q'[t] = sleep_q[t]
        BY <1>0, <3>3
      <3> HIDE DEF k
      <3> QED
        BY <1>O, <2>1, <3>1, <3>5, <3>6
    <2> QED
      BY <1>D, <1>V, <2>1, <2>2, <2>3
  <1>6. ASSUME NEW s \in Stas, PsPoll(s) PROVE SlAcLen'
    <2>1. UNCHANGED kind /\ ~ Wmmps(s, "be")
      BY <1>6, Zenon DEF PsPoll
    <2>2. CASE PsPollFrame(s)
      <3>1. UNCHANGED sleepq_ac_len
        BY <2>2 DEF PsPollFrame
      <3>2. \A x \in Rcpts \ {s} : sleep_q'[x] = sleep_q[x]
        BY <2>2, PollEffect
      <3>3. kind[s] # "uapsd"
        BY <2>1, Unmixed
      <3>4. sleepq_ac_len[s] = 0
        BY <3>3 DEF SlAcLen
      <3>5. sleepq_ac_len' = [sleepq_ac_len EXCEPT ![s] = 0]
        BY <1>T, <3>1, <3>4
      <3>6. \A t \in Stas \ {s} : sleep_q'[t] = sleep_q[t]
        BY <1>0, <3>2
      <3>7. 0 = IF kind[s] = "uapsd" THEN Len(sleep_q'[s]) ELSE 0
        BY <3>3
      <3> QED
        BY <1>O, <2>1, <3>5, <3>6, <3>7
    <2>3. CASE UNCHANGED dozing
      BY <1>D, <2>1, <2>3
    <2> QED
      BY <1>6, <2>2, <2>3, Zenon DEF PsPoll
  <1>7. ASSUME NEW s \in Stas, rtw_free_stainfo(s) PROVE SlAcLen'
    <2>1. /\ kind' = [kind EXCEPT ![s] = "none"] /\ sleep_q' = [sleep_q EXCEPT ![s] = << >>]
          /\ sleepq_ac_len' = [sleepq_ac_len EXCEPT ![s] = 0]
      BY <1>7 DEF rtw_free_stainfo
    <2>2. kind'[s] = "none" /\ sleepq_ac_len'[s] = 0
      BY <1>T, <2>1
    <2>3. \A t \in Stas \ {s} : /\ kind'[t] = kind[t] /\ sleep_q'[t] = sleep_q[t]
                                /\ sleepq_ac_len'[t] = sleepq_ac_len[t]
      BY <1>0, <1>T, <2>1
    <2> QED
      BY <2>2, <2>3 DEF SlAcLen
  <1>8. ASSUME NEW s \in Stas, expire_timeout_chk(s) PROVE SlAcLen'
    BY <1>8, <1>V DEF expire_timeout_chk
  <1>9. ASSUME NEW s \in Stas, NEW k \in Kinds, Associate(s, k) PROVE SlAcLen'
    <2>1. /\ kind[s] = "none" /\ kind' = [kind EXCEPT ![s] = k] /\ UNCHANGED dozing
      BY <1>9 DEF Associate
    <2>2. Len(sleep_q[s]) = 0 /\ sleepq_ac_len[s] = 0
      BY <2>1 DEF SlAgree, SlAcLen, Known
    <2>3. UNCHANGED <<sleep_q, sleepq_ac_len>>
      BY <2>1 DEF dozing
    <2>4. \A t \in Stas \ {s} : kind'[t] = kind[t]
      BY <1>T, <2>1
    <2> QED
      BY <2>2, <2>3, <2>4 DEF SlAcLen
  <1>10. ASSUME NEW c \in {"rx", "timer"}, AfterWakeup(c) PROVE SlAcLen'
    BY <1>10, <1>D DEF AfterWakeup
  <1>11. CASE process_wmmps_data
    <2> DEFINE s == rx.sta
    <2>1. UNCHANGED kind /\ pc["rx"] = "wmmps"
      BY <1>11, Zenon DEF process_wmmps_data
    <2>2. s \in Stas
      BY <2>1 DEF SlTyped, TyHands
    <2>3. \/ xmit_delivery_enabled_frames(s) /\ kind[s] \in {"mixed", "uapsd"}
          \/ UNCHANGED dozing
      BY <1>11, Zenon DEF process_wmmps_data
    <2>4. CASE xmit_delivery_enabled_frames(s) /\ kind[s] \in {"mixed", "uapsd"}
      <3> DEFINE q == Only(sleep_q[s], Delivery(s))
                 p == Only(sleep_q[s], Acs \ Delivery(s))
                 k == (sleepq_ac_len[s] - Len(q)) % W
      <3>1. sleepq_ac_len' = [sleepq_ac_len EXCEPT ![s] = k]
        BY <2>4, Zenon DEF xmit_delivery_enabled_frames
      <3>2. sleep_q'[s] = p /\ \A x \in Rcpts \ {s} : sleep_q'[x] = sleep_q[x]
        BY <2>2, <2>4, DeliverEffect
      <3>3. kind[s] = "uapsd" /\ Delivery(s) = Acs
        BY <2>2, <2>4, Unmixed
      <3>4. sleep_q[s] \in Seq(Acs) /\ Len(sleep_q[s]) \in Nat
        BY <1>0, <1>T, <2>2
      <3>5. Len(q) = Len(sleep_q[s])
        BY <3>3, <3>4, OnlyAll
      <3>6. p = << >>
        <4>1. Acs \cap (Acs \ Delivery(s)) = {}
          BY <3>3
        <4> QED
          BY <3>4, <4>1, OnlyAll
      <3>7. sleepq_ac_len[s] = Len(sleep_q[s])
        BY <2>2, <3>3 DEF SlAcLen
      <3>8. k = 0
        <4>1. sleepq_ac_len[s] - Len(q) = 0
          BY <3>4, <3>5, <3>7
        <4> QED
          BY <4>1, SlMod
      <3>9. k = IF kind[s] = "uapsd" THEN Len(sleep_q'[s]) ELSE 0
        BY <3>2, <3>6, <3>8
      <3>10. \A t \in Stas \ {s} : sleep_q'[t] = sleep_q[t]
        BY <1>0, <3>2
      <3> HIDE DEF k, q, p, s
      <3> QED
        BY <1>O, <2>1, <2>2, <3>1, <3>9, <3>10
    <2> QED
      BY <1>D, <2>1, <2>3, <2>4
  <1>12. CASE PsPollNone
    <2>1. UNCHANGED <<kind, sleep_q, sleepq_ac_len>>
      BY <1>12, Zenon DEF PsPollNone
    <2> QED
      BY <1>S, <2>1
  <1>13. CASE TxGroup
    <2>1. UNCHANGED <<kind, sleepq_ac_len>>
      BY <1>13 DEF TxGroup
    <2>2. \A x \in Rcpts \ {Bmc} : sleep_q'[x] = sleep_q[x]
      BY <1>13, GroupEffect
    <2> QED
      BY <1>0, <1>S, <2>1, <2>2
  <1>14. CASE TxBeacon \/ ChkHiq \/ ChkHiqEmpty \/ ChkHiqAgain \/ HiqDrains
    BY <1>14, <1>D DEF TxBeacon, ChkHiq, ChkHiqEmpty, ChkHiqAgain, HiqDrains
  <1> QED
    BY <1>1, <1>2, <1>3, <1>4, <1>5, <1>6, <1>7, <1>8, <1>9, <1>10, <1>11, <1>12, <1>13, <1>14 DEF Next

\* Every step keeps the TIM.
LEMMA TimNext ==
  "mixed" \notin Kinds /\ SlTyped /\ SlTyped' /\ Fits' /\ SlOrder /\ SlCounts /\ SlCounts'
    /\ SlAgree /\ SlAcLen /\ SlTim /\ [Next]_vars => SlTim'
  <1> SUFFICES ASSUME "mixed" \notin Kinds, SlTyped, SlTyped', Fits', SlOrder, SlCounts, SlCounts',
                      SlAgree, SlAcLen, SlTim, [Next]_vars
               PROVE  SlTim'
    OBVIOUS
  <1>0. Bmc \in Rcpts /\ Stas \subseteq Rcpts /\ Bmc \notin Stas
    BY SlQueues DEF Rcpts
  <1>T. sleep_q \in [Rcpts -> Seq(Acs)] /\ sleep_q' \in [Rcpts -> Seq(Acs)]
    BY DEF SlTyped, TyBuffers
  <1>O. ASSUME NEW s \in Stas, s \in tim_bitmap' <=> sleep_q'[s] # << >>,
               \A t \in Stas \ {s} : /\ sleep_q'[t] = sleep_q[t]
                                     /\ t \in tim_bitmap' <=> t \in tim_bitmap
        PROVE  SlTim'
    BY <1>O DEF SlTim
  <1>S. ASSUME \A t \in Stas : /\ sleep_q'[t] = sleep_q[t]
                               /\ t \in tim_bitmap' <=> t \in tim_bitmap
        PROVE  SlTim'
    BY <1>S DEF SlTim
  <1>D. UNCHANGED <<tim_bitmap, dozing>> => SlTim'
    BY <1>S DEF dozing
  <1>V. ASSUME NEW s \in Stas, NEW c, NEW l, wakeup_sta_to_xmit(c, s, l) PROVE SlTim'
    <2>1. s \notin tim_bitmap' /\ \A t \in Stas \ {s} : t \in tim_bitmap' <=> t \in tim_bitmap
      BY <1>V, WakeBits
    <2>2. WakeMoves(s, GroupOf)
      BY <1>V, WakeEffect
    <2>3. sleep_q'[s] = << >> /\ \A t \in Rcpts \ {s, Bmc} : sleep_q'[t] = sleep_q[t]
      BY <2>2 DEF WakeMoves
    <2> QED
      BY <1>0, <1>O, <2>1, <2>3
  <1>1. CASE UNCHANGED vars
    BY <1>1, <1>D DEF vars, bits
  <1>2. ASSUME NEW r \in Rcpts, NEW a \in Acs, XmitBegin(r, a) PROVE SlTim'
    <2>2. CASE XmitBuffers(r, a)
      <3>1. sleep_q' = [sleep_q EXCEPT ![r] = Append(@, a)]
        BY <2>2 DEF XmitBuffers
      <3>2. (\A t \in Rcpts \ {r} : sleep_q'[t] = sleep_q[t]) /\ sleep_q'[r] # << >>
        <4>1. sleep_q'[r] = Append(sleep_q[r], a) /\ sleep_q[r] \in Seq(Acs)
          BY <1>T, <3>1
        <4>2. Len(sleep_q'[r]) # 0
          BY <4>1
        <4> QED
          BY <1>T, <3>1, <4>2
      <3>3. CASE r = Bmc
        <4>1. tim_bitmap' = tim_bitmap \cup {Bmc}
          BY <2>2, <3>3 DEF XmitBuffers
        <4> QED
          BY <1>0, <1>S, <3>2, <3>3, <4>1
      <3>4. CASE r \in Stas
        <4>1. tim_bitmap' = tim_bitmap \cup {s \in {r} : Told(s, a)}
          BY <1>0, <2>2, <3>4, Zenon DEF XmitBuffers
        <4>2. Told(r, a)
          BY <3>4, Unmixed
        <4>3. tim_bitmap' = tim_bitmap \cup {r}
          BY <4>1, <4>2
        <4> QED
          BY <1>0, <1>O, <3>2, <3>4, <4>3
      <3> QED
        BY <3>3, <3>4 DEF Rcpts
    <2>3. CASE UNCHANGED <<bits, beacon, dozing>>
      BY <1>D, <2>3 DEF bits
    <2> QED
      BY <1>2, <2>2, <2>3 DEF XmitBegin
  <1>3. CASE XmitDirect \/ XmitEnqueue
    BY <1>3, <1>D DEF XmitDirect, XmitEnqueue, bits
  <1>4. ASSUME NEW v \in Servqs, XmitTasklet(v) PROVE SlTim'
    BY <1>4, <1>D DEF XmitTasklet, bits
  <1>5. ASSUME NEW s \in Stas, NEW pwr \in BOOLEAN, NEW qos \in BOOLEAN, NEW a \in Acs,
               RxData(s, pwr, qos, a)
        PROVE  SlTim'
    <2>2. \/ stop_sta_xmit(s)
          \/ wakeup_sta_to_xmit("rx", s, Next1(qos))
          \/ UNCHANGED <<bits, dozing>>
      BY <1>5, Zenon DEF RxData
    <2>3. CASE stop_sta_xmit(s)
      <3> DEFINE q == Parked(s)
                 g == Parked(Bmc)
      <3>1. tim_bitmap' = tim_bitmap
               \cup {t \in {s} : \E i \in DOMAIN q : Told(s, q[i])}
               \cup {r \in {Bmc} : g # << >>}
        BY <2>3, Zenon DEF stop_sta_xmit
      <3>2. StopMoves(s, q, g)
        BY <2>3, StopEffect
      <3>3. /\ q \in Seq(Acs) /\ sleep_q'[s] = sleep_q[s] \o q
            /\ \A t \in Rcpts \ {s, Bmc} : sleep_q'[t] = sleep_q[t]
        BY <3>2, Zenon DEF StopMoves
      <3> HIDE DEF q, g
      <3>4. (\E i \in DOMAIN q : Told(s, q[i])) <=> q # << >>
        <4>1. \A i \in 1 .. Len(q) : Told(s, q[i])
          BY <3>3, Unmixed
        <4>2. q # << >> => 1 \in 1 .. Len(q) /\ 1 \in DOMAIN q
          BY <3>3
        <4>3. q = << >> => DOMAIN q = {}
          OBVIOUS
        <4> QED
          BY <4>1, <4>2, <4>3
      <3>5. s \in tim_bitmap' <=> s \in tim_bitmap \/ q # << >>
        BY <1>0, <3>1, <3>4
      <3>6. sleep_q'[s] # << >> <=> sleep_q[s] # << >> \/ q # << >>
        <4>1. sleep_q[s] \in Seq(Acs)
          BY <1>0, <1>T
        <4>2. Len(sleep_q'[s]) = Len(sleep_q[s]) + Len(q) /\ sleep_q'[s] \in Seq(Acs)
          BY <3>3, <4>1, ConcatProperties
        <4>3. Len(sleep_q[s]) \in Nat /\ Len(q) \in Nat
          BY <3>3, <4>1
        <4>4. Len(sleep_q'[s]) = 0 <=> Len(sleep_q[s]) = 0 /\ Len(q) = 0
          BY <4>2, <4>3
        <4>5. /\ sleep_q'[s] = << >> <=> Len(sleep_q'[s]) = 0
              /\ sleep_q[s] = << >> <=> Len(sleep_q[s]) = 0
              /\ q = << >> <=> Len(q) = 0
          BY <3>3, <4>1, <4>2, EmptySeq
        <4> QED
          BY <4>4, <4>5
      <3>7. \A t \in Stas \ {s} : /\ sleep_q'[t] = sleep_q[t]
                                  /\ t \in tim_bitmap' <=> t \in tim_bitmap
        BY <1>0, <3>1, <3>3
      <3>8. s \in tim_bitmap' <=> sleep_q'[s] # << >>
        BY <3>5, <3>6 DEF SlTim
      <3> QED
        BY <1>O, <3>7, <3>8
    <2>4. CASE wakeup_sta_to_xmit("rx", s, Next1(qos))
      BY <1>V, <2>4
    <2>5. CASE UNCHANGED <<bits, dozing>>
      BY <1>D, <2>5 DEF bits
    <2> QED
      BY <2>2, <2>3, <2>4, <2>5
  <1>6. ASSUME NEW s \in Stas, PsPoll(s) PROVE SlTim'
    <2>2. CASE PsPollFrame(s)
      <3>1. sleep_q[s] # << >> /\ tim_bitmap' = IF sleepq_len'[s] = 0 THEN tim_bitmap \ {s} ELSE tim_bitmap
        BY <2>2, Zenon DEF PsPollFrame, PsPollTim
      <3>2. \A x \in Rcpts \ {s} : sleep_q'[x] = sleep_q[x]
        BY <2>2, PollEffect
      <3>3. sleepq_len'[s] = 0 <=> sleep_q'[s] = << >>
        <4>1. sleepq_len'[s] = Len(sleep_q'[s]) /\ sleep_q'[s] \in Seq(Acs)
          BY <1>0, <1>T DEF SlCounts
        <4> QED
          BY <4>1, EmptySeq
      <3>4. s \in tim_bitmap
        BY <3>1 DEF SlTim
      <3>5. s \in tim_bitmap' <=> sleep_q'[s] # << >>
        BY <3>1, <3>3, <3>4
      <3>6. \A t \in Stas \ {s} : /\ sleep_q'[t] = sleep_q[t]
                                  /\ t \in tim_bitmap' <=> t \in tim_bitmap
        BY <1>0, <3>1, <3>2
      <3> QED
        BY <1>O, <3>5, <3>6
    <2>3. CASE UNCHANGED <<tim_bitmap, beacon, dozing, queues>>
      BY <1>D, <2>3
    <2> QED
      BY <1>6, <2>2, <2>3, Zenon DEF PsPoll
  <1>7. ASSUME NEW s \in Stas, rtw_free_stainfo(s) PROVE SlTim'
    <2>1. sleep_q' = [sleep_q EXCEPT ![s] = << >>] /\ tim_bitmap' = tim_bitmap \ {s}
      BY <1>7 DEF rtw_free_stainfo
    <2>2. sleep_q'[s] = << >> /\ \A t \in Stas \ {s} : sleep_q'[t] = sleep_q[t]
      BY <1>0, <1>T, <2>1
    <2> QED
      BY <1>O, <2>1, <2>2
  <1>8. ASSUME NEW s \in Stas, expire_timeout_chk(s) PROVE SlTim'
    BY <1>8, <1>V DEF expire_timeout_chk
  <1>9. ASSUME NEW s \in Stas, NEW k \in Kinds, Associate(s, k) PROVE SlTim'
    BY <1>9, <1>D DEF Associate, bits
  <1>10. ASSUME NEW c \in {"rx", "timer"}, AfterWakeup(c) PROVE SlTim'
    BY <1>10, <1>D DEF AfterWakeup, bits
  <1>11. CASE process_wmmps_data
    <2> DEFINE s == rx.sta
    <2>1. pc["rx"] = "wmmps"
      BY <1>11, Zenon DEF process_wmmps_data
    <2>2. s \in Stas
      BY <2>1 DEF SlTyped, TyHands
    <2>3. \/ /\ xmit_delivery_enabled_frames(s) /\ kind[s] \in {"mixed", "uapsd"}
             /\ sleepq_ac_len[s] > 0
          \/ UNCHANGED <<tim_bitmap, beacon, dozing, queues>>
      BY <1>11, Zenon DEF process_wmmps_data
    <2>4. CASE /\ xmit_delivery_enabled_frames(s) /\ kind[s] \in {"mixed", "uapsd"}
               /\ sleepq_ac_len[s] > 0
      <3> DEFINE q == Only(sleep_q[s], Delivery(s))
                 p == Only(sleep_q[s], Acs \ Delivery(s))
                 told == ~ has_legacy_ac(s) /\ sleepq_ac_len[s] \in 1 .. Len(q)
      <3>1. tim_bitmap' = IF told THEN tim_bitmap \ {s} ELSE tim_bitmap
        BY <2>4, Zenon DEF xmit_delivery_enabled_frames
      <3>2. sleep_q'[s] = p /\ \A x \in Rcpts \ {s} : sleep_q'[x] = sleep_q[x]
        BY <2>2, <2>4, DeliverEffect
      <3>3. kind[s] = "uapsd" /\ Delivery(s) = Acs
        BY <2>2, <2>4, Unmixed
      <3>4. sleep_q[s] \in Seq(Acs) /\ Len(sleep_q[s]) \in Nat
        BY <1>0, <1>T, <2>2
      <3>5. Len(q) = Len(sleep_q[s])
        BY <3>3, <3>4, OnlyAll
      <3>6. p = << >>
        <4>1. Acs \cap (Acs \ Delivery(s)) = {}
          BY <3>3
        <4> QED
          BY <3>4, <4>1, OnlyAll
      <3>7. sleepq_ac_len[s] = Len(sleep_q[s])
        BY <2>2, <3>3 DEF SlAcLen
      <3>8. told
        <4> HIDE DEF q
        <4>1. sleepq_ac_len[s] \in 1 .. Len(q)
          BY <2>4, <3>4, <3>5, <3>7
        <4> QED
          BY <3>3, <4>1 DEF has_legacy_ac
      <3>9. s \notin tim_bitmap' /\ \A t \in Stas \ {s} : t \in tim_bitmap' <=> t \in tim_bitmap
        BY <3>1, <3>8
      <3>10. sleep_q'[s] = << >> /\ \A t \in Stas \ {s} : sleep_q'[t] = sleep_q[t]
        BY <1>0, <3>2, <3>6
      <3> HIDE DEF q, p, told, s
      <3> QED
        BY <1>O, <2>2, <3>9, <3>10
    <2> QED
      BY <1>D, <2>3, <2>4
  <1>12. CASE PsPollNone
    <2> DEFINE s == rx.sta
    <2>1. pc["rx"] = "pspoll" /\ UNCHANGED sleep_q /\ tim_bitmap' = tim_bitmap \ {s}
      BY <1>12, Zenon DEF PsPollNone
    <2>2. s \in Stas /\ sleep_q[s] = << >>
      BY <2>1 DEF SlTyped, TyHands, SlOrder
    <2> HIDE DEF s
    <2> QED
      BY <1>O, <2>1, <2>2
  <1>13. CASE TxGroup
    <2>1. UNCHANGED tim_bitmap
      BY <1>13 DEF TxGroup, bits
    <2>2. \A x \in Rcpts \ {Bmc} : sleep_q'[x] = sleep_q[x]
      BY <1>13, GroupEffect
    <2> QED
      BY <1>0, <1>S, <2>1, <2>2
  <1>14. CASE TxBeacon \/ ChkHiq \/ ChkHiqAgain \/ HiqDrains
    BY <1>14, <1>D DEF TxBeacon, ChkHiq, ChkHiqAgain, HiqDrains, bits
  <1>15. CASE ChkHiqEmpty
    <2>1. UNCHANGED dozing /\ tim_bitmap' = tim_bitmap \ {Bmc}
      BY <1>15 DEF ChkHiqEmpty
    <2> QED
      BY <1>0, <1>S, <2>1 DEF dozing
  <1> QED
    BY <1>1, <1>2, <1>3, <1>4, <1>5, <1>6, <1>7, <1>8, <1>9, <1>10, <1>11, <1>12, <1>13, <1>14,
       <1>15 DEF Next

\* A step that adds a station to the TIM updates the beacon: the update is tied to
\* sleepq_len becoming 1, and the station had nothing buffered.
LEMMA ShownNext ==
  "mixed" \notin Kinds /\ SlTyped /\ SlTyped' /\ Fits' /\ SlOrder /\ SlCounts /\ SlCounts'
    /\ SlAgree /\ SlTim /\ SlShown /\ [Next]_vars => SlShown'
  <1> SUFFICES ASSUME "mixed" \notin Kinds, SlTyped, SlTyped', Fits', SlOrder, SlCounts, SlCounts',
                      SlAgree, SlTim, SlShown, [Next]_vars
               PROVE  SlShown'
    OBVIOUS
  <1>0. Bmc \in Rcpts /\ Stas \subseteq Rcpts /\ Bmc \notin Stas
    BY SlQueues DEF Rcpts
  <1>T. sleep_q \in [Rcpts -> Seq(Acs)] /\ cmd_queue \in Seq(Cmds)
    BY DEF SlTyped, TyBuffers, TyThread
  \* No station is added to the TIM, or the beacon is updated.
  <1>O. ASSUME bcn_tim' = tim_bitmap'
               \/ (bcn_tim' = bcn_tim /\ \A t \in Stas : t \in tim_bitmap' => t \in tim_bitmap)
        PROVE  SlShown'
    BY <1>O DEF SlShown
  <1>U. ASSUME NEW n \in Nat, UpdateBeacon(tim_bitmap', n),
               n = 0 => \A t \in Stas : t \in tim_bitmap' => t \in tim_bitmap
        PROVE  SlShown'
    <2>1. bcn_tim' = IF n > 0 THEN tim_bitmap' ELSE bcn_tim
      BY <1>U DEF UpdateBeacon
    <2> QED
      BY <1>O, <1>U, <2>1
  <1>L. ASSUME UNCHANGED bcn_tim, \A t \in Stas : t \in tim_bitmap' => t \in tim_bitmap
        PROVE  SlShown'
    BY <1>L, <1>O
  <1>D. UNCHANGED <<bcn_tim, tim_bitmap>> => SlShown'
    BY <1>L
  <1>V. ASSUME NEW s \in Stas, NEW c, NEW l, wakeup_sta_to_xmit(c, s, l), UNCHANGED bcn_tim
        PROVE  SlShown'
    <2>1. s \notin tim_bitmap' /\ \A t \in Stas \ {s} : t \in tim_bitmap' <=> t \in tim_bitmap
      BY <1>V, WakeBits
    <2> QED
      BY <1>L, <1>V, <2>1
  \* The first of the frames updates the beacon.
  <1>F. ASSUME NEW s \in Stas, NEW q \in Seq(Acs), q # << >>, sleep_q[s] = << >>
        PROVE  Updates(s, q) \in Nat /\ Updates(s, q) # 0
    <2>1. sleepq_len[s] = 0
      BY <1>0, <1>F DEF SlCounts
    <2>2. 1 \in DOMAIN q /\ q[1] \in Acs
      BY <1>F
    <2>3. Told(s, q[1])
      BY <2>2, Unmixed
    <2>4. (sleepq_len[s] + 1) % W = 1
      <3>1. 1 \in 0 .. W - 1
        BY SlMod
      <3>2. 1 % W = 1 /\ sleepq_len[s] + 1 = 1
        BY <2>1, <3>1, SlMod
      <3> QED
        BY <3>2
    <2>5. Updates(s, q) \in Nat
      BY UpdatesNat
    <2>6. Updates(s, q) # 0
      BY <2>2, <2>3, <2>4, UpdatesNat
    <2> QED
      BY <2>5, <2>6
  <1>1. CASE UNCHANGED vars
    BY <1>1, <1>D DEF vars, bits, beacon
  <1>2. ASSUME NEW r \in Rcpts, NEW a \in Acs, XmitBegin(r, a) PROVE SlShown'
    <2>2. CASE XmitBuffers(r, a)
      <3>3. CASE r = Bmc
        <4>1. UpdateBeacon(tim_bitmap', 1)
          BY <2>2, <3>3 DEF XmitBuffers
        <4> QED
          BY <1>U, <4>1
      <3>4. CASE r \in Stas
        <4> DEFINE n == Updates(r, <<a>>)
        <4>1. /\ tim_bitmap' = tim_bitmap \cup {s \in {r} : Told(s, a)}
              /\ UpdateBeacon(tim_bitmap', n)
          BY <1>0, <2>2, <3>4, Zenon DEF XmitBuffers
        <4>5. <<a>> \in Seq(Acs) /\ <<a>> # << >>
          OBVIOUS
        <4>2. <<a>> \in Seq(Acs) /\ <<a>> # << >> /\ n \in Nat
          BY <4>5, UpdatesNat
        <4>3. \A t \in Stas : t \in tim_bitmap' => t \in tim_bitmap \/ t = r
          BY <4>1
        <4>4. n = 0 => r \in tim_bitmap
          BY <1>F, <3>4, <4>2 DEF SlTim
        <4> HIDE DEF n
        <4> QED
          BY <1>U, <4>1, <4>2, <4>3, <4>4
      <3> QED
        BY <3>3, <3>4 DEF Rcpts
    <2>3. CASE UNCHANGED <<bits, beacon, dozing>>
      BY <1>D, <2>3 DEF bits, beacon
    <2> QED
      BY <1>2, <2>2, <2>3 DEF XmitBegin
  <1>3. CASE XmitDirect \/ XmitEnqueue
    BY <1>3, <1>D DEF XmitDirect, XmitEnqueue, bits, beacon
  <1>4. ASSUME NEW v \in Servqs, XmitTasklet(v) PROVE SlShown'
    BY <1>4, <1>D DEF XmitTasklet, bits
  <1>5. ASSUME NEW s \in Stas, NEW pwr \in BOOLEAN, NEW qos \in BOOLEAN, NEW a \in Acs,
               RxData(s, pwr, qos, a)
        PROVE  SlShown'
    <2>2. \/ s \notin sleeping /\ stop_sta_xmit(s)
          \/ wakeup_sta_to_xmit("rx", s, Next1(qos)) /\ UNCHANGED beacon
          \/ UNCHANGED <<bits, beacon>>
      BY <1>5, Zenon DEF RxData
    <2>3. CASE s \notin sleeping /\ stop_sta_xmit(s)
      <3> DEFINE q == Parked(s)
                 g == Parked(Bmc)
                 u == Updates(s, q)
                 n == u + Len(g)
      <3>1. /\ tim_bitmap' = tim_bitmap
                  \cup {t \in {s} : \E i \in DOMAIN q : Told(s, q[i])}
                  \cup {r \in {Bmc} : g # << >>}
            /\ UpdateBeacon(tim_bitmap', n)
        BY <2>3, Zenon DEF stop_sta_xmit
      <3>2. StopMoves(s, q, g)
        BY <2>3, StopEffect
      <3>3. q \in Seq(Acs) /\ Len(g) \in Nat
        BY <3>2 DEF StopMoves
      <3>4. u \in Nat
        BY <3>3, UpdatesNat
      <3>5. sleep_q[s] = << >>
        BY <2>3 DEF SlAgree
      <3>6. q # << >> => u # 0
        BY <1>F, <3>3, <3>5
      <3>7. n \in Nat /\ (n = 0 => u = 0)
        <4> DEFINE lg == Len(g)
        <4>1. lg \in Nat /\ n = u + lg
          BY <3>3
        <4> HIDE DEF u, lg, n
        <4> QED
          BY <3>4, <4>1
      <3>8. q = << >> => \A t \in Stas : t \in tim_bitmap' => t \in tim_bitmap
        <4> HIDE DEF q, g, n
        <4>1. q = << >> => DOMAIN q = {}
          OBVIOUS
        <4> QED
          BY <1>0, <3>1, <4>1
      <3>9. n = 0 => \A t \in Stas : t \in tim_bitmap' => t \in tim_bitmap
        <4> HIDE DEF q, g, n, u
        <4> QED
          BY <3>6, <3>7, <3>8
      <3> HIDE DEF q, g, n, u
      <3> QED
        BY <1>U, <3>1, <3>7, <3>9
    <2>4. CASE wakeup_sta_to_xmit("rx", s, Next1(qos)) /\ UNCHANGED beacon
      BY <1>V, <2>4 DEF beacon
    <2>5. CASE UNCHANGED <<bits, beacon>>
      BY <1>D, <2>5 DEF bits, beacon
    <2> QED
      BY <2>2, <2>3, <2>4, <2>5
  <1>6. ASSUME NEW s \in Stas, PsPoll(s) PROVE SlShown'
    <2>2. CASE PsPollFrame(s)
      <3> DEFINE n == IF sleepq_len'[s] = 0 THEN 1 ELSE 0
      <3>1. /\ tim_bitmap' = IF sleepq_len'[s] = 0 THEN tim_bitmap \ {s} ELSE tim_bitmap
            /\ UpdateBeacon(tim_bitmap', n)
        BY <2>2, Zenon DEF PsPollFrame, PsPollTim
      <3>2. n \in Nat
        OBVIOUS
      <3>3. \A t \in Stas : t \in tim_bitmap' => t \in tim_bitmap
        BY <3>1
      <3> HIDE DEF n
      <3> QED
        BY <1>U, <3>1, <3>2, <3>3
    <2>3. CASE UNCHANGED <<tim_bitmap, beacon, dozing, queues>>
      BY <1>D, <2>3 DEF beacon
    <2> QED
      BY <1>6, <2>2, <2>3, Zenon DEF PsPoll
  <1>7. ASSUME NEW s \in Stas, rtw_free_stainfo(s) PROVE SlShown'
    <2>1. tim_bitmap' = tim_bitmap \ {s} /\ UNCHANGED bcn_tim
      BY <1>7 DEF rtw_free_stainfo, CapabilityUpdate
    <2> QED
      BY <1>L, <2>1
  <1>8. ASSUME NEW s \in Stas, expire_timeout_chk(s) PROVE SlShown'
    BY <1>8, <1>V DEF expire_timeout_chk, beacon
  <1>9. ASSUME NEW s \in Stas, NEW k \in Kinds, Associate(s, k) PROVE SlShown'
    BY <1>9, <1>D DEF Associate, CapabilityUpdate, bits
  <1>10. ASSUME NEW c \in {"rx", "timer"}, AfterWakeup(c) PROVE SlShown'
    <2>1. UpdateBeacon(tim_bitmap, 1) /\ UNCHANGED tim_bitmap
      BY <1>10 DEF AfterWakeup, bits
    <2>2. UpdateBeacon(tim_bitmap', 1)
      BY <2>1 DEF UpdateBeacon
    <2> QED
      BY <1>U, <2>2
  <1>11. CASE process_wmmps_data
    <2> DEFINE s == rx.sta
    <2>3. xmit_delivery_enabled_frames(s) \/ UNCHANGED <<tim_bitmap, beacon, dozing, queues>>
      BY <1>11, Zenon DEF process_wmmps_data
    <2>4. CASE xmit_delivery_enabled_frames(s)
      <3> DEFINE q == Only(sleep_q[s], Delivery(s))
                 told == ~ has_legacy_ac(s) /\ sleepq_ac_len[s] \in 1 .. Len(q)
                 n == IF told THEN 1 ELSE 0
      <3>1. /\ tim_bitmap' = IF told THEN tim_bitmap \ {s} ELSE tim_bitmap
            /\ UpdateBeacon(tim_bitmap', n)
        BY <2>4, Zenon DEF xmit_delivery_enabled_frames
      <3>2. n \in Nat
        <4> HIDE DEF told
        <4> QED
          OBVIOUS
      <3> HIDE DEF n, told
      <3>3. \A t \in Stas : t \in tim_bitmap' => t \in tim_bitmap
        BY <3>1
      <3> QED
        BY <1>U, <3>1, <3>2, <3>3
    <2> QED
      BY <1>D, <2>3, <2>4 DEF beacon
  <1>12. CASE PsPollNone
    <2> DEFINE s == rx.sta
               told == s \in tim_bitmap
               n == IF told THEN 1 ELSE 0
    <2>1. tim_bitmap' = tim_bitmap \ {s} /\ UpdateBeacon(tim_bitmap', n)
      BY <1>12, Zenon DEF PsPollNone
    <2>2. n \in Nat
      <3> HIDE DEF told
      <3> QED
        OBVIOUS
    <2> HIDE DEF n, told
    <2> QED
      BY <1>U, <2>1, <2>2
  <1>13. CASE TxGroup \/ TxBeacon \/ ChkHiq \/ ChkHiqAgain \/ HiqDrains
    BY <1>13, <1>D DEF TxGroup, TxBeacon, ChkHiq, ChkHiqAgain, HiqDrains, bits, beacon
  <1>14. CASE ChkHiqEmpty
    <2>1. UpdateBeacon(tim_bitmap', 1)
      BY <1>14 DEF ChkHiqEmpty
    <2> QED
      BY <1>U, <2>1
  <1> QED
    BY <1>1, <1>2, <1>3, <1>4, <1>5, <1>6, <1>7, <1>8, <1>9, <1>10, <1>11, <1>12, <1>13, <1>14
       DEF Next

\* The inductive invariant for one processor without mixed stations.
SlTold == SlServed /\ SlAcLen /\ SlTim /\ SlShown

\* Nothing is buffered at the start.
LEMMA ToldInit == Init => SlTold
  <1> SUFFICES ASSUME Init PROVE SlTold
    OBVIOUS
  <1>1. SlServed
    BY SlTypedInit, PoolInit, DozingInit DEF SlServed
  <1>2. tim_bitmap = {}
    BY DEF Init
  <1>3. \A s \in Stas : sleepq_ac_len[s] = 0 /\ sleep_q[s] = << >>
    BY DEF Init, Rcpts
  <1> QED
    BY <1>1, <1>2, <1>3 DEF SlTold, SlAcLen, SlTim, SlShown

\* It is inductive.
LEMMA ToldNext == ~ Smp /\ "mixed" \notin Kinds /\ SlTold /\ [Next]_vars => SlTold'
  <1> SUFFICES ASSUME ~ Smp, "mixed" \notin Kinds, SlTold, [Next]_vars PROVE SlTold'
    OBVIOUS
  <1>1. SlServed'
    BY ServedNext DEF SlTold
  <1>2. SlTyped' /\ Fits' /\ SlCounts'
    BY <1>1, FitsNext DEF SlServed, SlDozing
  <1>3. SlTyped /\ SlOrder /\ SlCounts /\ SlAgree /\ SlAcLen /\ SlTim /\ SlShown
    BY DEF SlTold, SlServed, SlDozing
  <1>4. SlAcLen'
    BY <1>2, <1>3, AcLenNext
  <1>5. SlTim'
    BY <1>2, <1>3, TimNext
  <1>6. SlShown'
    BY <1>2, <1>3, ShownNext
  <1> QED
    BY <1>1, <1>4, <1>5, <1>6 DEF SlTold

\* It holds in every behaviour.
LEMMA AlwaysTold ==
  ASSUME ~ Smp, "mixed" \notin Kinds
  PROVE  Spec => []SlTold
  <1>1. SlTold /\ [Next]_vars => SlTold'
    BY ToldNext
  <1> QED
    BY <1>1, ToldInit, PTL DEF Spec

\* On one processor, without stations that have only some of their categories
\* delivery-enabled: sleepq_len and sleepq_ac_len are the lengths they stand for, and
\* the frames of the pool are conserved, through every way in and out of a sleep_q.
THEOREM FramesAlwaysCounted ==
  ASSUME ~ Smp, "mixed" \notin Kinds
  PROVE  Spec => []FramesCounted
  <1>1. SlTold => FramesCounted
    <2> SUFFICES ASSUME SlTold PROVE FramesCounted
      OBVIOUS
    <2>1. SlTyped /\ PoolConserved /\ SlCounts /\ SlAcLen
      BY DEF SlTold, SlServed, SlDozing
    <2>2. TypeOK
      BY <2>1, SlTypes
    <2>3. ASSUME NEW s \in Stas PROVE sleepq_ac_len[s] = CountWmmps(s, sleep_q[s])
      <3>1. sleep_q[s] \in Seq(Acs)
        BY <2>1 DEF SlTyped, TyBuffers, Rcpts
      <3> QED
        BY <2>1, <3>1, Unmixed DEF SlAcLen
    <2>4. CountsMatch
      BY <2>1, <2>3 DEF CountsMatch, SlCounts
    <2> QED
      BY <2>1, <2>2, <2>4 DEF FramesCounted
  <1> QED
    BY <1>1, AlwaysTold, PTL

\* Under the same hypotheses the TIM tells a station of its frames and of nothing
\* else, and the beacon shows it (update_beacon is called by those who change it).
THEOREM TimAlwaysTells ==
  ASSUME ~ Smp, "mixed" \notin Kinds
  PROVE  Spec => []TimTells
  <1>1. SlTold => TimTells
    BY DEF SlTold, SlTim, SlShown, TimTells
  <1> QED
    BY <1>1, AlwaysTold, PTL
=============================================================================
