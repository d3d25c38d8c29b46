----------------------------- MODULE PowerLease -----------------------------
(***************************************************************************)
(* What _rtw_pwr_wakeup promises its callers (the comment above it in      *)
(* core/rtw_pwrctrl.c: it wakes the chip up and keeps it from falling into *)
(* inactive power save for ips_deffer_ms): a caller that is told _SUCCESS  *)
(* has the chip powered for that time.  The promise is a lease; inactive   *)
(* power saving may switch the chip off only while there is none.          *)
(***************************************************************************)

CONSTANT LeaseCallers

VARIABLES nic, lease

leaseVars == <<nic, lease>>

LeaseInit == nic = "on" /\ lease = {}

\* rtw_pwr_wakeup returns _SUCCESS to c.
Grant(c) == nic = "on" /\ lease' = lease \cup {c} /\ UNCHANGED nic

\* ips_deffer_ms after it.
Lapse(c) == c \in lease /\ lease' = lease \ {c} /\ UNCHANGED nic

\* Inactive power saving.
PowerOff == lease = {} /\ nic' = "off" /\ UNCHANGED lease

PowerOn == nic' = "on" /\ UNCHANGED lease

\* A system suspend asks nobody.
SystemSuspend == nic' = "off" /\ lease' = {}

LeaseNext ==
    \/ \E c \in LeaseCallers : Grant(c) \/ Lapse(c)
    \/ PowerOff \/ PowerOn \/ SystemSuspend

LeaseSpec == LeaseInit /\ [][LeaseNext]_leaseVars
=============================================================================
