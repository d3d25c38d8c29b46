-------------------------------- MODULE RxUrb --------------------------------
(***************************************************************************)
(* The receive side of the USB transport (usb.c, os_dep/usb_ops_linux.c,   *)
(* hal/rtl8812au_recv.c): NR_RECVBUFF receive buffers, each with one URB   *)
(* and one skb, whose completion queues the skb for the receive tasklet    *)
(* and submits the URB again with another skb; the tasklet gives the skbs  *)
(* it is done with back to a pool of preallocated ones.  Suspending and    *)
(* the inactive power save (IPS) kill the URBs, resuming submits them.     *)
(*                                                                         *)
(* What the chip sends and when is external, and so are the USB core (a    *)
(* URB that is being killed cannot be submitted, -EPERM, and the killer    *)
(* waits for its completion) and the allocator, which may fail.            *)
(***************************************************************************)
EXTENDS Naturals, Sequences, FiniteSets, Functions

CONSTANTS RxBufs,           \* NR_RECVBUFF receive buffers
          Skbs, NoSkb,      \* the skbs that can exist at a time
          PreallocSkb,      \* the sequence of the NR_PREALLOC_RECV_SKB ones
          MaxUrbErr,        \* MAX_CONTINUAL_URB_ERR
          MaxRx,            \* bound: completions of URBs
          MaxRxStops        \* bound: times the transport is stopped

ASSUME RxAssumption == /\ PreallocSkb \in Seq(Skbs) /\ IsInjective(PreallocSkb)
                       /\ NoSkb \notin Skbs
                       /\ RxBufs \subseteq Nat /\ RxBufs # {}

VARIABLES
    urb,            \* buffer -> "idle", "out" (submitted), "cb" (in its callback)
    bufSkb, reuse,  \* precvbuf->skb and ->reuse
    rxSkbs,         \* rx_skb_queue
    freeSkbs,       \* free_recv_skb_queue
    rxTask,         \* the receive tasklet: scheduled, running, the skb it handles
    rxFlags,        \* bDriverStopped, bSurpriseRemoved, bReadPortCancel
    urbErr,         \* continual_urb_error
    reject,         \* buffers whose URB is being killed
    rxCtl,          \* the thread that stops and starts the transport
    stranded,       \* the tasklet gave up and left skbs in rx_skb_queue
    rxCount, rxStops

rxVars == <<urb, bufSkb, reuse, rxSkbs, freeSkbs, rxTask, rxFlags, urbErr, reject,
            rxCtl, stranded, rxCount, rxStops>>
rxSide == <<rxTask, rxCtl, reject, stranded, rxStops>>

\* Owners of an skb; one that has none is free for the allocator.
SkbsHeld == {bufSkb[b] : b \in RxBufs} \cup Range(rxSkbs) \cup Range(freeSkbs) \cup {rxTask.skb}
Unused == Skbs \ SkbsHeld
\* What netdev_alloc_skb returns: a new skb, or none.
NewSkb == {NoSkb} \cup (IF Unused = {} THEN {} ELSE {CHOOSE s \in Unused : TRUE})
FirstOf(bufs) == CHOOSE b \in bufs : \A c \in bufs : b <= c

RxStopped == rxFlags.stopped \/ rxFlags.removed

RxTypeOK ==
    /\ urb \in [RxBufs -> {"idle", "out", "cb"}]
    /\ bufSkb \in [RxBufs -> Skbs \cup {NoSkb}] /\ reuse \in [RxBufs -> BOOLEAN]
    /\ rxSkbs \in Seq(Skbs) /\ freeSkbs \in Seq(Skbs)
    /\ rxTask \in [sched : BOOLEAN, run : BOOLEAN, skb : Skbs \cup {NoSkb}]
    /\ reject \subseteq RxBufs
    /\ rxCtl \in [at : {"start", "up", "kill", "down", "gone"}, left : SUBSET RxBufs,
                  ips : BOOLEAN]

\* rtl8812au_init_recv_priv; usb_intf_start has not run yet.
rtl8812au_init_recv_priv ==
    /\ urb = [b \in RxBufs |-> "idle"]
    /\ bufSkb = [b \in RxBufs |-> NoSkb] /\ reuse = [b \in RxBufs |-> FALSE]
    /\ rxSkbs = << >> /\ freeSkbs = PreallocSkb

RxInit ==
    /\ rtl8812au_init_recv_priv
    /\ rxTask = [sched |-> FALSE, run |-> FALSE, skb |-> NoSkb]
    /\ rxFlags = [stopped |-> FALSE, removed |-> FALSE, cancel |-> FALSE]
    /\ urbErr = 0 /\ reject = {} /\ stranded = FALSE
    /\ rxCtl = [at |-> "start", left |-> RxBufs, ips |-> FALSE]
    /\ rxCount = 0 /\ rxStops = 0
-----------------------------------------------------------------------------
\* The skb _rtl_usb_receive puts in front of a URB: the old one when it may
\* be used again, else a preallocated one, else a new one.
KeepsSkb(b) == reuse[b] /\ bufSkb[b] # NoSkb
NextSkb(b, s) ==
    \/ KeepsSkb(b) /\ s = bufSkb[b] /\ UNCHANGED freeSkbs
    \/ ~ KeepsSkb(b) /\ freeSkbs # << >> /\ s = Head(freeSkbs) /\ freeSkbs' = Tail(freeSkbs)
    \/ ~ KeepsSkb(b) /\ freeSkbs = << >> /\ s \in NewSkb /\ UNCHANGED freeSkbs

\* _rtl_usb_receive submits the URB of b again; the submission fails for a
\* URB that is being killed and may fail for reasons of the USB core.
_rtl_usb_receive(b) ==
    \/ /\ RxStopped
       /\ urb' = [urb EXCEPT ![b] = "idle"] /\ UNCHANGED <<bufSkb, reuse, freeSkbs>>
    \/ /\ ~ RxStopped
       /\ \E s \in Skbs \cup {NoSkb} :
             /\ NextSkb(b, s)
             /\ bufSkb' = [bufSkb EXCEPT ![b] = s]
             /\ reuse' = [reuse EXCEPT ![b] = FALSE]
             /\ \E ok \in {TRUE, FALSE} :
                   /\ ok => s # NoSkb /\ b \notin reject
                   /\ urb' = [urb EXCEPT ![b] = IF ok THEN "out" ELSE "idle"]

\* Two faults a completion could have: the skb stays with the buffer; and
\* the tasklet is scheduled for a queue shorter than one.
CbQueueSkb_Keeps(b) ==
    /\ rxSkbs' = Append(rxSkbs, bufSkb[b])
    /\ rxTask' = [rxTask EXCEPT !.sched = @ \/ Len(rxSkbs') <= 1]
    /\ reuse' = [reuse EXCEPT ![b] = TRUE] /\ UNCHANGED bufSkb
CbQueueSkb_Never(b) ==
    /\ rxSkbs' = Append(rxSkbs, bufSkb[b])
    /\ rxTask' = [rxTask EXCEPT !.sched = @ \/ Len(rxSkbs') < 1]
    /\ bufSkb' = [bufSkb EXCEPT ![b] = NoSkb] /\ reuse' = [reuse EXCEPT ![b] = FALSE]

\* _rtl_rx_complete of a good transfer, up to the new submission.
CbQueueSkb(b) ==
    /\ rxSkbs' = Append(rxSkbs, bufSkb[b])
    /\ rxTask' = [rxTask EXCEPT !.sched = @ \/ Len(rxSkbs') <= 1]
    /\ bufSkb' = [bufSkb EXCEPT ![b] = NoSkb] /\ reuse' = [reuse EXCEPT ![b] = FALSE]

\* The completion of a submitted URB: with data, with too much or too little
\* of it, with an error after which it is submitted again, with one that
\* stops the driver, with one nothing is done about, and with that of a kill.
_rtl_rx_complete(b) ==
    /\ urb[b] = "out" /\ rxCount < MaxRx
    /\ rxCount' = rxCount + 1
    /\ \/ /\ RxStopped \/ rxFlags.cancel
          /\ urb' = [urb EXCEPT ![b] = "idle"] /\ reuse' = [reuse EXCEPT ![b] = TRUE]
          /\ UNCHANGED <<bufSkb, rxSkbs, rxTask, rxFlags, urbErr>>
       \/ /\ ~ RxStopped /\ ~ rxFlags.cancel /\ b \notin reject
          /\ \/ /\ CbQueueSkb(b) /\ urbErr' = 0
                /\ urb' = [urb EXCEPT ![b] = "cb"] /\ UNCHANGED rxFlags
             \/ /\ reuse' = [reuse EXCEPT ![b] = TRUE]
                /\ urb' = [urb EXCEPT ![b] = "cb"]
                /\ UNCHANGED <<bufSkb, rxSkbs, rxTask, rxFlags, urbErr>>
             \/ /\ urbErr' = urbErr + 1
                /\ \E kind \in {"again", "stop", "other"} :
                     /\ rxFlags' = [rxFlags EXCEPT !.removed = @ \/ urbErr' > MaxUrbErr,
                                                   !.stopped = @ \/ kind = "stop"]
                     /\ reuse' = [reuse EXCEPT ![b] = @ \/ kind = "again"]
                     /\ urb' = [urb EXCEPT ![b] = IF kind = "again" THEN "cb" ELSE "idle"]
                /\ UNCHANGED <<bufSkb, rxSkbs, rxTask>>
    /\ UNCHANGED <<freeSkbs, reject, rxCtl, stranded, rxStops>>

\* The end of the callback: _rtl_usb_receive.
Resubmit(b) ==
    /\ urb[b] = "cb" /\ _rtl_usb_receive(b)
    /\ UNCHANGED <<rxSkbs, rxFlags, urbErr, rxCount>> /\ UNCHANGED rxSide
-----------------------------------------------------------------------------
\* rtl8812au_recv_tasklet.
TaskletStart ==
    /\ rxTask.sched /\ ~ rxTask.run
    /\ rxTask' = [rxTask EXCEPT !.sched = FALSE, !.run = TRUE]
    /\ UNCHANGED <<urb, bufSkb, reuse, rxSkbs, freeSkbs, rxFlags, urbErr, reject, rxCtl,
                   stranded, rxCount, rxStops>>

\* One turn of its loop: the next skb, or the end; a stopped driver frees the
\* skb and leaves the loop.
TaskletDequeue ==
    /\ rxTask.run /\ rxTask.skb = NoSkb
    /\ \/ rxSkbs = << >> /\ rxTask' = [rxTask EXCEPT !.run = FALSE] /\ UNCHANGED <<rxSkbs, stranded>>
       \/ /\ rxSkbs # << >> /\ rxSkbs' = Tail(rxSkbs)
          /\ rxTask' = IF RxStopped THEN [rxTask EXCEPT !.run = FALSE]
                       ELSE [rxTask EXCEPT !.skb = Head(rxSkbs)]
          /\ stranded' = (stranded \/ (RxStopped /\ rxSkbs' # << >>))
    /\ UNCHANGED <<urb, bufSkb, reuse, freeSkbs, rxFlags, urbErr, reject, rxCtl, rxCount, rxStops>>

\* recvbuf2recvframe has copied the frames out: the skb goes to the pool.
TaskletRecycle ==
    /\ rxTask.skb # NoSkb
    /\ freeSkbs' = Append(freeSkbs, rxTask.skb)
    /\ rxTask' = [rxTask EXCEPT !.skb = NoSkb]
    /\ UNCHANGED <<urb, bufSkb, reuse, rxSkbs, rxFlags, urbErr, reject, rxCtl, stranded,
                   rxCount, rxStops>>
-----------------------------------------------------------------------------
\* rtw_dev_unload (suspending) sets bDriverStopped first, rtw_ips_dev_unload
\* does not; both call usb_intf_stop.
usb_intf_stop ==
    /\ rxCtl.at = "up" /\ rxStops < MaxRxStops /\ ~ RxStopped
    /\ \E ips \in BOOLEAN :
         /\ rxFlags' = [rxFlags EXCEPT !.stopped = ~ ips, !.cancel = TRUE]
         /\ rxCtl' = [at |-> "kill", left |-> RxBufs, ips |-> ips]
    /\ rxStops' = rxStops + 1
    /\ UNCHANGED <<urb, bufSkb, reuse, rxSkbs, freeSkbs, rxTask, urbErr, reject, stranded, rxCount>>

\* usb_read_port_cancel: its loop marks a buffer and kills its URB.
KillUrb(b) ==
    /\ rxCtl.at = "kill" /\ rxCtl.left # {} /\ b = FirstOf(rxCtl.left) /\ reject = {}
    /\ reuse' = [reuse EXCEPT ![b] = TRUE] /\ reject' = {b}
    /\ UNCHANGED <<urb, bufSkb, rxSkbs, freeSkbs, rxTask, rxFlags, urbErr, rxCtl, stranded,
                   rxCount, rxStops>>

\* The URB is given back as killed; _rtl_rx_complete finds bReadPortCancel.
KillCompletes(b) ==
    /\ b \in reject /\ urb[b] = "out"
    /\ urb' = [urb EXCEPT ![b] = "idle"] /\ reuse' = [reuse EXCEPT ![b] = TRUE]
    /\ UNCHANGED <<bufSkb, rxSkbs, freeSkbs, rxTask, rxFlags, urbErr, reject, rxCtl, stranded,
                   rxCount, rxStops>>

\* usb_kill_urb returns; after the last one the chip is switched off and,
\* when suspending, bSurpriseRemoved is set.
UrbKilled(b) ==
    /\ b \in reject /\ urb[b] = "idle"
    /\ reject' = {}
    /\ LET left == rxCtl.left \ {b}
       IN  /\ rxCtl' = [rxCtl EXCEPT !.at = IF left = {} THEN "down" ELSE "kill", !.left = left]
           /\ rxFlags' = [rxFlags EXCEPT !.removed = @ \/ (left = {} /\ ~ rxCtl.ips)]
    /\ UNCHANGED <<urb, bufSkb, reuse, rxSkbs, freeSkbs, rxTask, urbErr, stranded, rxCount, rxStops>>

\* rtw_resume_process and rtw_ips_pwr_up: rtw_reset_drv_sw, then the flags
\* of _netdev_open and ips_netdrv_open, then usb_intf_start.
Reset ==
    /\ rxCtl.at = "down"
    /\ rxFlags' = [stopped |-> FALSE, removed |-> FALSE, cancel |-> FALSE]
    /\ rxCtl' = [rxCtl EXCEPT !.at = "start", !.left = RxBufs]
    /\ UNCHANGED <<urb, bufSkb, reuse, rxSkbs, freeSkbs, rxTask, urbErr, reject, stranded,
                   rxCount, rxStops>>

\* usb_intf_start submits the URBs one by one and stops at the first failure.
usb_intf_start ==
    /\ rxCtl.at = "start"
    /\ \E b \in {FirstOf(rxCtl.left)} :
         /\ _rtl_usb_receive(b)
         /\ LET left == IF urb'[b] = "out" THEN rxCtl.left \ {b} ELSE {}
            IN  rxCtl' = [rxCtl EXCEPT !.at = IF left = {} THEN "up" ELSE "start", !.left = left]
    /\ UNCHANGED <<rxSkbs, rxTask, rxFlags, urbErr, reject, stranded, rxCount, rxStops>>

\* rtw_usb_if1_deinit: _rtw_free_recv_priv calls rtl8812au_free_recv_priv;
\* no tasklet is killed before.
rtl8812au_free_recv_priv ==
    /\ rxCtl.at = "down" /\ ~ rxCtl.ips /\ ~ rxTask.run /\ ~ rxTask.sched
    /\ bufSkb' = [b \in RxBufs |-> NoSkb] /\ rxSkbs' = << >> /\ freeSkbs' = << >>
    /\ rxCtl' = [rxCtl EXCEPT !.at = "gone"]
    /\ UNCHANGED <<urb, reuse, rxTask, rxFlags, urbErr, reject, stranded, rxCount, rxStops>>

RxNext ==
    \/ \E b \in RxBufs : \/ _rtl_rx_complete(b) \/ Resubmit(b)
                         \/ KillUrb(b) \/ KillCompletes(b) \/ UrbKilled(b)
    \/ TaskletStart \/ TaskletDequeue \/ TaskletRecycle
    \/ usb_intf_stop \/ Reset \/ usb_intf_start \/ rtl8812au_free_recv_priv

RxSpec == RxInit /\ [][RxNext]_rxVars
-----------------------------------------------------------------------------
\* An skb has one owner: a URB the chip may write to, the queue of received
\* data, the tasklet, or the pool (_rtl_rx_complete, _rtl_usb_receive,
\* rtl8812au_recv_tasklet).  A buffer handed out twice would be overwritten
\* while its frames are parsed.
SkbOnce ==
    /\ IsInjective(rxSkbs) /\ IsInjective(freeSkbs)
    /\ Range(rxSkbs) \cap Range(freeSkbs) = {}
    /\ rxTask.skb \notin Range(rxSkbs) \cup Range(freeSkbs)
    /\ \A b \in RxBufs : bufSkb[b] # NoSkb =>
          /\ bufSkb[b] \notin Range(rxSkbs) \cup Range(freeSkbs) \cup {rxTask.skb}
          /\ \A c \in RxBufs \ {b} : bufSkb[c] # bufSkb[b]

\* Received data is not forgotten: whenever rx_skb_queue holds something the
\* tasklet is scheduled or in its loop, although only the completion that
\* finds the queue empty schedules it.  The exception is a tasklet that left
\* its loop because the driver was stopped.
DataServed == rxSkbs # << >> => rxTask.sched \/ rxTask.run \/ stranded

\* A received skb has one owner, and received data has a tasklet that comes
\* for it, but for a tasklet that left its loop because the driver was stopped
\* (_rtl_rx_complete, rtl8812au_recv_tasklet).
RxDataSafe == RxTypeOK /\ SkbOnce /\ DataServed
=============================================================================
