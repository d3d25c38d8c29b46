------------------------------- MODULE MgntTx -------------------------------
(***************************************************************************)
(* Management frames: the issue_* functions of core/rtw_mlme_ext.c, the    *)
(* pools of extension frames and buffers, and the submit context with      *)
(* which dump_mgntframe_and_wait waits on its stack for the end of the URB *)
(* (core/rtw_xmit.c, usb.c).                                               *)
(*                                                                         *)
(* Three contexts send: the command thread, a process in an ioctl, and the *)
(* receive tasklet, which never waits. The elements a frame carries are    *)
(* left out, but not the ends of the functions that depend on them.        *)
(***************************************************************************)
EXTENDS Integers, Sequences, FiniteSets

CONSTANTS
    Bufs,           \* xmit_extbuf: NR_XMIT_EXTBUFF buffers and as many frames
    MgCallers,      \* a subset of {"cmd", "ioctl", "rx"}
    OpsOf,          \* the functions a caller calls
    MaxBeacons,     \* send_beacon issues at most 100
    MaxBa           \* MAXTID: the agreements send_delba may have to end

Ops == {"beacon", "probersp", "probereq", "auth", "asocrsp", "assocreq",
        "nulldata", "qos_nulldata", "deauth", "ch_switch", "ba", "coexist", "delba"}

ASSUME MgntAssumption ==
    /\ MgCallers \subseteq {"cmd", "ioctl", "rx"}
    /\ OpsOf \in [MgCallers -> SUBSET Ops]
    /\ "rx" \in MgCallers => OpsOf["rx"] \cap {"beacon", "ch_switch"} = {}
    /\ MaxBeacons \in Nat \ {0} /\ MaxBa \in Nat
    /\ IsFiniteSet(Bufs) /\ Bufs \subseteq Nat \ {0}

NoBuf == 0
Nobody == "none"

VARIABLES
    gone,           \* bDriverStopped or bSurpriseRemoved
    freeBufs,       \* free_xmit_extbuf_queue
    freeFrames,     \* free_xframe_ext_cnt
    flight,         \* buffers whose URB the USB core has
    ending,         \* buffers whose completion handler has released lock_sctx
    sctx,           \* pxmitbuf->sctx: whose context it points to
    call,           \* what each caller does
    lost,           \* buffers nobody holds any more, and where they were lost
    owner, real     \* who waits for the URB of a buffer, and how it really ended

pools == <<freeBufs, freeFrames, lost>>
usb == <<flight, ending, owner, real>>
mgVars == <<gone, pools, usb, sctx, call>>

MgIdle == [pc |-> "idle", op |-> "none", buf |-> NoBuf, i |-> 0, ret |-> FALSE,
         status |-> "none"]

MgInit ==
    /\ gone = FALSE
    /\ \E s \in [1 .. Cardinality(Bufs) -> Bufs] :
          /\ \A i, j \in DOMAIN s : i < j => s[i] < s[j]
          /\ freeBufs = s
    /\ freeFrames = Cardinality(Bufs) /\ lost = {}
    /\ flight = {} /\ ending = {}
    /\ sctx = [b \in Bufs |-> Nobody]
    /\ call = [p \in MgCallers |-> MgIdle]
    /\ owner = [b \in Bufs |-> Nobody] /\ real = [p \in MgCallers |-> "none"]

At(p, pc) == call[p].pc = pc

\* The functions called in a loop: send_beacon, issue_deauth_ex, issue_nulldata,
\* send_delba. The others return to code that does not look at the result.
Looped == {"beacon", "deauth", "nulldata", "delba"}
Begins(p, op) == IF op \in Looped THEN At(p, "begin") /\ call[p].op = op
                 ELSE At(p, "idle") /\ op \in OpsOf[p]
Returned(p, r) == IF call[p].op \in Looped
                  THEN [call[p] EXCEPT !.pc = "after", !.ret = r, !.buf = NoBuf]
                  ELSE MgIdle
-----------------------------------------------------------------------------
(***************************************************************************)
(* Contexts and pools.                                                     *)
(***************************************************************************)
rtw_sctx_done(b, status) ==
    IF sctx[b] = Nobody THEN call ELSE [call EXCEPT ![sctx[b]].status = "success"]
\* The callers after rtw_sctx_done_err on the context buffer b points to.
rtw_sctx_done_err(b, status) ==
    IF sctx[b] = Nobody THEN call ELSE [call EXCEPT ![sctx[b]].status = status]
Unbound(b) == sctx' = [sctx EXCEPT ![b] = Nobody]

\* A frame and a buffer, or neither.
CanAlloc == freeFrames > 0 /\ freeBufs # <<>>
rtw_alloc_xmitframe_ext == freeFrames' = freeFrames - 1
rtw_alloc_xmitbuf_ext == freeBufs' = Tail(freeBufs) /\ Unbound(Head(freeBufs))
_alloc_mgtxmitframe(c) ==
    /\ CanAlloc
    /\ rtw_alloc_xmitframe_ext /\ rtw_alloc_xmitbuf_ext
    /\ call' = c
Woken == rtw_sctx_done_err(Head(freeBufs), "buf_alloc")

NotAllocated(p) ==
    /\ ~ CanAlloc
    /\ call' = [call EXCEPT ![p] = Returned(p, FALSE)]
    /\ UNCHANGED <<pools, sctx>>

\* The frame is built in the buffer, and the caller goes on to dump it; or it
\* returns and leaves both behind.
Built(p) ==
    /\ _alloc_mgtxmitframe([Woken EXCEPT ![p].pc = "dump", ![p].buf = Head(freeBufs)])
    /\ UNCHANGED lost
LostIn(p, where) ==
    /\ _alloc_mgtxmitframe([Woken EXCEPT ![p] = Returned(p, FALSE)])
    /\ lost' = lost \cup {<<Head(freeBufs), where>>}

rtw_free_xmitframe == freeFrames' = freeFrames + 1
rtw_free_xmitbuf_ext(b) == freeBufs' = Append(freeBufs, b)

Simple(p, op) ==
    /\ Begins(p, op)
    /\ Built(p) \/ NotAllocated(p)
    /\ UNCHANGED <<gone, usb>>
-----------------------------------------------------------------------------
(***************************************************************************)
(* The functions that build the frames.                                    *)
(***************************************************************************)
_issue_probereq(p) == Simple(p, "probereq")
issue_auth(p) == Simple(p, "auth")
_issue_nulldata(p) == Simple(p, "nulldata")
_issue_qos_nulldata(p) == Simple(p, "qos_nulldata")
_issue_deauth(p) == Simple(p, "deauth")
issue_action_spct_ch_switch(p) == Simple(p, "ch_switch")
issue_action_BA(p) == Simple(p, "ba")

\* Its callers only ask for WIFI_ASSOCRSP and WIFI_REASSOCRSP.
issue_asocrsp(p) == Simple(p, "asocrsp")

\* "beacon frame too large": more than 512 bytes with its descriptor.
issue_beacon(p) ==
    /\ Begins(p, "beacon")
    /\ Built(p) \/ LostIn(p, "beacon") \/ NotAllocated(p)
    /\ UNCHANGED <<gone, usb>>

\* More than MAX_IE_SZ bytes of elements.
issue_probersp(p) ==
    /\ Begins(p, "probersp")
    /\ Built(p) \/ LostIn(p, "probersp") \/ NotAllocated(p)
    /\ UNCHANGED <<gone, usb>>

\* Without a common rate the buffer and the frame are freed again.
NoCommonRateKeeps(p) ==
    /\ _alloc_mgtxmitframe([Woken EXCEPT ![p] = Returned(p, FALSE)])
    /\ UNCHANGED lost
NoCommonRate(p) ==
    /\ CanAlloc
    /\ freeBufs' = Append(Tail(freeBufs), Head(freeBufs)) /\ Unbound(Head(freeBufs))
    /\ call' = [Woken EXCEPT ![p] = Returned(p, FALSE)]
    /\ UNCHANGED <<freeFrames, lost>>
issue_assocreq(p) ==
    /\ Begins(p, "assocreq")
    /\ Built(p) \/ NoCommonRate(p) \/ NotAllocated(p)
    /\ UNCHANGED <<gone, usb>>

\* Nothing is sent unless some network is intolerant of 40 MHz, some is not HT
\* and the AP has not changed its width.
issue_action_BSSCoexistPacket(p) ==
    /\ Begins(p, "coexist")
    /\ \/ Built(p) \/ NotAllocated(p)
       \/ call' = [call EXCEPT ![p] = Returned(p, TRUE)] /\ UNCHANGED <<pools, sctx>>
    /\ UNCHANGED <<gone, usb>>

\* One DELBA for each agreement, whether or not a frame can be allocated.
send_delba(p) ==
    /\ Begins(p, "delba") /\ call[p].i > 0
    /\ Built(p) \/ NotAllocated(p)
    /\ UNCHANGED <<gone, usb>>
-----------------------------------------------------------------------------
(***************************************************************************)
(* Handing the frame over. The frame is freed as soon as the URB is        *)
(* submitted or refused; a refused buffer is freed at once.                *)
(***************************************************************************)
Waits(p) == call[p].op = "beacon"

\* Nothing is freed when the driver has stopped.
DumpStopped(p) ==
    /\ At(p, "dump") /\ gone
    /\ lost' = lost \cup {<<call[p].buf, "stopped">>}
    /\ call' = [call EXCEPT ![p] = Returned(p, ~ Waits(p))]
    /\ UNCHANGED <<gone, freeBufs, freeFrames, usb, sctx>>

\* rtw_sctx_init: the context is submitted and the buffer points to it.
dump_mgntframe_and_wait(p) ==
    /\ At(p, "dump") /\ ~ gone /\ Waits(p)
    /\ call' = [call EXCEPT ![p].pc = "transmit", ![p].status = "submitted"]
    /\ sctx' = [sctx EXCEPT ![call[p].buf] = p]
    /\ UNCHANGED <<gone, pools, usb>>

dump_mgntframe(p) ==
    /\ At(p, "dump") /\ ~ gone /\ ~ Waits(p)
    /\ call' = [call EXCEPT ![p].pc = "transmit"]
    /\ UNCHANGED <<gone, pools, usb, sctx>>

\* Where the caller goes when rtw_dump_xframe returns: its result does not tell
\* whether the last fragment was refused. dump_mgntframe_and_wait_ack only
\* sleeps for 50 ms.
rtw_dump_xframe(c, p) ==
    [c EXCEPT ![p] = IF Waits(p) THEN [@ EXCEPT !.pc = "wait"] ELSE Returned(p, TRUE)]

_rtlw_usb_transmit(p) ==
    LET b == call[p].buf IN
    /\ At(p, "transmit") /\ ~ gone
    /\ flight' = flight \cup {b}
    /\ owner' = [owner EXCEPT ![b] = IF Waits(p) THEN p ELSE Nobody]
    /\ rtw_free_xmitframe
    /\ call' = rtw_dump_xframe(call, p)
    /\ UNCHANGED <<gone, freeBufs, lost, ending, sctx, real>>

\* Stopped meanwhile or suspended ("deny"), or usb_submit_urb fails, which stops
\* the driver when the device is gone.
SubmitRefused(p, status) ==
    LET b == call[p].buf IN
    /\ At(p, "transmit") /\ (gone => status = "deny")
    /\ gone' = gone \/ (status = "error" /\ gone' = TRUE)
    /\ rtw_free_xmitframe /\ rtw_free_xmitbuf_ext(b)
    /\ call' = rtw_dump_xframe(rtw_sctx_done_err(b, status), p)
    /\ Unbound(b)
    /\ UNCHANGED <<lost, usb>>

\* The context is told under lock_sctx, then the buffer is freed; a URB that
\* failed for good stops the driver.
_rtl_tx_complete(b, status) ==
    /\ b \in flight
    /\ flight' = flight \ {b} /\ ending' = ending \cup {b}
    /\ call' = rtw_sctx_done_err(b, status) /\ Unbound(b)
    /\ gone' = gone \/ (status = "error" /\ gone' = TRUE)
    /\ real' = IF owner[b] = Nobody THEN real ELSE [real EXCEPT ![owner[b]] = status]
    /\ owner' = [owner EXCEPT ![b] = Nobody]
    /\ UNCHANGED pools

FreeAgain(b) ==
    /\ b \in ending /\ call' = rtw_sctx_done_err(b, "buf_free") /\ Unbound(b)
    /\ rtw_free_xmitbuf_ext(b) /\ Len(freeBufs) <= Cardinality(Bufs)
    /\ UNCHANGED <<gone, freeFrames, lost, usb>>
rtw_free_xmitbuf(b) ==
    /\ b \in ending /\ ending' = ending \ {b}
    /\ call' = rtw_sctx_done_err(b, "buf_free") /\ Unbound(b)
    /\ rtw_free_xmitbuf_ext(b)
    /\ UNCHANGED <<gone, freeFrames, lost, flight, owner, real>>

\* Completed, or the time is over.
rtw_sctx_wait(p) ==
    /\ At(p, "wait")
    /\ call' = [call EXCEPT ![p].pc = "clear", ![p].ret = (call[p].status = "success")]
    /\ UNCHANGED <<gone, pools, usb, sctx>>

ClearForgotten(p) ==
    /\ At(p, "clear")
    /\ call' = [call EXCEPT ![p] = [Returned(p, call[p].ret) EXCEPT !.status = "none"]]
    /\ owner' = [b \in Bufs |-> IF owner[b] = p THEN Nobody ELSE owner[b]]
    /\ real' = [real EXCEPT ![p] = "none"]
    /\ UNCHANGED <<gone, pools, flight, ending, sctx>>
\* Then the buffer's pointer is cleared, whoever has the buffer by now.
ClearSctx(p) ==
    /\ At(p, "clear")
    /\ Unbound(call[p].buf)
    /\ call' = [call EXCEPT ![p] = [Returned(p, call[p].ret) EXCEPT !.status = "none"]]
    /\ owner' = [b \in Bufs |-> IF owner[b] = p THEN Nobody ELSE owner[b]]
    /\ real' = [real EXCEPT ![p] = "none"]
    /\ UNCHANGED <<gone, pools, flight, ending>>
-----------------------------------------------------------------------------
(***************************************************************************)
(* The callers' loops. try_cnt: only a failed allocation is tried again,   *)
(* since a frame counts as sent when it was handed over. The last value of *)
(* i is the last attempt.                                                  *)
(***************************************************************************)
Attempts(op) ==
    CASE op = "deauth" -> {2} [] op = "nulldata" -> {1, 3}
      [] op = "beacon" -> {MaxBeacons} [] op = "delba" -> 0 .. MaxBa

Start(p, op) ==
    /\ At(p, "idle") /\ op \in OpsOf[p] \cap Looped
    /\ \E n \in Attempts(op) :
          call' = [call EXCEPT ![p] = [MgIdle EXCEPT !.pc = "begin", !.op = op, !.i = n]]
    /\ UNCHANGED <<gone, pools, usb, sctx>>

Repeats(p, more) ==
    /\ At(p, "after")
    /\ call' = [call EXCEPT ![p] = IF more /\ call[p].i > 1
                                   THEN [call[p] EXCEPT !.pc = "begin", !.i = call[p].i - 1, !.ret = FALSE]
                                   ELSE MgIdle]
    /\ UNCHANGED <<gone, pools, usb, sctx>>

issue_ex(p) == call[p].op \in {"deauth", "nulldata"} /\ Repeats(p, ~ call[p].ret /\ ~ gone)
delba_loop(p) == call[p].op = "delba" /\ Repeats(p, TRUE)
NoAgreement(p) ==
    /\ Begins(p, "delba") /\ call[p].i = 0
    /\ call' = [call EXCEPT ![p] = MgIdle] /\ UNCHANGED <<gone, pools, usb, sctx>>

\* send_beacon issues beacons, whatever issue_beacon did, until the chip says
\* that it has one (HW_VAR_BCN_VALID).
send_beacon(p) ==
    \E bxmitok \in BOOLEAN : call[p].op = "beacon" /\ Repeats(p, ~ bxmitok /\ ~ gone)

DeviceGone == ~ gone /\ gone' = TRUE /\ UNCHANGED <<pools, usb, sctx, call>>

Build(p) ==
    \/ issue_beacon(p) \/ issue_probersp(p) \/ _issue_probereq(p) \/ issue_auth(p)
    \/ issue_asocrsp(p) \/ issue_assocreq(p) \/ _issue_nulldata(p)
    \/ _issue_qos_nulldata(p) \/ _issue_deauth(p) \/ issue_action_spct_ch_switch(p)
    \/ issue_action_BA(p) \/ issue_action_BSSCoexistPacket(p) \/ send_delba(p)

MgStep(p) ==
    \/ Build(p) \/ NoAgreement(p)
    \/ DumpStopped(p) \/ dump_mgntframe_and_wait(p) \/ dump_mgntframe(p)
    \/ _rtlw_usb_transmit(p) \/ \E s \in {"deny", "error"} : SubmitRefused(p, s)
    \/ rtw_sctx_wait(p) \/ ClearSctx(p)
    \/ issue_ex(p) \/ delba_loop(p) \/ send_beacon(p)

MgDevice ==
    \E b \in Bufs : \/ rtw_free_xmitbuf(b)
                    \/ \E s \in {"success", "error"} : _rtl_tx_complete(b, s)

MgNext ==
    \/ \E p \in MgCallers : MgStep(p) \/ \E op \in Looped : Start(p, op)
    \/ MgDevice \/ DeviceGone

MgSpec == MgInit /\ [][MgNext]_mgVars
-----------------------------------------------------------------------------
Holds(p) == call[p].pc \in {"dump", "transmit"}
Held == {call[p].buf : p \in {q \in MgCallers : Holds(q)}}
LostBufs == {l[1] : l \in lost}
Pooled == {freeBufs[i] : i \in DOMAIN freeBufs}

\* _rtlw_usb_transmit and _rtl_tx_complete both free the buffer, and so does
\* issue_assocreq: a buffer is never in the pool twice, nor in the pool while the
\* USB core, its completion handler or a caller still has it.
BufOnce ==
    /\ \A i, j \in DOMAIN freeBufs : freeBufs[i] = freeBufs[j] => i = j
    /\ Pooled \cap (flight \cup ending \cup Held \cup LostBufs) = {}
    /\ flight \cap ending = {} /\ Held \cap (flight \cup ending) = {}
    /\ \A p, q \in MgCallers : p # q /\ Holds(p) /\ Holds(q) => call[p].buf # call[q].buf

\* The context is on the stack of dump_mgntframe_and_wait: when it returns,
\* after a completion, an error or a timeout, no buffer points to it.
NoDangling ==
    \A b \in Bufs : sctx[b] # Nobody =>
        call[sctx[b]].pc \in {"transmit", "wait", "clear"} /\ call[sctx[b]].buf = b

\* Every extension frame and buffer that no caller and no URB holds is in its
\* pool, except those that an oversized beacon or probe response or a stopped
\* driver left behind.
Accounted ==
    /\ Bufs = Pooled \cup flight \cup ending \cup Held \cup LostBufs
    /\ freeFrames = Cardinality(Bufs) - Cardinality(Held) - Cardinality(lost)
    /\ \A l \in lost : l[2] \in {"beacon", "probersp"} \/ (l[2] = "stopped" /\ gone)

\* rtw_sctx_wait: a caller is told that its frame went out only if the URB of
\* that very frame ended so, although the context of an earlier call lay at the
\* same place on the stack and the buffer goes to whoever allocates next.
ToldTrue ==
    \A p \in MgCallers : At(p, "clear") /\ call[p].ret => real[p] = "success"

\* Transmit buffers of management frames: each is in the pool once, with one
\* holder or with the USB core, and none is lost but those an oversized beacon
\* or probe response or a stopped driver left behind (_rtlw_usb_transmit,
\* _rtl_tx_complete, issue_assocreq).
BufsAccounted == BufOnce /\ Accounted

\* The submit context on the stack of dump_mgntframe_and_wait: no buffer
\* points to it once the call has returned, and a caller is told that its
\* frame went out only if the URB of that very frame ended so.
ContextSound == NoDangling /\ ToldTrue
=============================================================================
