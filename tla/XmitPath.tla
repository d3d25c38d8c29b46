------------------------------ MODULE XmitPath ------------------------------
(***************************************************************************)
(* The transmit path for data frames (os_dep/xmit_linux.c,                 *)
(* core/rtw_xmit.c, rtl8821au/trx.c, usb.c): packets from the stack, the   *)
(* flow control of its queues, the attributes and the port check, the      *)
(* direct way to the chip and the queues of the stations, the transmit     *)
(* tasklet and its aggregation of frames into one USB transfer, completion.*)
(*                                                                         *)
(* Frames are described by the lengths of their parts, a transfer by the   *)
(* places of descriptors and frames in it.  What is done under             *)
(* xmitpriv.lock is one step.  Stations that doze are in ApSleep, the      *)
(* buffers of management frames in MgntTx.                                 *)
(***************************************************************************)
EXTENDS Integers, Sequences, FiniteSets, Functions

CONSTANTS XpNets,      \* mode, cipher, qos, ht (A-MPDUs), sw (encryption), bulk size, frag_len
          XpPkts,      \* packets of the stack: length, kind, access category
          XpCallers,   \* contexts in rtw_xmit_entry at a time: one for each queue of the net
                       \* device, and an AP's receive path, which forwards
          XpBufs,      \* NR_XMITBUFF transmit buffers
          NrXmitFrame, \* NR_XMITFRAME transmit frames
          XmitLow,     \* 4: rtw_check_xmit_resource stops a queue
          XpSeq0,      \* initial txseq_tid
          BaAcs,       \* bound: access categories that get an agreement
          MaxXpTx, MaxXpFail \* bounds: packets, refused URBs

TXDESC_SIZE == 40
PACKET_OFFSET_SZ == 8
MAX_XMITBUF_SZ == 20480
LlcLen == 8                    \* SNAP_SIZE + sizeof(u16)
TxMicLen == 8
NoBuf == 0

ASSUME XpAssumption == /\ XpBufs \subseteq Nat \ {NoBuf} /\ IsFiniteSet(XpBufs) /\ IsFiniteSet(XpCallers)
                       /\ NrXmitFrame \in Nat /\ XmitLow \in Nat
                       /\ \A p \in XpPkts : p.ac \in {"vo", "vi", "be", "bk"}

\* USB 1, 2 and 3; the fragmentation threshold is not below what its default
\* value allows, so that a packet of the net device's MTU is one fragment.
ASSUME XpSizes ==
    \A n \in XpNets : /\ n.bulk \in {64, 512, 1024} /\ n.frag \in Nat /\ n.frag <= 2346
                      /\ \A p \in XpPkts : p.len \in Nat /\ p.len + 4 + 26 + 8 + LlcLen + 8 <= n.frag

Acs == <<"vo", "vi", "be", "bk">>     \* the order of hwxmits
AcSet == Range(Acs)
Rcpts == {"sta", "bc"}                \* the peer, and the entry for group frames
Qs == Rcpts \X AcSet

VARIABLES
    xpNet,
    xpLink,     \* up: the peer is linked; blocked; key: its keys are set
    xpBusy,     \* a survey: "no", "on" (_FW_UNDER_SURVEY), "ends"
    xpStop,     \* bDriverStopped
    xpQ,        \* sta_pending
    xpList,     \* access category -> tx_servqs in the list of its hwxmit
    xpFree,     \* free_xmitframe_cnt
    xpBuf,      \* buffer -> "free", "held" or "flight"
    xpCall,     \* caller -> where it is in rtw_xmit
    xpTask,     \* the transmit tasklet
    xpSched,    \* the tasklet is scheduled
    xpHalt,     \* stopped queues of the net device
    xpLost,     \* those whose last packet was refused
    xpTid,      \* queue -> txseq_tid, BA_starting_seqctrl, agreement, whether the last frame left it
    xpOut,      \* the latest transfer, while under way
    xpOff,      \* the aggregation loop has left the queue
    xpDry,      \* since the tasklet last ran, a frame was left or queued while the callers
                \* held every buffer
    xpCnt       \* packets, refused URBs

xpVars == <<xpNet, xpLink, xpBusy, xpStop, xpQ, xpList, xpFree, xpBuf, xpCall, xpTask,
            xpSched, xpHalt, xpLost, xpTid, xpOut, xpOff, xpDry, xpCnt>>

NoCaller == [at |-> "idle"]
NoTask == [at |-> "idle"]

_rtw_init_xmit_priv ==
    /\ xpNet \in XpNets
    /\ xpLink = [up |-> TRUE, blocked |-> xpNet.cipher \in {"tkip", "aes"}, key |-> FALSE]
    /\ xpBusy = "no" /\ xpStop = FALSE
    /\ xpQ = [q \in Qs |-> << >>] /\ xpList = [a \in AcSet |-> << >>]
    /\ xpFree = NrXmitFrame /\ xpBuf = [b \in XpBufs |-> "free"]
    /\ xpCall = [c \in XpCallers |-> NoCaller] /\ xpTask = NoTask
    /\ xpSched = FALSE /\ xpHalt = {} /\ xpLost = {}
    /\ xpTid = [q \in Qs |-> [seq |-> XpSeq0, start |-> 0, ba |-> "off", broke |-> "no"]]
    /\ xpOut = << >> /\ xpOff = FALSE /\ xpDry = FALSE /\ xpCnt = [tx |-> 0, fail |-> 0]
-----------------------------------------------------------------------------
(* Attributes of a packet *)

\* update_attrib_sec_info: refused while the port is blocked, unless EAPOL,
\* and with TKIP before its key is set.
SecEnc(p) ==
    IF xpLink.blocked \/ (xpNet.cipher = "wep" /\ p.kind = "eapol") THEN "none" ELSE xpNet.cipher
SecRefuses(p) ==
    \/ xpLink.blocked /\ p.kind # "eapol"
    \/ SecEnc(p) = "tkip" /\ ~ xpLink.key

\* qos_acm: admission control moves a packet to a lower category.
qos_acm(a) ==
    IF xpNet.mode # "sta" \/ a \notin xpNet.acm THEN a
    ELSE CASE a = "vo" -> "vi" [] a = "vi" -> "be" [] OTHER -> "bk"

\* update_attrib (set_qos included): without QoS everything is best effort.
update_attrib(p, to) ==
    LET enc == SecEnc(p)
    IN  [to |-> to, sub |-> p.ac,
         ac |-> IF ~ xpNet.qos THEN "be" ELSE qos_acm(IF p.kind = "eapol" THEN "vo" ELSE p.ac),
         special |-> p.kind = "eapol", enc |-> enc, sw |-> enc # "none" /\ xpNet.sw,
         hdr |-> IF xpNet.qos THEN 26 ELSE 24,
         iv |-> CASE enc = "wep" -> 4 [] enc \in {"tkip", "aes"} -> 8 [] OTHER -> 0,
         icv |-> CASE enc \in {"wep", "tkip"} -> 4 [] enc = "aes" -> 8 [] OTHER -> 0,
         pktlen |-> p.len]
QOf(f) == <<f.to, f.ac>>

\* As if the Michael code were forgotten.
xmitframe_need_length_NoMic(f) == f.hdr + f.iv + LlcLen + f.pktlen + (IF f.sw THEN f.icv ELSE 0)
\* xmitframe_need_length: a frame in a transfer, without fragmentation.
xmitframe_need_length(f) ==
    f.hdr + f.iv + LlcLen + f.pktlen + (IF f.sw THEN f.icv ELSE 0)
      + (IF f.enc = "tkip" THEN TxMicLen ELSE 0)
-----------------------------------------------------------------------------
(* Headers, sequence numbers, fragments *)

\* As if the numbers did not wrap.
TX_SN_LESS_Plain(a, b) == a < b
TX_SN_LESS(a, b) == (a - b) % 4096 >= 2048

\* rtw_make_wlanhdr: the next sequence number, and whether the frame may be
\* part of an A-MPDU.
rtw_make_wlanhdr(t) ==
    LET seq == (t.seq + 1) % 4096
        less == t.ba = "on" /\ TX_SN_LESS(seq, t.start)
    IN  [seq |-> seq, ba |-> t.ba, broke |-> IF less THEN "yes" ELSE "no",
         start |-> IF t.ba = "on" /\ ~ less THEN (seq + 1) % 4096 ELSE t.start]

\* rtw_xmitframe_coalesce and xmitframe_addmic: the number of fragments and
\* the length of the last one (last_txcmdsz).
Icv(f) == IF f.sw THEN f.icv ELSE 0
FirstRoom(f) == xpNet.frag - 4 - f.hdr - f.iv - LlcLen - Icv(f)
NextRoom(f) == xpNet.frag - 4 - f.hdr - f.iv - Icv(f)
nr_frags(f) ==
    IF f.to = "bc" \/ f.pktlen <= FirstRoom(f) THEN 1
    ELSE 1 + ((f.pktlen - FirstRoom(f) + NextRoom(f) - 1) \div NextRoom(f))
last_txcmdsz(f) ==
    LET n == nr_frags(f)
        mem == IF n = 1 THEN f.pktlen ELSE f.pktlen - FirstRoom(f) - (n - 2) * NextRoom(f)
    IN  f.hdr + f.iv + (IF n = 1 THEN LlcLen ELSE 0) + Icv(f) + mem
          + (IF f.enc = "tkip" THEN TxMicLen ELSE 0)

\* Fails when the peer is gone, and without a Michael key.
CoalesceOk(f) == (f.to = "sta" => xpLink.up) /\ (f.enc = "tkip" => xpLink.key)
-----------------------------------------------------------------------------
(* Transfers *)

Round8(n) == ((n + 7) \div 8) * 8

\* rtw_usb_bulk_size_boundary: at super speed the second test decides.
rtw_usb_bulk_size_boundary(n) == n % (IF xpNet.bulk = 512 THEN 512 ELSE 64) = 0

\* A frame of a transfer: descriptor at pos with pkt_offset off, then the frame.
Packet(f, pos, off, data) ==
    [pos |-> pos, off |-> off, size |-> last_txcmdsz(f), data |-> data, len |-> xmitframe_need_length(f)]

\* update_txdesc and rtw_dump_xframe for a single frame, whose header is after
\* a descriptor and 8 bytes: they are left out unless the size needs them.
DirectTransfer(f) ==
    LET sz == last_txcmdsz(f)
        pull == ~ rtw_usb_bulk_size_boundary(TXDESC_SIZE + sz)
        start == IF pull THEN PACKET_OFFSET_SZ ELSE 0
    IN  [start |-> start, cnt |-> sz + TXDESC_SIZE + PACKET_OFFSET_SZ - start, agg |-> 1,
         pkts |-> <<Packet(f, start, IF pull THEN 0 ELSE 1, TXDESC_SIZE + PACKET_OFFSET_SZ)>>]

\* rtl8812au_xmitframe_complete: the first frame, and the places of the others.
FirstTail(f) == xmitframe_need_length(f) + TXDESC_SIZE + PACKET_OFFSET_SZ
Fits(tail, f) == Round8(Round8(tail) + xmitframe_need_length(f) + TXDESC_SIZE) <= MAX_XMITBUF_SZ
NextTail(tail, f) == Round8(tail) + xmitframe_need_length(f) + TXDESC_SIZE
AggTransfer(f, more) ==
    LET tail == IF more = << >> THEN FirstTail(f) ELSE NextTail(FirstTail(f), more[1])
        less == tail % xpNet.bulk = 0
        start == IF less THEN PACKET_OFFSET_SZ ELSE 0
        first == Packet(f, start, IF less THEN 0 ELSE 1, TXDESC_SIZE + PACKET_OFFSET_SZ)
        pos2 == Round8(FirstTail(f))
    IN  [start |-> start, cnt |-> tail - start, agg |-> 1 + Len(more),
         pkts |-> IF more = << >> THEN <<first>>
                  ELSE <<first, Packet(more[1], pos2, 0, pos2 + TXDESC_SIZE)>>]
-----------------------------------------------------------------------------
(* Frames, queues of the net device, buffers *)

\* As if a queue were woken only when frames are plenty.
rtw_os_pkt_complete_Late(subs) ==
    /\ xpHalt' = IF xpFree > XmitLow THEN xpHalt \ subs ELSE xpHalt
    /\ xpLost' = xpLost \ subs
\* rtw_os_pkt_complete for packets of the queues subs: a stopped queue is woken.
rtw_os_pkt_complete(subs) == xpHalt' = xpHalt \ subs /\ xpLost' = xpLost \ subs

\* rtw_free_xmitframe of n frames.
rtw_free_xmitframe(n) == xpFree' = xpFree + n

rtw_txframes_pending == \E a \in AcSet : xpList[a] # << >>
FreeBufs == {b \in XpBufs : xpBuf[b] = "free"}
CallersHoldAll == \A b \in XpBufs : \E c \in XpCallers : xpCall[c].at = "direct" /\ xpCall[c].b = b

\* list_del_init: the tx_servq of r leaves the list of a hwxmit, if it is there.
Delisted(list, r) ==
    IF r \notin Range(list) THEN list
    ELSE LET i == CHOOSE i \in DOMAIN list : list[i] = r
         IN  SubSeq(list, 1, i - 1) \o SubSeq(list, i + 1, Len(list))

\* rtw_xmit_classifier.
rtw_xmit_classifier(f) ==
    /\ xpQ' = [xpQ EXCEPT ![QOf(f)] = Append(@, f)]
    /\ xpList' = IF f.to \in Range(xpList[f.ac]) THEN xpList
                 ELSE [xpList EXCEPT ![f.ac] = Append(@, f.to)]

\* _rtlw_usb_transmit: submitted, or refused and the buffer freed.
_rtlw_usb_transmit(b, t) ==
    \/ ~ xpStop /\ xpBuf' = [xpBuf EXCEPT ![b] = "flight"] /\ xpOut' = <<t>> /\ UNCHANGED xpCnt
    \/ /\ xpStop \/ xpCnt.fail < MaxXpFail
       /\ xpCnt' = IF xpStop THEN xpCnt ELSE [xpCnt EXCEPT !.fail = @ + 1]
       /\ xpBuf' = [xpBuf EXCEPT ![b] = "free"] /\ xpOut' = << >>

\* rtw_issue_addbareq_cmd, when the traffic of the period is large enough.
rtw_issue_addbareq_cmd(tid, f) ==
    IF f.special \/ f.to = "bc" \/ ~ xpLink.up \/ tid.ba # "off" \/ ~ xpNet.ht \/ f.ac \notin BaAcs THEN {tid}
    ELSE {tid, [tid EXCEPT !.ba = "asked"]}
-----------------------------------------------------------------------------
(* The stack hands a packet over *)

\* rtw_mlcst2unicst: in AP mode an IP multicast packet goes to the stations
\* one by one, when there are frames enough.
ToOf(p) ==
    IF xpNet.mode = "sta" \/ p.kind \notin {"mcast", "bcast"} THEN "sta"
    ELSE IF p.kind = "mcast" /\ xpFree > NrXmitFrame \div 4 THEN "sta" ELSE "bc"

Refuses(p, to) == (to = "sta" /\ ~ xpLink.up) \/ SecRefuses(p)

\* rtw_xmit_entry with rtw_check_xmit_resource and rtw_xmit up to hal_xmit.  An
\* AP forwards whether the queue is stopped or not.
rtw_xmit_entry(c, p) ==
    /\ xpCall[c] = NoCaller /\ xpCnt.tx < MaxXpTx /\ (p.ac \in xpHalt => xpNet.mode = "ap")
    /\ xpCnt' = [xpCnt EXCEPT !.tx = @ + 1]
    /\ xpHalt' = IF xpFree <= XmitLow THEN xpHalt \cup {p.ac} ELSE xpHalt
    /\ \/ /\ xpFree = 0 \/ Refuses(p, ToOf(p))
          /\ xpLost' = xpLost \cup (xpHalt' \cap {p.ac})
          /\ UNCHANGED <<xpFree, xpCall>>
       \/ /\ xpFree > 0 /\ ~ Refuses(p, ToOf(p))
          /\ xpFree' = xpFree - 1
          /\ xpCall' = [xpCall EXCEPT ![c] = [at |-> "pre", f |-> update_attrib(p, ToOf(p))]]
          /\ UNCHANGED xpLost
    /\ UNCHANGED <<xpNet, xpLink, xpBusy, xpStop, xpQ, xpList, xpBuf, xpTask, xpSched, xpTid, xpOut, xpOff, xpDry>>

Ahead(f) == (f.to = "sta" => xpLink.up) /\ xpQ[QOf(f)] # << >>

\* pre_xmitframe under the lock: the direct way, or into the queue.
PreDirect(c) ==
    LET f == xpCall[c].f
    IN  /\ xpCall[c].at = "pre" /\ ~ Ahead(f) /\ xpBusy # "on"
        /\ \E b \in FreeBufs :
             /\ \A d \in FreeBufs : b <= d
             /\ xpBuf' = [xpBuf EXCEPT ![b] = "held"]
             /\ xpCall' = [xpCall EXCEPT ![c] = [at |-> "direct", f |-> f, b |-> b]]
        /\ UNCHANGED <<xpNet, xpLink, xpBusy, xpStop, xpQ, xpList, xpFree, xpTask, xpSched,
                       xpHalt, xpLost, xpTid, xpOut, xpOff, xpCnt, xpDry>>

PreEnqueue(c) ==
    LET f == xpCall[c].f
    IN  /\ xpCall[c].at = "pre" /\ (Ahead(f) \/ xpBusy = "on" \/ FreeBufs = {})
        /\ xpCall' = [xpCall EXCEPT ![c] = NoCaller]
        /\ \/ /\ f.to = "sta" => xpLink.up
              /\ rtw_xmit_classifier(f) /\ UNCHANGED <<xpFree, xpHalt, xpLost>>
              /\ xpDry' = (xpDry \/ (xpTask = NoTask /\ CallersHoldAll))
           \/ /\ f.to = "sta" /\ ~ xpLink.up
              /\ rtw_free_xmitframe(1) /\ rtw_os_pkt_complete({f.sub}) /\ UNCHANGED <<xpQ, xpList, xpDry>>
        /\ UNCHANGED <<xpNet, xpLink, xpBusy, xpStop, xpBuf, xpTask, xpSched, xpTid, xpOut, xpOff, xpCnt>>

\* xmitframe_direct: coalesce, and rtw_dump_xframe, which frees the frame.
\* Fragments after the first find their URB in use; see the bound on frag.
xmitframe_direct(c) ==
    LET f == xpCall[c].f
        q == QOf(f)
        b == xpCall[c].b
    IN  /\ xpCall[c].at = "direct"
        /\ xpCall' = [xpCall EXCEPT ![c] = NoCaller]
        /\ rtw_free_xmitframe(1) /\ rtw_os_pkt_complete({f.sub})
        /\ \/ /\ CoalesceOk(f) /\ _rtlw_usb_transmit(b, DirectTransfer(f))
              /\ \E t \in rtw_issue_addbareq_cmd(rtw_make_wlanhdr(xpTid[q]), f) :
                   xpTid' = [xpTid EXCEPT ![q] = t]
           \/ /\ ~ CoalesceOk(f) /\ xpBuf' = [xpBuf EXCEPT ![b] = "free"]
              /\ UNCHANGED <<xpTid, xpOut, xpCnt>>
        /\ UNCHANGED <<xpNet, xpLink, xpBusy, xpStop, xpQ, xpList, xpTask, xpSched, xpOff, xpDry>>
-----------------------------------------------------------------------------
(* The transmit tasklet *)

\* rtl8812au_xmit_tasklet: nothing is sent during a survey.
TaskStart ==
    /\ xpSched /\ xpTask = NoTask /\ xpSched' = FALSE /\ xpDry' = FALSE
    /\ xpTask' = IF xpBusy = "on" THEN NoTask ELSE [at |-> "loop"]
    /\ UNCHANGED <<xpNet, xpLink, xpBusy, xpStop, xpQ, xpList, xpFree, xpBuf, xpCall,
                   xpHalt, xpLost, xpTid, xpOut, xpOff, xpCnt>>

\* rtw_dequeue_xframe: the first listed tx_servq of the highest category.
Listed == {<<xpList[a][1], a>> : a \in {x \in AcSet : xpList[x] # << >>}}
Rank(a) == CHOOSE i \in DOMAIN Acs : Acs[i] = a
FirstListed == CHOOSE q \in Listed : \A r \in Listed : Rank(q[2]) <= Rank(r[2])

Dequeue(b) ==
    LET q == FirstListed
        rest == Tail(xpQ[q])
    IN  /\ xpQ' = [xpQ EXCEPT ![q] = rest]
        /\ xpList' = IF rest = << >> THEN [xpList EXCEPT ![q[2]] = Tail(@)] ELSE xpList
        /\ xpTask' = [at |-> "first", f |-> Head(xpQ[q]), b |-> b]

\* The loop of the tasklet, up to the first frame of a transfer.
TaskTake ==
    /\ xpTask.at = "loop"
    /\ \/ /\ xpStop \/ FreeBufs = {} \/ ~ rtw_txframes_pending
          /\ xpTask' = NoTask /\ xpDry' = (rtw_txframes_pending /\ CallersHoldAll)
          /\ UNCHANGED <<xpQ, xpList, xpBuf>>
       \/ /\ ~ xpStop /\ rtw_txframes_pending
          /\ \E b \in FreeBufs : /\ \A d \in FreeBufs : b <= d
                                 /\ xpBuf' = [xpBuf EXCEPT ![b] = "held"] /\ Dequeue(b)
          /\ UNCHANGED xpDry
    /\ UNCHANGED <<xpNet, xpLink, xpBusy, xpStop, xpFree, xpCall, xpSched, xpHalt, xpLost,
                   xpTid, xpOut, xpOff, xpCnt>>

\* The first frame is coalesced and its packet completed, or freed for the
\* next one.
TaskFirst ==
    LET f == xpTask.f
    IN  /\ xpTask.at = "first" /\ rtw_os_pkt_complete({f.sub})
        /\ \/ /\ CoalesceOk(f)
              /\ xpTid' = [xpTid EXCEPT ![QOf(f)] = rtw_make_wlanhdr(@)]
              /\ xpTask' = [at |-> "agg", f |-> f, b |-> xpTask.b]
              /\ UNCHANGED <<xpQ, xpList, xpFree, xpBuf>>
           \/ /\ ~ CoalesceOk(f) /\ rtw_txframes_pending
              /\ rtw_free_xmitframe(1) /\ Dequeue(xpTask.b) /\ UNCHANGED <<xpTid, xpBuf>>
           \/ /\ ~ CoalesceOk(f) /\ ~ rtw_txframes_pending
              /\ rtw_free_xmitframe(1) /\ xpBuf' = [xpBuf EXCEPT ![xpTask.b] = "free"]
              /\ xpTask' = NoTask /\ UNCHANGED <<xpTid, xpQ, xpList>>
        /\ UNCHANGED <<xpNet, xpLink, xpBusy, xpStop, xpCall, xpSched, xpOut, xpOff, xpCnt, xpDry>>

\* The aggregation loop, under the lock.  It takes and frees the next frame of
\* the same queue.  Its list pointer then stands on a frame that is in the
\* list of free frames, and what it takes for the frame after that is not one
\* of the queue: the length found there ends the loop, or memory is damaged.
TaskAggregate ==
    LET f == xpTask.f
        q == QOf(f)
        g == Head(xpQ[q])
        rest == Tail(xpQ[q])
        last == rest = << >> /\ f.to \in Range(xpList[f.ac])
    IN  /\ xpTask.at = "agg"
        /\ \/ /\ ~ (xpQ[q] # << >> /\ Fits(FirstTail(f), g))
              /\ xpTask' = [at |-> "send", f |-> f, b |-> xpTask.b, more |-> << >>]
              /\ UNCHANGED <<xpQ, xpList, xpFree, xpHalt, xpLost, xpTid, xpOff>>
           \/ /\ xpQ[q] # << >> /\ Fits(FirstTail(f), g)
              /\ xpQ' = [xpQ EXCEPT ![q] = rest]
              /\ xpList' = IF last THEN [xpList EXCEPT ![f.ac] = Delisted(@, f.to)] ELSE xpList
              /\ rtw_free_xmitframe(1) /\ rtw_os_pkt_complete({g.sub})
              /\ xpTid' = IF CoalesceOk(g) THEN [xpTid EXCEPT ![q] = rtw_make_wlanhdr(@)] ELSE xpTid
              /\ xpTask' = [at |-> "send", f |-> f, b |-> xpTask.b,
                            more |-> IF CoalesceOk(g) THEN <<g>> ELSE << >>]
              /\ xpOff' \in {FALSE, TRUE}
        /\ UNCHANGED <<xpNet, xpLink, xpBusy, xpStop, xpBuf, xpCall, xpSched, xpOut, xpCnt, xpDry>>

\* The rest of rtl8812au_xmitframe_complete, and the next turn of the tasklet.
TaskSend ==
    LET f == xpTask.f
    IN  /\ xpTask.at = "send" /\ ~ xpOff
        /\ _rtlw_usb_transmit(xpTask.b, AggTransfer(f, xpTask.more))
        /\ \E t \in rtw_issue_addbareq_cmd(xpTid[QOf(f)], f) : xpTid' = [xpTid EXCEPT ![QOf(f)] = t]
        /\ rtw_free_xmitframe(1)
        /\ xpTask' = [at |-> "loop"]
        /\ UNCHANGED <<xpNet, xpLink, xpBusy, xpStop, xpQ, xpList, xpCall, xpSched, xpHalt, xpLost, xpOff, xpDry>>
-----------------------------------------------------------------------------
(* Completion, survey, keys, the agreement, the end of the link *)

\* As if the completion did not schedule the tasklet.
_rtl_tx_complete_Quiet(b) ==
    /\ xpBuf[b] = "flight" /\ xpBuf' = [xpBuf EXCEPT ![b] = "free"]
    /\ UNCHANGED <<xpNet, xpLink, xpBusy, xpStop, xpQ, xpList, xpFree, xpCall, xpTask, xpSched,
                   xpHalt, xpLost, xpTid, xpOut, xpOff, xpCnt, xpDry>>
\* _rtl_tx_complete: whatever the status, the buffer is free and the tasklet
\* runs again.
_rtl_tx_complete(b) ==
    /\ xpBuf[b] = "flight" /\ xpBuf' = [xpBuf EXCEPT ![b] = "free"]
    /\ xpSched' = TRUE /\ xpOut' = << >>
    /\ UNCHANGED <<xpNet, xpLink, xpBusy, xpStop, xpQ, xpList, xpFree, xpCall, xpTask,
                   xpHalt, xpLost, xpTid, xpOff, xpCnt, xpDry>>

\* A survey; rtw_surveydone_event_callback first clears the flag and calls
\* rtw_os_xmit_schedule at its end.
SurveyStep ==
    /\ \/ xpBusy = "no" /\ xpBusy' = "on" /\ xpNet.mode = "sta" /\ xpCnt.tx < MaxXpTx
       \/ xpBusy = "on" /\ xpBusy' = "ends"
    /\ UNCHANGED <<xpNet, xpLink, xpStop, xpQ, xpList, xpFree, xpBuf, xpCall, xpTask, xpSched,
                   xpHalt, xpLost, xpTid, xpOut, xpOff, xpCnt, xpDry>>
rtw_os_xmit_schedule ==
    /\ xpBusy = "ends" /\ xpBusy' = "no" /\ xpSched' = (xpSched \/ rtw_txframes_pending)
    /\ UNCHANGED <<xpNet, xpLink, xpStop, xpQ, xpList, xpFree, xpBuf, xpCall, xpTask,
                   xpHalt, xpLost, xpTid, xpOut, xpOff, xpCnt, xpDry>>

\* The keys of the peer, which open its port.
KeysSet ==
    /\ xpLink.blocked /\ xpLink' = [xpLink EXCEPT !.blocked = FALSE, !.key = TRUE]
    /\ UNCHANGED <<xpNet, xpBusy, xpStop, xpQ, xpList, xpFree, xpBuf, xpCall, xpTask, xpSched,
                   xpHalt, xpLost, xpTid, xpOut, xpOff, xpCnt, xpDry>>

\* issue_action_BA with the request, OnAction_back with the answer.
IssueAddba(q) ==
    /\ xpTid[q].ba = "asked"
    /\ xpTid' = [xpTid EXCEPT ![q] = [seq |-> @.seq, start |-> (@.seq + 1) % 4096,
                                       ba |-> "sent", broke |-> @.broke]]
    /\ UNCHANGED <<xpNet, xpLink, xpBusy, xpStop, xpQ, xpList, xpFree, xpBuf, xpCall, xpTask,
                   xpSched, xpHalt, xpLost, xpOut, xpOff, xpCnt, xpDry>>
AddbaResponse(q) ==
    /\ xpTid[q].ba = "sent" /\ xpTid' = [xpTid EXCEPT ![q].ba = "on"]
    /\ UNCHANGED <<xpNet, xpLink, xpBusy, xpStop, xpQ, xpList, xpFree, xpBuf, xpCall, xpTask,
                   xpSched, xpHalt, xpLost, xpOut, xpOff, xpCnt, xpDry>>

\* rtw_free_stainfo: what waits for the peer is freed.
PeerQs == {q \in Qs : q[1] = "sta"}
PeerGone ==
    LET n(a) == Len(xpQ[<<"sta", a>>])
    IN  /\ xpLink.up /\ xpLink' = [xpLink EXCEPT !.up = FALSE]
        /\ xpQ' = [q \in Qs |-> IF q \in PeerQs THEN << >> ELSE xpQ[q]]
        /\ xpList' = [a \in AcSet |-> Delisted(xpList[a], "sta")]
        /\ rtw_free_xmitframe(n("vo") + n("vi") + n("be") + n("bk"))
        /\ rtw_os_pkt_complete(UNION {{f.sub : f \in Range(xpQ[q])} : q \in PeerQs})
        /\ UNCHANGED <<xpNet, xpBusy, xpStop, xpBuf, xpCall, xpTask, xpSched, xpTid, xpOut, xpOff, xpCnt, xpDry>>

DriverStops ==
    /\ ~ xpStop /\ xpStop' = TRUE
    /\ UNCHANGED <<xpNet, xpLink, xpBusy, xpQ, xpList, xpFree, xpBuf, xpCall, xpTask, xpSched,
                   xpHalt, xpLost, xpTid, xpOut, xpOff, xpCnt, xpDry>>

XpNext ==
    /\ ~ xpOff
    /\ \/ \E c \in XpCallers : \/ \E p \in XpPkts : rtw_xmit_entry(c, p)
                               \/ PreDirect(c) \/ PreEnqueue(c) \/ xmitframe_direct(c)
       \/ TaskStart \/ TaskTake \/ TaskFirst \/ TaskAggregate \/ TaskSend
       \/ \E b \in XpBufs : _rtl_tx_complete(b)
       \/ SurveyStep \/ rtw_os_xmit_schedule \/ KeysSet
       \/ \E q \in Qs : IssueAddba(q) \/ AddbaResponse(q)
       \/ PeerGone \/ DriverStops

XpSpec == _rtw_init_xmit_priv /\ [][XpNext]_xpVars
-----------------------------------------------------------------------------
\* Reading a transfer the way the chip does, from the sizes and offsets in its
\* descriptors and with the next descriptor at the next multiple of 8, finds
\* every frame where rtw_xmitframe_coalesce put it, whole, and the end of the
\* transfer after the last one; the transfer fits its buffer and does not end
\* on a full USB packet (update_txdesc, rtl8812au_xmitframe_complete).
EndOf(p) == p.data + p.size
Whole(t) ==
    /\ t.cnt % xpNet.bulk # 0 /\ t.start + t.cnt <= MAX_XMITBUF_SZ
    /\ Len(t.pkts) = t.agg
    /\ \A k \in 1..t.agg :
         LET p == t.pkts[k]
         IN  /\ p.pos = IF k = 1 THEN t.start ELSE Round8(EndOf(t.pkts[k - 1]))
             /\ p.pos + TXDESC_SIZE + PACKET_OFFSET_SZ * p.off = p.data
             /\ p.size = p.len
    /\ t.start + t.cnt = EndOf(t.pkts[t.agg])
TransferWhole == \A i \in DOMAIN xpOut : Whole(xpOut[i])

\* A frame that waits in a queue has something that will send it: the tasklet
\* runs or is scheduled, a transfer is under way whose completion schedules
\* it, or a survey whose end does (pre_xmitframe, which schedules nothing,
\* _rtl_tx_complete, rtw_os_xmit_schedule).  Excepted is a frame that was
\* queued, or left by the tasklet, while every buffer was in the hands of a
\* caller: if none of these is submitted, nothing schedules the tasklet.
NoStrandedFrame ==
    rtw_txframes_pending =>
      xpBusy # "no" \/ xpStop \/ xpSched \/ xpTask # NoTask \/ xpDry \/ \E b \in XpBufs : xpBuf[b] = "flight"

\* A stopped queue of the net device has a packet under way whose completion
\* wakes it, or the packet that stopped it was refused
\* (rtw_check_xmit_resource, rtw_os_pkt_complete).
UnderWay(s) ==
    \/ \E q \in Qs : \E f \in Range(xpQ[q]) : f.sub = s
    \/ \E c \in XpCallers : xpCall[c] # NoCaller /\ xpCall[c].f.sub = s
    \/ xpTask.at = "first" /\ xpTask.f.sub = s
QueueWakes == \A s \in xpHalt : UnderWay(s) \/ s \in xpLost

\* With an agreement every frame may be part of an A-MPDU, also when frames
\* went out between its request and its answer and when the sequence numbers
\* wrap (rtw_make_wlanhdr).
AmpduUsed == \A q \in Qs : xpTid[q].broke = "no"

\* "aggregate same priority and same DA(AP or STA) frames": the loop works on
\* the frames of that queue only.
AggInQueue == ~ xpOff

\* No frame waits in a queue without somebody who will send it, but for one
\* left while the callers held every buffer, and no queue of the stack stays
\* stopped without a packet whose completion wakes it, but for one stopped for
\* a packet that was refused (rtw_os_xmit_schedule, _rtl_tx_complete,
\* rtw_os_pkt_complete).
NothingStranded == NoStrandedFrame /\ QueueWakes
=============================================================================
