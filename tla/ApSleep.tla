------------------------------ MODULE ApSleep ------------------------------
(***************************************************************************)
(* Access point mode: frames for stations that doze (core/rtw_xmit.c,      *)
(* rtw_recv.c, rtw_ap.c and the two commands of the thread).               *)
(*                                                                         *)
(* A frame for a dozing station waits in its sleep_q until the station     *)
(* wakes, polls for it (PS-Poll) or triggers its delivery (WMM-PS). Group  *)
(* frames wait in the sleep_q of the broadcast station while anybody       *)
(* dozes, until a beacon has announced them; they then go out through the  *)
(* high queue of the chip (HIQ). tim_bitmap, shown in the beacon, tells    *)
(* the stations what waits for them, sta_dz_bitmap is who dozes.           *)
(*                                                                         *)
(* What happens under xmitpriv.lock is one step, and so is rtw_free_stainfo*)
(* (the callers hold sta_hash_lock, which every look-up takes). A frame is *)
(* known by its access category and by what lets it pass to the chip.      *)
(***************************************************************************)
EXTENDS Integers, Sequences, FiniteSets

CONSTANTS
    Stas, Bmc,      \* the stations and the broadcast station
    Kinds,          \* the WMM-PS classes of stations that associate
    Acs,            \* the access categories: two of the four tell all apart
    NR_XMITFRAME,
    W,              \* sleepq_len and sleepq_ac_len are unsigned: modulo W
    Smp,            \* do contexts run in parallel?
    MaxCmds         \* bound: nothing new begins with this many commands queued

AllKinds == {"legacy", "mixed", "uapsd"}
AllAcs == {"be", "vo"}

ASSUME ApSleepAssumption ==
    /\ IsFiniteSet(Stas) /\ Bmc \notin Stas /\ Kinds \subseteq AllKinds
    /\ "be" \in Acs /\ Acs \subseteq AllAcs /\ NR_XMITFRAME \in Nat
    /\ W \in Nat /\ NR_XMITFRAME + 1 < W /\ Smp \in BOOLEAN /\ MaxCmds \in Nat

VARIABLES
    kind,                      \* qos_info of a station, "none": not associated
    sleeping,                  \* who has WIFI_SLEEP_STATE
    sta_dz_bitmap, tim_bitmap,
    bcn_tim,                   \* the TIM element of the beacon
    sleep_q, sleepq_len, sleepq_ac_len,
    sta_pending,               \* the frames of a tx_servq
    tx_pending,                \* the tx_servqs in the lists of hwxmits
    free_xmitframe_cnt,
    xmit,                      \* the frame rtw_xmit has in its hands
    pc, rx,                    \* receive tasklet, timer; the received frame
    cmd_queue, thread,         \* the command thread
    hiq                        \* the high queue of the chip holds frames

bits == <<sta_dz_bitmap, tim_bitmap>>
beacon == <<bcn_tim, cmd_queue>>
dozing == <<sleep_q, sleepq_len, sleepq_ac_len>>
queues == <<sta_pending, tx_pending>>
vars == <<kind, sleeping, bits, beacon, dozing, queues, free_xmitframe_cnt, xmit,
          pc, rx, thread, hiq>>

Rcpts == Stas \cup {Bmc}
Servqs == (Stas \X Acs) \cup {<<Bmc, "be">>}
Passes == {"plain", "triggered", "hiq"}     \* triggered, and tx_qsel is HIQ
NoRx == [sta |-> Bmc, qos |-> FALSE, ac |-> "be"]
NoXmit == [to |-> Bmc, ac |-> "none"]

TypeOK ==
    /\ kind \in [Stas -> AllKinds \cup {"none"}]
    /\ sleeping \subseteq Stas
    /\ sta_dz_bitmap \subseteq Rcpts /\ tim_bitmap \subseteq Rcpts
    /\ bcn_tim \subseteq Rcpts
    /\ sleep_q \in [Rcpts -> Seq(Acs)]
    /\ sleepq_len \in [Rcpts -> 0 .. W - 1]
    /\ sleepq_ac_len \in [Stas -> 0 .. W - 1]
    /\ sta_pending \in [Servqs -> Seq(Passes)]
    /\ tx_pending \subseteq Servqs
    /\ free_xmitframe_cnt \in 0 .. NR_XMITFRAME
    /\ xmit \in [to : Rcpts, ac : Acs] \cup {NoXmit}
    /\ pc \in [{"rx", "timer"} -> {"idle", "update", "wmmps", "pspoll"}]
    /\ rx \in [sta : Rcpts, qos : BOOLEAN, ac : Acs]
    /\ cmd_queue \in Seq({"TxBeacon", "ChkHiq"})
    /\ thread \in {"idle", "bmc_wait", "hiq_wait"}
    /\ hiq \in BOOLEAN

Init ==
    /\ kind = [s \in Stas |-> "none"] /\ sleeping = {}
    /\ sta_dz_bitmap = {} /\ tim_bitmap = {} /\ bcn_tim = {}
    /\ sleep_q = [r \in Rcpts |-> << >>]
    /\ sleepq_len = [r \in Rcpts |-> 0] /\ sleepq_ac_len = [s \in Stas |-> 0]
    /\ sta_pending = [q \in Servqs |-> << >>] /\ tx_pending = {}
    /\ free_xmitframe_cnt = NR_XMITFRAME /\ xmit = NoXmit
    /\ pc = [c \in {"rx", "timer"} |-> "idle"] /\ rx = NoRx
    /\ cmd_queue = << >> /\ thread = "idle" /\ hiq = FALSE
-----------------------------------------------------------------------------
\* rtw_xmit is called with bottom halves disabled and the receive tasklet and
\* the timer are bottom halves: on one processor each runs to its end.
Runs(c) ==
    \/ Smp
    \/ /\ c = "xmit" \/ xmit = NoXmit
       /\ \A d \in {"rx", "timer"} : c = d \/ pc[d] = "idle"
Begins(c) == Runs(c) /\ Len(cmd_queue) < MaxCmds
Goto(c, l) == pc' = [pc EXCEPT ![c] = l]
RxGoto(l, f) == Goto("rx", l) /\ rx' = IF l = "idle" THEN NoRx ELSE f

\* uapsd_vo, uapsd_be: OnAssocReq sets both bits of the delivery-enabled
\* categories; "mixed" stations have one, "uapsd" stations all of them.
Wmmps(s, a) == kind[s] = "uapsd" \/ (kind[s] = "mixed" /\ a = "vo")
has_legacy_ac(s) == kind[s] # "uapsd"

\* A loop over the list q that takes the frames in S and leaves the others.
Only(q, S) ==
    LET f[n \in 0 .. Len(q)] ==
            IF n = 0 THEN << >>
            ELSE IF q[n] \in S THEN Append(f[n - 1], q[n]) ELSE f[n - 1]
    IN  f[Len(q)]
Delivery(s) == {a \in Acs : Wmmps(s, a)}
CountWmmps(s, q) == Len(Only(q, Delivery(s)))

\* update_beacon(_TIM_IE_), n times, the last time with TIM t: update_BCNTIM
\* writes the element and enqueues a _TX_Beacon command.
Beacons(n) == [i \in 1 .. n |-> "TxBeacon"]
UpdateBeacon(t, n) ==
    /\ bcn_tim' = IF n > 0 THEN t ELSE bcn_tim
    /\ cmd_queue' = cmd_queue \o Beacons(n)

\* hal_xmitframe_enqueue of the frames q, all marked m: rtw_xmit_classifier
\* puts each into the tx_servq of its category and lists that.
Marked(m, n) == [i \in 1 .. n |-> m]
Classify(r, q, m) ==
    /\ sta_pending' = [v \in Servqs |->
          IF v[1] # r THEN sta_pending[v]
          ELSE sta_pending[v] \o Marked(m, Len(Only(q, {v[2]})))]
    /\ tx_pending' = tx_pending \cup {<<r, q[i]>> : i \in DOMAIN q}
-----------------------------------------------------------------------------
(***************************************************************************)
(* xmitframe_enqueue_for_sleeping_sta.                                     *)
(***************************************************************************)
Dozes(r) ==
    IF r = Bmc THEN sta_dz_bitmap # {} ELSE r \in sleeping /\ r \in sta_dz_bitmap

\* Which categories of a station are shown in the TIM.
Told(s, a) == has_legacy_ac(s) # Wmmps(s, a)

\* The frames q of a station are buffered: the beacon is updated by the frame
\* that makes sleepq_len 1.
Updates(s, q) ==
    Cardinality({i \in DOMAIN q : Told(s, q[i]) /\ (sleepq_len[s] + i) % W = 1})

\* rtw_xmit: the frame is buffered, or goes on to pre_xmitframe.
XmitBuffersNoLen(r, a) ==
    /\ sleep_q' = [sleep_q EXCEPT ![r] = Append(@, a)]
    /\ UNCHANGED <<sleepq_len, sleepq_ac_len, sta_dz_bitmap>>
    /\ tim_bitmap' = tim_bitmap \cup {r}
    /\ UpdateBeacon(tim_bitmap', 1)

XmitBuffers(r, a) ==
    /\ sleep_q' = [sleep_q EXCEPT ![r] = Append(@, a)]
    /\ sleepq_len' = [sleepq_len EXCEPT ![r] = (@ + 1) % W]
    /\ IF r = Bmc
       THEN /\ tim_bitmap' = tim_bitmap \cup {Bmc}
            /\ sta_dz_bitmap' = sta_dz_bitmap \cup {Bmc}
            /\ UpdateBeacon(tim_bitmap', 1)
            /\ UNCHANGED sleepq_ac_len
       ELSE /\ tim_bitmap' = tim_bitmap \cup {s \in {r} : Told(s, a)}
            /\ sleepq_ac_len' = [sleepq_ac_len EXCEPT
                                   ![r] = (@ + CountWmmps(r, <<a>>)) % W]
            /\ UpdateBeacon(tim_bitmap', Updates(r, <<a>>))
            /\ UNCHANGED sta_dz_bitmap

XmitBegin(r, a) ==
    /\ Begins("xmit") /\ xmit = NoXmit /\ free_xmitframe_cnt > 0
    /\ <<r, a>> \in Servqs /\ (r \in Stas => kind[r] # "none")
    /\ free_xmitframe_cnt' = free_xmitframe_cnt - 1
    /\ \/ Dozes(r) /\ XmitBuffers(r, a) /\ UNCHANGED xmit
       \/ ~ Dozes(r) /\ xmit' = [to |-> r, ac |-> a] /\ UNCHANGED <<bits, beacon, dozing>>
    /\ UNCHANGED <<kind, sleeping, queues, pc, rx, thread, hiq>>

\* pre_xmitframe: to the chip at once, or into the queue when older frames
\* wait, no buffer is free or a survey is on; a station that left meanwhile
\* gets nothing.
XmitDirectFreesTwice ==
    /\ xmit # NoXmit /\ Runs("xmit")
    /\ sta_pending[xmit.to, xmit.ac] = << >>
    /\ xmit' = NoXmit /\ free_xmitframe_cnt' = free_xmitframe_cnt + 2
    /\ UNCHANGED <<kind, sleeping, bits, beacon, dozing, queues, pc, rx, thread, hiq>>

XmitDirect ==
    /\ xmit # NoXmit /\ Runs("xmit")
    /\ \/ xmit.to \in Stas /\ kind[xmit.to] = "none"
       \/ sta_pending[xmit.to, xmit.ac] = << >>
    /\ xmit' = NoXmit /\ free_xmitframe_cnt' = free_xmitframe_cnt + 1
    /\ UNCHANGED <<kind, sleeping, bits, beacon, dozing, queues, pc, rx, thread, hiq>>

XmitEnqueue ==
    /\ xmit # NoXmit /\ Runs("xmit")
    /\ xmit.to \in Stas => kind[xmit.to] # "none"
    /\ xmit' = NoXmit /\ Classify(xmit.to, <<xmit.ac>>, "plain")
    /\ UNCHANGED <<kind, sleeping, bits, beacon, dozing, free_xmitframe_cnt, pc, rx,
                   thread, hiq>>

\* The transmit tasklet takes a frame of a listed tx_servq; the completion of
\* a frame for the high queue enqueues rtw_chk_hi_queue_cmd.
XmitTasklet(v) ==
    /\ Runs("tasklet") /\ v \in tx_pending /\ sta_pending[v] # << >>
    /\ sta_pending' = [sta_pending EXCEPT ![v] = Tail(@)]
    /\ tx_pending' = IF sta_pending'[v] = << >> THEN tx_pending \ {v} ELSE tx_pending
    /\ free_xmitframe_cnt' = free_xmitframe_cnt + 1
    /\ IF Head(sta_pending[v]) = "hiq"
       THEN hiq' = TRUE /\ cmd_queue' = Append(cmd_queue, "ChkHiq")
       ELSE UNCHANGED <<hiq, cmd_queue>>
    /\ UNCHANGED <<kind, sleeping, bits, bcn_tim, dozing, xmit, pc, rx, thread>>
-----------------------------------------------------------------------------
(***************************************************************************)
(* The receive tasklet: power bits, triggers and polls of the stations.    *)
(***************************************************************************)

\* stop_sta_xmit: what waits for the chip is buffered instead, unless it has
\* been triggered (a triggered group frame is for the high queue), and the
\* tx_servqs are taken out of the lists.
Plain(v) ==
    IF v \in Servqs THEN Only(sta_pending[v], {"plain"}) ELSE << >>
ParkedOf(r, a) == [i \in 1 .. Len(Plain(<<r, a>>)) |-> a]
Parked(r) == ParkedOf(r, "vo") \o ParkedOf(r, "be")
Stopped(s) == ({s} \X Acs) \cup {<<Bmc, "be">>}
Stays(v) == LET q == Only(sta_pending[v], {"triggered", "hiq"})
            IN  IF v[1] = Bmc THEN Marked("hiq", Len(q)) ELSE q

StopSkipsGroup(s) ==
    LET q == Parked(s)
    IN  /\ sleeping' = sleeping \cup {s}
        /\ sta_dz_bitmap' = sta_dz_bitmap \cup {s}
        /\ tim_bitmap' = tim_bitmap \cup {t \in {s} : \E i \in DOMAIN q : Told(s, q[i])}
        /\ sleep_q' = [sleep_q EXCEPT ![s] = @ \o q]
        /\ sleepq_len' = [sleepq_len EXCEPT ![s] = (@ + Len(q)) % W]
        /\ sleepq_ac_len' = [sleepq_ac_len EXCEPT ![s] = (@ + CountWmmps(s, q)) % W]
        /\ sta_pending' = [v \in Servqs |->
              IF v[1] = s THEN Stays(v) ELSE sta_pending[v]]
        /\ tx_pending' = tx_pending \ Stopped(s)
        /\ UpdateBeacon(tim_bitmap', Updates(s, q))

stop_sta_xmit(s) ==
    LET q == Parked(s)
        g == Parked(Bmc)
    IN  /\ sleeping' = sleeping \cup {s}
        /\ sta_dz_bitmap' = sta_dz_bitmap \cup {s} \cup {r \in {Bmc} : g # << >>}
        /\ tim_bitmap' = tim_bitmap
              \cup {t \in {s} : \E i \in DOMAIN q : Told(s, q[i])}
              \cup {r \in {Bmc} : g # << >>}
        /\ sleep_q' = [sleep_q EXCEPT ![s] = @ \o q, ![Bmc] = @ \o g]
        /\ sleepq_len' = [sleepq_len EXCEPT ![s] = (@ + Len(q)) % W,
                                            ![Bmc] = (@ + Len(g)) % W]
        /\ sleepq_ac_len' = [sleepq_ac_len EXCEPT ![s] = (@ + CountWmmps(s, q)) % W]
        /\ sta_pending' = [v \in Servqs |->
              IF v \in Stopped(s) THEN Stays(v) ELSE sta_pending[v]]
        /\ tx_pending' = tx_pending \ Stopped(s)
        /\ UpdateBeacon(tim_bitmap', Updates(s, q) + Len(g))

\* wakeup_sta_to_xmit by context c, which updates the beacon after the unlock
\* and goes on at l: all that is buffered goes to the chip, and the frames of
\* the group too when nobody dozes.
WakeKeepsDoze(c, s, l) ==
    /\ Classify(s, sleep_q[s], "triggered")
    /\ sleep_q' = [sleep_q EXCEPT ![s] = << >>]
    /\ sleepq_len' = [sleepq_len EXCEPT ![s] = (@ - Len(sleep_q[s])) % W]
    /\ sleepq_ac_len' = [sleepq_ac_len EXCEPT ![s] = (@ - CountWmmps(s, sleep_q[s])) % W]
    /\ tim_bitmap' = tim_bitmap \ {s} /\ sleeping' = sleeping \ {s}
    /\ UNCHANGED sta_dz_bitmap
    /\ Goto(c, "update")

wakeup_sta_to_xmit(c, s, l) ==
    LET q == sleep_q[s]
        g == IF sta_dz_bitmap \subseteq {Bmc} THEN sleep_q[Bmc] ELSE << >>
        len == (sleepq_len[s] - Len(q)) % W
        glen == (sleepq_len[Bmc] - Len(g)) % W
        over == {t \in {s} : len = 0}
                    \cup {r \in {Bmc} : sta_dz_bitmap \subseteq {Bmc} /\ glen = 0}
    IN  /\ sleep_q' = [sleep_q EXCEPT ![s] = << >>,
                                      ![Bmc] = IF g = << >> THEN @ ELSE << >>]
        /\ sleepq_len' = [sleepq_len EXCEPT ![s] = len, ![Bmc] = glen]
        /\ sleepq_ac_len' = [sleepq_ac_len EXCEPT ![s] = (@ - CountWmmps(s, q)) % W]
        /\ sta_pending' = [v \in Servqs |->
              sta_pending[v] \o Marked("triggered",
                  Len(Only(IF v[1] = s THEN q ELSE IF v[1] = Bmc THEN g ELSE << >>,
                           {v[2]})))]
        /\ tx_pending' = tx_pending \cup {<<s, q[i]>> : i \in DOMAIN q}
                                    \cup {<<Bmc, g[i]>> : i \in DOMAIN g}
        /\ tim_bitmap' = tim_bitmap \ over /\ sta_dz_bitmap' = sta_dz_bitmap \ over
        /\ sleeping' = sleeping \ over
        /\ Goto(c, IF over = {} THEN l ELSE "update")

\* sta2ap_data_frame: process_pwrbit_data, then for a QoS frame
\* process_wmmps_data.
Next1(qos) == IF qos THEN "wmmps" ELSE "idle"
RxData(s, pwr, qos, a) ==
    /\ Begins("rx") /\ pc["rx"] = "idle" /\ kind[s] # "none"
    /\ \/ pwr /\ s \notin sleeping /\ stop_sta_xmit(s) /\ Goto("rx", Next1(qos))
       \/ /\ ~ pwr /\ s \in sleeping /\ wakeup_sta_to_xmit("rx", s, Next1(qos))
          /\ UNCHANGED beacon
       \/ /\ pwr <=> s \in sleeping
          /\ qos /\ Goto("rx", "wmmps")
          /\ UNCHANGED <<sleeping, bits, beacon, dozing, queues>>
    /\ rx' = IF pc'["rx"] = "idle" THEN NoRx ELSE [sta |-> s, qos |-> qos, ac |-> a]
    /\ UNCHANGED <<kind, free_xmitframe_cnt, xmit, thread, hiq>>

\* The update_beacon after the unlock.
AfterWakeup(c) ==
    /\ pc[c] = "update" /\ Runs(c)
    /\ UpdateBeacon(tim_bitmap, 1)
    /\ IF c = "rx" THEN RxGoto(Next1(rx.qos), rx) ELSE Goto(c, "idle") /\ UNCHANGED rx
    /\ UNCHANGED <<kind, sleeping, bits, dozing, queues, free_xmitframe_cnt, xmit,
                   thread, hiq>>

\* xmit_delivery_enabled_frames, for a station with sleepq_ac_len > 0.
xmit_delivery_enabled_frames(s) ==
    LET q == Only(sleep_q[s], Delivery(s))
        told == ~ has_legacy_ac(s) /\ sleepq_ac_len[s] \in 1 .. Len(q)
    IN  /\ Classify(s, q, "triggered")
        /\ sleep_q' = [sleep_q EXCEPT ![s] = Only(@, Acs \ Delivery(s))]
        /\ sleepq_len' = [sleepq_len EXCEPT ![s] = (@ - Len(q)) % W]
        /\ sleepq_ac_len' = [sleepq_ac_len EXCEPT ![s] = (@ - Len(q)) % W]
        /\ tim_bitmap' = IF told THEN tim_bitmap \ {s} ELSE tim_bitmap
        /\ UpdateBeacon(tim_bitmap', IF told THEN 1 ELSE 0)

\* process_wmmps_data; an answer without frames is a QoS null frame.
process_wmmps_data ==
    LET s == rx.sta
        delivers == /\ kind[s] \in {"mixed", "uapsd"} /\ s \in sleeping
                    /\ Wmmps(s, rx.ac) /\ sleepq_ac_len[s] > 0
    IN  /\ pc["rx"] = "wmmps" /\ Runs("rx") /\ RxGoto("idle", rx)
        /\ IF delivers THEN xmit_delivery_enabled_frames(s)
                       ELSE UNCHANGED <<tim_bitmap, beacon, dozing, queues>>
        /\ UNCHANGED <<kind, sleeping, sta_dz_bitmap, free_xmitframe_cnt, xmit, thread,
                       hiq>>

\* A PS-Poll (validate_recv_ctrl_frame): the oldest frame goes to the chip.
PsPollKeepsTim(s) == tim_bitmap
PsPollTim(s) == IF sleepq_len'[s] = 0 THEN tim_bitmap \ {s} ELSE tim_bitmap
PsPollFrame(s) ==
    /\ sleep_q[s] # << >>
    /\ Classify(s, <<Head(sleep_q[s])>>, "triggered")
    /\ sleep_q' = [sleep_q EXCEPT ![s] = Tail(@)]
    /\ sleepq_len' = [sleepq_len EXCEPT ![s] = (@ - 1) % W]
    /\ tim_bitmap' = PsPollTim(s)
    /\ UpdateBeacon(tim_bitmap', IF sleepq_len'[s] = 0 THEN 1 ELSE 0)
    /\ UNCHANGED <<sleepq_ac_len, pc, rx>>

PsPoll(s) ==
    /\ Begins("rx") /\ pc["rx"] = "idle" /\ kind[s] # "none"
    /\ ~ Wmmps(s, "be") /\ s \in sleeping /\ s \in sta_dz_bitmap
    /\ \/ PsPollFrame(s)
       \/ /\ sleep_q[s] = << >>
          /\ RxGoto("pspoll", [sta |-> s, qos |-> FALSE, ac |-> "be"])
          /\ UNCHANGED <<tim_bitmap, beacon, dozing, queues>>
    /\ UNCHANGED <<kind, sleeping, sta_dz_bitmap, free_xmitframe_cnt, xmit, thread, hiq>>

\* ... and when there was none, after the unlock: a null frame, or the
\* "error!" that sets sleepq_len to 0.
PsPollNone ==
    LET s == rx.sta
        told == s \in tim_bitmap
    IN  /\ pc["rx"] = "pspoll" /\ Runs("rx") /\ RxGoto("idle", rx)
        /\ sleepq_len' = IF told THEN [sleepq_len EXCEPT ![s] = 0] ELSE sleepq_len
        /\ tim_bitmap' = tim_bitmap \ {s}
        /\ UpdateBeacon(tim_bitmap', IF told THEN 1 ELSE 0)
        /\ UNCHANGED <<kind, sleeping, sta_dz_bitmap, sleep_q, sleepq_ac_len, queues,
                       free_xmitframe_cnt, xmit, thread, hiq>>
-----------------------------------------------------------------------------
(***************************************************************************)
(* The command thread.                                                     *)
(***************************************************************************)
Serves(c) == Runs("thread") /\ thread = "idle" /\ cmd_queue # << >> /\ Head(cmd_queue) = c

\* tx_beacon_hdl: send_beacon succeeds or not; with group frames announced
\* the thread sleeps 10 ms and hands them to the high queue.
TxBeacon ==
    /\ Serves("TxBeacon") /\ cmd_queue' = Tail(cmd_queue)
    /\ \/ Bmc \in tim_bitmap /\ sleepq_len[Bmc] > 0 /\ thread' = "bmc_wait"
       \/ UNCHANGED thread
    /\ UNCHANGED <<kind, sleeping, bits, bcn_tim, dozing, queues, free_xmitframe_cnt,
                   xmit, pc, rx, hiq>>

TxGroup ==
    /\ thread = "bmc_wait" /\ Runs("thread") /\ thread' = "idle"
    /\ Classify(Bmc, sleep_q[Bmc], "hiq")
    /\ sleep_q' = [sleep_q EXCEPT ![Bmc] = << >>]
    /\ sleepq_len' = [sleepq_len EXCEPT ![Bmc] = (@ - Len(sleep_q[Bmc])) % W]
    /\ UNCHANGED <<kind, sleeping, bits, beacon, sleepq_ac_len, free_xmitframe_cnt, xmit,
                   pc, rx, hiq>>

\* rtw_chk_hi_queue_hdl: the emptiness of the broadcast queue is tested, the
\* thread waits for the high queue, up to a second, and clears bit 0.
ChkHiq ==
    /\ Serves("ChkHiq") /\ cmd_queue' = Tail(cmd_queue)
    /\ thread' = IF sleepq_len[Bmc] = 0 THEN "hiq_wait" ELSE "idle"
    /\ UNCHANGED <<kind, sleeping, bits, bcn_tim, dozing, queues, free_xmitframe_cnt,
                   xmit, pc, rx, hiq>>

ChkHiqEmpty ==
    /\ thread = "hiq_wait" /\ ~ hiq /\ Runs("thread") /\ thread' = "idle"
    /\ tim_bitmap' = tim_bitmap \ {Bmc} /\ sta_dz_bitmap' = sta_dz_bitmap \ {Bmc}
    /\ UpdateBeacon(tim_bitmap', 1)
    /\ UNCHANGED <<kind, sleeping, dozing, queues, free_xmitframe_cnt, xmit, pc, rx, hiq>>

ChkHiqAgain ==
    /\ thread = "hiq_wait" /\ hiq /\ Runs("thread") /\ thread' = "idle"
    /\ cmd_queue' = Append(cmd_queue, "ChkHiq")
    /\ UNCHANGED <<kind, sleeping, bits, bcn_tim, dozing, queues, free_xmitframe_cnt,
                   xmit, pc, rx, hiq>>

\* The chip sends what the high queue holds after a beacon.
HiqDrains ==
    /\ hiq /\ hiq' = FALSE
    /\ UNCHANGED <<kind, sleeping, bits, beacon, dozing, queues, free_xmitframe_cnt, xmit,
                   pc, rx, thread>>
-----------------------------------------------------------------------------
(***************************************************************************)
(* Stations come and go.                                                   *)
(***************************************************************************)

\* bss_cap_update_on_sta_join and _leave: when the protection the beacon asks
\* for changes it is sent again, with the TIM element as it is.
CapabilityUpdate ==
    UNCHANGED bcn_tim /\ cmd_queue' \in {cmd_queue, Append(cmd_queue, "TxBeacon")}

\* rtw_alloc_stainfo and OnAssocReq of a station that was not known.
Associate(s, k) ==
    /\ Begins("rx") /\ pc["rx"] = "idle" /\ kind[s] = "none"
    /\ kind' = [kind EXCEPT ![s] = k] /\ sleeping' = sleeping \ {s}
    /\ CapabilityUpdate
    /\ UNCHANGED <<bits, dozing, queues, free_xmitframe_cnt, xmit, pc, rx, thread, hiq>>

\* ap_free_sta: rtw_free_stainfo, which does not update the TIM element.
FreeSleepOnly(s) == Len(sleep_q[s])
Waiting(s) ==
    Len(sleep_q[s]) + Len(sta_pending[s, "be"])
        + (IF "vo" \in Acs THEN Len(sta_pending[s, "vo"]) ELSE 0)
rtw_free_stainfo(s) ==
    /\ Runs("free") /\ kind[s] # "none"
    /\ kind' = [kind EXCEPT ![s] = "none"]
    /\ free_xmitframe_cnt' = free_xmitframe_cnt + Waiting(s)
    /\ sleep_q' = [sleep_q EXCEPT ![s] = << >>]
    /\ sleepq_len' = [sleepq_len EXCEPT ![s] = 0]
    /\ sleepq_ac_len' = [sleepq_ac_len EXCEPT ![s] = 0]
    /\ sta_pending' = [v \in Servqs |-> IF v[1] = s THEN << >> ELSE sta_pending[v]]
    /\ tx_pending' = tx_pending \ ({s} \X Acs)
    /\ tim_bitmap' = tim_bitmap \ {s} /\ sta_dz_bitmap' = sta_dz_bitmap \ {s}
    /\ CapabilityUpdate
    /\ UNCHANGED <<sleeping, xmit, pc, rx, thread, hiq>>

\* expire_timeout_chk wakes a station with too much of the frame pool.
Share == NR_XMITFRAME \div Cardinality({s \in Stas : kind[s] # "none"})
expire_timeout_chk(s) ==
    /\ Begins("timer") /\ pc["timer"] = "idle" /\ kind[s] # "none"
    /\ sleepq_len[s] > Share /\ free_xmitframe_cnt < Share \div 2
    /\ wakeup_sta_to_xmit("timer", s, "idle")
    /\ UNCHANGED <<kind, beacon, free_xmitframe_cnt, xmit, rx, thread, hiq>>
-----------------------------------------------------------------------------
Next ==
    \/ \E r \in Rcpts, a \in Acs : XmitBegin(r, a)
    \/ XmitDirect \/ XmitEnqueue
    \/ \E v \in Servqs : XmitTasklet(v)
    \/ \E s \in Stas, pwr, qos \in BOOLEAN, a \in Acs : RxData(s, pwr, qos, a)
    \/ \E s \in Stas : PsPoll(s) \/ rtw_free_stainfo(s) \/ expire_timeout_chk(s)
    \/ \E s \in Stas, k \in Kinds : Associate(s, k)
    \/ \E c \in {"rx", "timer"} : AfterWakeup(c)
    \/ process_wmmps_data \/ PsPollNone
    \/ TxBeacon \/ TxGroup \/ ChkHiq \/ ChkHiqEmpty \/ ChkHiqAgain \/ HiqDrains

Spec == Init /\ [][Next]_vars
-----------------------------------------------------------------------------
(***************************************************************************)
(* Properties.                                                             *)
(***************************************************************************)
Known(s) == kind[s] # "none"

\* sleepq_len and sleepq_ac_len are the lengths they stand for, through every
\* way in and out of a sleep_q: mdata, eosp and every decision of PS-Poll,
\* wakeup and the TIM rest on them.
CountsMatch ==
    /\ \A r \in Rcpts : sleepq_len[r] = Len(sleep_q[r])
    /\ \A s \in Stas : Known(s) => sleepq_ac_len[s] = CountWmmps(s, sleep_q[s])

\* "upate BCN for TIM IE": the TIM tells a station of its frames, and of
\* nothing else, and once no context is about to update it the beacon shows
\* what the TIM says.
TimTells ==
    \A s \in Stas : Known(s) =>
        /\ s \in tim_bitmap <=> sleep_q[s] # << >>
        /\ s \in tim_bitmap /\ (\A c \in DOMAIN pc : pc[c] = "idle") => s \in bcn_tim

\* Who dozes is buffered for, and who does not has nothing buffered: the two
\* records of dozing agree, and no frame stays behind when a station wakes.
SleepAgrees ==
    \A s \in Stas : Known(s) =>
        /\ s \in sleeping <=> s \in sta_dz_bitmap
        /\ sleep_q[s] # << >> => s \in sleeping

\* A dozing station is spared: only frames it has asked for wait for the chip,
\* and while anybody dozes only group frames that were announced.
DozersSpared ==
    /\ \A s \in Stas, a \in Acs :
          Known(s) /\ s \in sleeping => Plain(<<s, a>>) = << >>
    /\ sta_dz_bitmap # {} => Plain(<<Bmc, "be">>) = << >>

\* Every frame of the pool is free, buffered, waiting for the chip or in
\* rtw_xmit's hands.
Total(f, S) == LET n[T \in SUBSET S] ==
                       IF T = {} THEN 0
                       ELSE LET x == CHOOSE y \in T : TRUE
                            IN  Len(f[x]) + n[T \ {x}]
               IN  n[S]
PoolConserved ==
    free_xmitframe_cnt + Total(sleep_q, Rcpts) + Total(sta_pending, Servqs)
        + (IF xmit = NoXmit THEN 0 ELSE 1) = NR_XMITFRAME

\* "tx bc/mc packets after upate bcn" (xmitframe_enqueue_for_sleeping_sta):
\* group frames that wait are announced in the TIM, otherwise tx_beacon_hdl
\* does not send them.
GroupTold == sleep_q[Bmc] # << >> => Bmc \in tim_bitmap

\* Every frame buffered for a dozing station is counted, and every transmit
\* frame is free, buffered, queued or in the hands of the one who sends it,
\* through every way in and out of a sleep_q (xmitframe_enqueue_for_sleeping_sta,
\* wakeup_sta_to_xmit, xmit_delivery_enabled_frames, rtw_free_stainfo).
FramesCounted == TypeOK /\ CountsMatch /\ PoolConserved

\* Who dozes is buffered for and spared: the two records of dozing agree, no
\* frame stays behind when a station wakes, and only frames it asked for wait
\* for the chip (stop_sta_xmit, wakeup_sta_to_xmit).
DozersServed == SleepAgrees /\ DozersSpared
=============================================================================
