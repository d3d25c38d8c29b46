------------------------------- MODULE Radio -------------------------------
(***************************************************************************)
(* The tuner and the receive filters: set_channel_bwmode and SelectChannel *)
(* with the mutex they share, PHY_HandleSwChnlAndSetBW8812 with the band,  *)
(* channel and bandwidth callbacks it runs, the hardware variables through *)
(* which the MLME opens and closes the receive filters (HW_VAR_MLME_JOIN,  *)
(* _SITESURVEY, _DISCONNECT, set_network_type), and the command handlers,  *)
(* event callbacks and ioctls that issue them.                             *)
(*                                                                         *)
(* The command thread and the process that starts the access point each    *)
(* have a list of steps still to be done (rdTodo); a step is one access    *)
(* routine of the HAL and steps of the two interleave.  rdQ is the command *)
(* queue.  rd holds the driver's copy of the settings, the registers (the  *)
(* fields h...) and the MLME's variables.                                  *)
(*                                                                         *)
(* Bandwidths are 20, 40 and 80; bands are 2 and 5; a prime channel offset *)
(* is 0 (don't care), 1 (lower) or 2 (upper).                              *)
(***************************************************************************)
EXTENDS Integers, Sequences

CONSTANTS RdChips,    \* the chips, a subset of {"8812", "8821"}
          RdSwings,   \* EFUSE swing bytes: records g2, g5 of pairs <<A, B>> in 0..3
          RdNets,     \* networks: records ch, ht (-1 none, else the offset), vht
          RdScan,     \* the channels of a survey, a sequence
          RdApCh,     \* channels hostapd asks for
          Registry,   \* registrypriv.channel, the channel of the module parameter
          MaxRdQ,     \* bound on the command queue
          MaxRdOps    \* bound on requests and received frames

ASSUME RdAssumption ==
    /\ RdChips \subseteq {"8812", "8821"}
    /\ RdSwings \subseteq [g2 : (0..3) \X (0..3), g5 : (0..3) \X (0..3)]
    /\ RdNets \subseteq [ch : 1..177, ht : -1..2, vht : BOOLEAN]
    /\ RdScan \in Seq(1..177) /\ RdApCh \subseteq 1..177 /\ Registry \in 1..177
    /\ MaxRdQ \in Nat /\ MaxRdOps \in Nat

VARIABLES rdSet, rd, rdTodo, rdQ, rdLock, rdTorn, rdOps

rdVars == <<rdSet, rd, rdTodo, rdQ, rdLock, rdTorn, rdOps>>

RdThreads == {"cmd", "ioctl"}

(***************************************************************************)
(* The channel's numbers.                                                  *)
(***************************************************************************)
BandOf(ch) == IF ch > 14 THEN 5 ELSE 2

\* wlan_util.c rtw_get_center_ch; a channel is an 8-bit number
Center80 == {<<{36, 40, 44, 48}, 42>>, <<{52, 56, 60, 64}, 58>>,
             <<{100, 104, 108, 112}, 106>>, <<{116, 120, 124, 128}, 122>>,
             <<{132, 136, 140, 144}, 138>>, <<{149, 153, 157, 161}, 155>>,
             <<1..14, 7>>}

rtw_get_center_ch(ch, w, off) ==
    IF w = 80 THEN IF \E p \in Center80 : ch \in p[1]
                   THEN (CHOOSE p \in Center80 : ch \in p[1])[2] ELSE ch
    ELSE IF w = 40 THEN (IF off = 1 THEN ch + 2 ELSE (ch + 254) % 256) ELSE ch

HAL_IsLegalChannel(ch) == ch # 0

FcArea(ch) == IF ch \in 36..48 THEN "0x494" ELSE IF ch \in 50..64 THEN "0x453"
              ELSE IF ch \in 100..116 THEN "0x452" ELSE IF ch >= 118 THEN "0x412"
              ELSE "0x96a"

RfModAg(ch) == IF ch \in 36..64 THEN "0x101" ELSE IF ch \in 100..140 THEN "0x301"
               ELSE IF ch > 140 THEN "0x501" ELSE "0x000"

\* _rtl8821au_phy_get_secondary_chnl: the 40 MHz part in the high nibble
SecondaryChnl(w, sc40, sc80) ==
    IF w = 80
    THEN 16 * (IF sc80 = 1 THEN 10 ELSE IF sc80 = 2 THEN 9 ELSE 0)
         + (IF sc40 = 1 /\ sc80 = 1 THEN 4 ELSE IF sc40 = 2 /\ sc80 = 1 THEN 2
            ELSE IF sc40 = 1 /\ sc80 = 2 THEN 1 ELSE IF sc40 = 2 /\ sc80 = 2 THEN 3 ELSE 0)
    ELSE IF w = 40 THEN (IF sc40 = 2 THEN 1 ELSE IF sc40 = 1 THEN 2 ELSE 0)
    ELSE 0

(***************************************************************************)
(* Transmit swing.  The two bits of path B decide when they are 0 or 1,    *)
(* else those of path A; 2 and 3 are compared with 0x10 and 0x11 and never *)
(* recognised, so the old difference stays and 0 dB is programmed.         *)
(***************************************************************************)
SwingBits(sw) == IF sw[2] \in {0, 1} THEN sw[2] ELSE sw[1]
SwingDiff(sw, old) == IF SwingBits(sw) \in {0, 1} THEN -3 * SwingBits(sw) ELSE old
SwingOut(sw) == IF SwingBits(sw) = 1 THEN -3 ELSE 0

GetTxSwing(s, band) ==
    IF band = 2 THEN [s EXCEPT !.diff2 = SwingDiff(rdSet.sw.g2, @), !.hSwing = SwingOut(rdSet.sw.g2)]
    ELSE [s EXCEPT !.diff5 = SwingDiff(rdSet.sw.g5, @), !.hSwing = SwingOut(rdSet.sw.g5)]

\* update_tx_basic_rate: CCK rates only when the MLME's channel is on 2.4 GHz too.
\* On 2.4 GHz HW_VAR_BASIC_RATE adds CCK rates to the response rates whatever it is given.
BasicRate(s, cck) == [s EXCEPT !.hRrsr = s.band = 2 \/ cck]

update_tx_basic_rate(s, band) ==
    LET cck == band = 2 /\ s.curCh <= 14
    IN  BasicRate([s EXCEPT !.rate = IF cck THEN "cck" ELSE "ofdm"], cck)

(***************************************************************************)
(* rtl8821au_phy_switch_wirelessband and phy_SwBand8812.  The index of the *)
(* power tracking moves by the difference between the swings of the bands. *)
(***************************************************************************)
\* mutant: the difference is taken before the swing of the new band is read
SwingMove_Stale(s, from, to) ==
    IF from = to THEN s
    ELSE [s EXCEPT !.ofdm = @ + 2 * (IF to = 2 THEN s.diff2 - s.diff5 ELSE -s.diff2)]

SwingMove(s, from, to) ==
    IF from = to THEN s
    ELSE [s EXCEPT !.ofdm = @ + 2 * (IF to = 2 THEN s.diff2 - s.diff5 ELSE s.diff5 - s.diff2)]

switch_wirelessband(s, to) ==
    LET b == [s EXCEPT !.band = to, !.hCckCheck = to, !.hAgc = to, !.hEnable = to,
                       !.hPins = IF rdSet.chip = "8821" THEN to ELSE @]
    IN  SwingMove(GetTxSwing(update_tx_basic_rate(b, to), to), s.band, to)

phy_SwBand8812(s, ch) ==
    IF BandOf(ch) = s.hCckCheck THEN s ELSE switch_wirelessband(s, BandOf(ch))

\* rtl8812au_fixspur: no branch for 5 GHz
fixspur(s, w, ch) ==
    IF rdSet.chip # "8812" THEN s
    ELSE IF w = 20 /\ ch \in {13, 14} THEN [s EXCEPT !.hAdc = 3]
    ELSE IF ch <= 14 THEN [s EXCEPT !.hAdc = 2] ELSE s

\* rtl8821au_phy_sw_chnl_callback
sw_chnl_callback(s) ==
    LET b == fixspur(phy_SwBand8812(s, s.chan), s.bw, s.chan)
    IN  [b EXCEPT !.hFc = FcArea(s.chan), !.hModAg = RfModAg(s.chan), !.hRfCh = s.chan]

\* rtl8821au_phy_set_bw_mode_callback, _rtl8821au_phy_set_reg_bw and
\* rtl8821au_phy_rf6052_set_bandwidth; 20 MHz leaves the secondary channel in
\* 0x8AC and 0x838, only 40 MHz writes the CCK side band
set_bw_mode_callback(s) ==
    LET sc == SecondaryChnl(s.bw, s.sc40, s.sc80)
    IN  fixspur([s EXCEPT !.hBw = s.bw, !.hSc = sc, !.hMode = s.bw, !.hAdc = 2,
                          !.hClk = s.bw = 80, !.hRfBw = s.bw,
                          !.hSub = IF s.bw = 20 THEN @ ELSE sc,
                          !.hCckSys = IF s.bw = 40 THEN sc = 1 ELSE @], s.bw, s.chan)

(***************************************************************************)
(* PHY_HandleSwChnlAndSetBW8812: which callbacks a request needs, and the  *)
(* driver's copy of the setting, stored before they run.                   *)
(***************************************************************************)
NeedsSw(s, r) == r.ch # s.chan /\ HAL_IsLegalChannel(r.ch)
NeedsBw(s, r) == r.op = "chan"
                 /\ (~s.bwInit \/ s.bw # r.w \/ s.sc40 # r.sc40 \/ s.sc80 # r.sc80
                     \/ s.chan # r.ch)
Refused(s, r) == r.ch # s.chan /\ ~HAL_IsLegalChannel(r.ch)

StoreSetting(s, r) ==
    LET b == IF NeedsSw(s, r) THEN [s EXCEPT !.chan = r.ch] ELSE s
    IN  IF NeedsBw(s, r)
        THEN [b EXCEPT !.bw = r.w, !.sc40 = r.sc40, !.sc80 = r.sc80, !.bwInit = TRUE] ELSE b

\* the steps that follow the mutex: the driver stopped meanwhile keeps its old setting
HandleSwChnlAndSetBW(s, r) ==
    IF Refused(s, r) \/ s.stopped THEN <<>>
    ELSE (IF NeedsSw(s, r) THEN <<[op |-> "sw"]>> ELSE <<>>)
         \o (IF NeedsBw(s, r) THEN <<[op |-> "bw"]>> ELSE <<>>)
         \o (IF NeedsSw(s, r) \/ NeedsBw(s, r) THEN <<[op |-> "power"]>> ELSE <<>>)

Offset80(ch, w, off) == IF w # 80 THEN 0
                        ELSE IF rtw_get_center_ch(ch, w, off) > ch THEN 1
                        ELSE IF rtw_get_center_ch(ch, w, off) < ch THEN 2 ELSE 0

\* the two requests: set_channel_bwmode tunes to the centre of the wide channel
set_channel_bwmode(ch, off, w) ==
    [op |-> "chan", ch |-> rtw_get_center_ch(ch, w, off), w |-> w, sc40 |-> off,
     sc80 |-> Offset80(ch, w, off)]
SelectChannel(ch) == [op |-> "sel", ch |-> ch]

(***************************************************************************)
(* rtl8821au_set_hw_reg: the variables that steer reception and beacons.   *)
(* hData: REG_RXFLTMAP2 lets data frames in; hBssid, hBcnBssid: RCR checks *)
(* the BSSID of data frames and of beacons; hTsf: TSF updates are off.     *)
(***************************************************************************)
HwJoin(s, type) ==
    IF type = 0 THEN [s EXCEPT !.hData = TRUE, !.hBssid = TRUE, !.hBcnBssid = TRUE]
    ELSE IF type = 1 THEN [s EXCEPT !.hData = FALSE] ELSE [s EXCEPT !.hTsf = FALSE]

HwDisconnect(s) == [s EXCEPT !.hData = FALSE, !.hTsf = TRUE]

HwSurveyOn(s) ==
    [s EXCEPT !.hBcnBssid = FALSE, !.hData = FALSE, !.rrsrSaved = s.hRrsr,
              !.hTsf = IF s.mode = "sta" THEN TRUE ELSE @]

\* mutant: the filter opens again for a station only
HwSurveyOff_StaOnly(s) ==
    [s EXCEPT !.hBcnBssid = TRUE, !.hRrsr = s.rrsrSaved,
              !.hData = IF s.linked THEN TRUE ELSE @,
              !.hTsf = IF s.mode = "sta" THEN FALSE ELSE @]

HwSurveyOff(s) ==
    [s EXCEPT !.hBcnBssid = TRUE, !.hRrsr = s.rrsrSaved,
              !.hData = IF s.linked \/ s.mode = "ap" THEN TRUE ELSE @,
              !.hTsf = IF s.mode = "sta" THEN FALSE ELSE @]

\* HW_VAR_INITIAL_GAIN over rtl8821au_dm_write_dig
HwGain(s, v) == IF v = 255 THEN [s EXCEPT !.ig = s.igSaved, !.hIg = s.igSaved]
                ELSE [s EXCEPT !.igSaved = s.ig, !.ig = v, !.hIg = v]

set_network_type(s, type) ==
    IF type = "ap" THEN [s EXCEPT !.hMsr = "ap", !.hTsf = TRUE, !.hBcn = TRUE, !.hTxBcn = TRUE,
                                  !.hBssid = FALSE, !.hBcnBssid = TRUE, !.hData = TRUE]
    ELSE [s EXCEPT !.hMsr = "sta", !.hTsf = TRUE, !.hBcn = TRUE, !.hTxBcn = FALSE]

update_wireless_mode(s) == [s EXCEPT !.rate = IF s.curCh > 14 THEN "ofdm" ELSE "cck"]

(***************************************************************************)
(* One step of a thread other than a channel request.                      *)
(***************************************************************************)
Effect(s, x) ==
    CASE x.op = "sw" -> sw_chnl_callback(s)
      [] x.op = "bw" -> set_bw_mode_callback(s)
      [] x.op = "power" -> [s EXCEPT !.hPower = s.chan]
      [] x.op = "join" -> HwJoin(s, x.v)
      [] x.op = "disconnect" -> HwDisconnect(s)
      [] x.op = "surveyOn" -> [HwSurveyOn(s) EXCEPT !.sv = "process"]
      [] x.op = "surveyOff" -> [HwSurveyOff(s) EXCEPT !.sv = "disable", !.under = FALSE]
      [] x.op = "gain" -> HwGain(s, x.v)
      [] x.op = "msr" -> [s EXCEPT !.hMsr = x.v]
      [] x.op = "nettype" -> set_network_type(s, x.v)
      [] x.op = "bcnOff" -> [s EXCEPT !.hBcn = FALSE]
      [] x.op = "rates" -> BasicRate(s, x.v)
      [] x.op = "mode" -> update_wireless_mode(s)
      [] x.op = "state" -> [s EXCEPT !.st = x.v]
      [] x.op = "cur" -> [s EXCEPT !.curCh = x.ch, !.curBw = x.w, !.curOff = x.off]

MsrOf(st) == IF st \in {"auth", "assoc", "sta"} THEN "sta" ELSE IF st = "ap" THEN "ap" ELSE "none"

Step(op) == [op |-> op]
Val(op, v) == [op |-> op, v |-> v]

(***************************************************************************)
(* The handlers of the command thread, as the steps they take.             *)
(***************************************************************************)
\* site_survey: the first channel by set_channel_bwmode, the next by SelectChannel;
\* after the last one the channel the link uses is not tuned to again
site_survey(s) ==
    IF s.idx <= Len(RdScan)
    THEN <<IF s.idx = 1 THEN set_channel_bwmode(RdScan[1], 0, 20) ELSE SelectChannel(RdScan[s.idx])>>
    ELSE <<Val("msr", MsrOf(s.st)), Val("gain", 255), Step("surveyOff")>>

\* sitesurvey_cmd_hdl; a linked station first sends a null frame and waits 50 ms
sitesurvey_cmd_hdl(s) ==
    IF s.sv = "disable" /\ s.st = "assoc" THEN <<>>
    ELSE (IF s.sv \in {"disable", "txnull"}
          THEN <<Val("gain", 30), Val("msr", "none"), Step("surveyOn")>> ELSE <<>>)
         \o site_survey([s EXCEPT !.idx = IF s.sv = "disable" THEN 1 ELSE @])

SurveyState(s) ==
    [s EXCEPT !.idx = IF s.sv = "disable" THEN 1 ELSE @,
              !.sv = IF s.sv # "disable" THEN @ ELSE IF s.st = "assoc" THEN "txnull" ELSE "start"]

\* join_cmd_hdl with start_clnt_join: a link still up is dropped first, the
\* elements of the network decide the width
JoinWidth(n) == IF n.ht = -1 THEN 20 ELSE IF n.vht THEN 80 ELSE 40
JoinOffset(n) == IF n.ht \in {1, 2} THEN n.ht ELSE 0

join_cmd_hdl(s, n) ==
    (IF s.st = "assoc"
     THEN <<Val("state", "null"), Val("msr", "sta"), Step("disconnect")>> ELSE <<>>)
    \o <<[op |-> "cur", ch |-> s.curCh, w |-> JoinWidth(n), off |-> JoinOffset(n)],
         Val("join", 0),
         [op |-> "cur", ch |-> n.ch, w |-> JoinWidth(n), off |-> JoinOffset(n)],
         set_channel_bwmode(n.ch, JoinOffset(n), JoinWidth(n)),
         Step("mode"), Val("msr", "sta"), Val("state", "auth")>>

\* disconnect_hdl
disconnect_hdl(s) ==
    <<Step("disconnect")>>
    \o (IF s.st = "ap" THEN <<Step("bcnOff")>> ELSE <<>>)
    \o <<Val("msr", "sta"), Val("state", "null"),
         [op |-> "cur", ch |-> s.curCh, w |-> 20, off |-> 0], set_channel_bwmode(s.curCh, 0, 20)>>

\* mlmeext_sta_del_event_callback
sta_del_event_callback(s) ==
    IF s.st # "assoc" \/ s.mode = "ap" THEN <<>>
    ELSE <<Step("disconnect"), [op |-> "cur", ch |-> s.curCh, w |-> 20, off |-> 0],
           set_channel_bwmode(s.curCh, 0, 20), Val("state", "null"), Val("msr", "sta")>>

\* mlmeext_joinbss_event_callback
joinbss_event_callback(s, ok) ==
    IF ok THEN <<Val("rates", s.curCh <= 14), Val("join", 2)>> ELSE <<Val("join", 1)>>

\* setopmode_hdl: the state that remains is that of the mode
setopmode_hdl(s, m) ==
    <<Val("state", IF m = "ap" THEN "ap" ELSE IF s.st \in {"null", "ap", "sta"} THEN "sta" ELSE s.st),
      Val("nettype", m)>>

\* start_bss_network, in the process of hostapd's ioctl
start_bss_network(ch, n) ==
    LET w == IF n.vht THEN 80 ELSE IF n.ht = -1 THEN 20 ELSE 40
    IN  <<Val("msr", "ap"), set_channel_bwmode(ch, JoinOffset(n), w),
          [op |-> "cur", ch |-> ch, w |-> w, off |-> JoinOffset(n)],
          Step("mode"), Val("rates", ch <= 14)>>

(***************************************************************************)
(* rtl8821au_hw_init's tuning after a power cycle: the registers hold what *)
(* the tables left, current_channel = 0 makes the request a change, the    *)
(* dynamic mechanism reads its base index from the swing; init_hw_mlme_ext *)
(* then tunes to the MLME's channel.                                       *)
(***************************************************************************)
Blank(s) ==
    [s EXCEPT !.hRfCh = 0, !.hFc = "none", !.hModAg = "none", !.hBw = 0, !.hSc = -1, !.hMode = 0,
              !.hRfBw = 0, !.hPower = 0, !.hAdc = 0, !.hClk = FALSE, !.hSub = 0, !.hCckSys = FALSE,
              !.hCckCheck = 2, !.hAgc = 0, !.hEnable = 0, !.hPins = 0, !.hData = FALSE,
              !.hBssid = TRUE, !.hBcnBssid = TRUE, !.hTsf = FALSE, !.hMsr = "none", !.hIg = 32,
              !.hTxBcn = FALSE, !.hBcn = FALSE]

Apply(s, r) ==
    LET b == StoreSetting(s, r)
        c == IF NeedsSw(s, r) THEN sw_chnl_callback(b) ELSE b
        e == IF NeedsBw(s, r) THEN set_bw_mode_callback(c) ELSE c
    IN  IF Refused(s, r) THEN s
        ELSE IF NeedsSw(s, r) \/ NeedsBw(s, r) THEN [e EXCEPT !.hPower = e.chan] ELSE e

ForgetChannel(s) == [s EXCEPT !.chan = 0]

hw_init_tune(s) ==
    LET b == switch_wirelessband(ForgetChannel(Blank(s)), BandOf(Registry))
        c == Apply(b, set_channel_bwmode(Registry, 0, 20))
        e == [c EXCEPT !.ofdm = 24 + 2 * c.hSwing, !.ig = 32]
    IN  Apply(e, set_channel_bwmode(s.curCh, s.curOff, s.curBw))

\* before the first bring-up.  cut records that the mode was changed while a survey or a
\* join was under way, which leaves its steps to run in a state they were not meant for.
FreshCard ==
    [chan |-> 0, bw |-> 20, sc40 |-> 0, sc80 |-> 0, bwInit |-> FALSE, band |-> 2, diff2 |-> 0,
     diff5 |-> 0, ofdm |-> 0, ig |-> 0, igSaved |-> 0, rrsrSaved |-> FALSE, rate |-> "cck",
     stopped |-> TRUE,
     hRfCh |-> 0, hFc |-> "none", hModAg |-> "none", hBw |-> 0, hSc |-> -1, hMode |-> 0,
     hRfBw |-> 0, hPower |-> 0, hAdc |-> 0, hClk |-> FALSE, hSub |-> 0, hCckSys |-> FALSE,
     hCckCheck |-> 2, hAgc |-> 0, hEnable |-> 0, hPins |-> 0, hSwing |-> 0, hRrsr |-> FALSE,
     hData |-> FALSE, hBssid |-> TRUE, hBcnBssid |-> TRUE, hTsf |-> FALSE, hMsr |-> "none",
     hIg |-> 32, hTxBcn |-> FALSE, hBcn |-> FALSE,
     curCh |-> Registry, curBw |-> 20, curOff |-> 0, st |-> "null", mode |-> "sta",
     linked |-> FALSE, linking |-> FALSE, under |-> FALSE, sv |-> "disable", idx |-> 1,
     timer |-> FALSE, cut |-> FALSE]

RdInit ==
    /\ rdSet \in [chip : RdChips, sw : RdSwings]
    /\ rd = FreshCard
    /\ rdTodo = [t \in RdThreads |-> <<>>]
    /\ rdQ = <<>> /\ rdLock = "free" /\ rdTorn = FALSE /\ rdOps = 0

RdIdle == rdQ = <<>> /\ \A t \in RdThreads : rdTodo[t] = <<>>

RdUp == /\ rd.stopped /\ RdIdle /\ rdOps < MaxRdOps
        /\ rd' = [hw_init_tune(rd) EXCEPT !.stopped = FALSE]
        /\ rdOps' = rdOps + 1
        /\ UNCHANGED <<rdSet, rdTodo, rdQ, rdLock, rdTorn>>

\* the interface is closed, or idle power saving unloads the card
RdDown == /\ ~rd.stopped /\ ~rd.linked /\ ~rd.linking /\ ~rd.under
          /\ rd.sv = "disable" /\ rd.mode = "sta"
          /\ rd' = [rd EXCEPT !.stopped = TRUE, !.st = "null"]
          /\ UNCHANGED <<rdSet, rdTodo, rdQ, rdLock, rdTorn, rdOps>>

(***************************************************************************)
(* Steps of the threads.                                                   *)
(***************************************************************************)
Tunes(t) == rdTodo[t] # <<>> /\ Head(rdTodo[t]).op \in {"chan", "sel"}

Tune(t) ==
    /\ rd' = IF Refused(rd, Head(rdTodo[t])) THEN rd
             ELSE IF rd.stopped THEN [rd EXCEPT !.bwInit = @ \/ Head(rdTodo[t]).op = "chan"]
             ELSE StoreSetting(rd, Head(rdTodo[t]))
    /\ rdTodo' = [rdTodo EXCEPT ![t] = HandleSwChnlAndSetBW(rd, Head(@)) \o <<Step("unlock")>> \o Tail(@)]

\* mutant: the channel is set without the mutex
SetchLocked_Not(t) == UNCHANGED <<rdLock, rdTorn>>

SetchLocked(t) == rdLock = "free" /\ rdLock' = t /\ UNCHANGED rdTorn

TakeSetch(t) ==
    /\ Tunes(t) /\ SetchLocked(t) /\ Tune(t)
    /\ UNCHANGED <<rdSet, rdQ, rdOps>>

\* mutex_lock_interruptible returns at once when a signal is pending in the process of the
\* ioctl; the result is not looked at and the mutex is released at the end all the same
SignalPending ==
    /\ Tunes("ioctl") /\ rdLock # "free" /\ Tune("ioctl")
    /\ rdTorn' = TRUE
    /\ UNCHANGED <<rdSet, rdQ, rdLock, rdOps>>

RunStep(t) ==
    /\ rdTodo[t] # <<>> /\ Head(rdTodo[t]).op \notin {"chan", "sel", "unlock"}
    /\ rd' = Effect(rd, Head(rdTodo[t]))
    /\ rdTodo' = [rdTodo EXCEPT ![t] = Tail(@)]
    /\ UNCHANGED <<rdSet, rdQ, rdLock, rdTorn, rdOps>>

ReleaseSetch(t) ==
    /\ rdTodo[t] # <<>> /\ Head(rdTodo[t]).op = "unlock"
    /\ rdLock' = "free"
    /\ rdTodo' = [rdTodo EXCEPT ![t] = Tail(@)]
    /\ UNCHANGED <<rdSet, rd, rdQ, rdTorn, rdOps>>

\* the command thread takes the next command or event
Handler(c) ==
    CASE c.op = "survey" -> sitesurvey_cmd_hdl(rd)
      [] c.op = "join" -> join_cmd_hdl(rd, c.v)
      [] c.op = "disconnect" -> disconnect_hdl(rd)
      [] c.op = "stadel" -> sta_del_event_callback(rd)
      [] c.op = "joined" -> joinbss_event_callback(rd, c.v)
      [] c.op = "opmode" -> setopmode_hdl(rd, c.v)

RunCommand ==
    /\ rdTodo["cmd"] = <<>> /\ rdQ # <<>>
    /\ rdTodo' = [rdTodo EXCEPT !["cmd"] = Handler(Head(rdQ))]
    /\ rd' = IF Head(rdQ).op = "survey"
             THEN [SurveyState(rd) EXCEPT !.timer = SurveyState(rd).idx <= Len(RdScan)]
             ELSE IF Head(rdQ).op = "stadel" /\ rd.mode = "sta"
             THEN [rd EXCEPT !.linked = FALSE] ELSE rd
    /\ rdQ' = Tail(rdQ)
    /\ UNCHANGED <<rdSet, rdLock, rdTorn, rdOps>>

\* survey_timer_hdl: the next channel of the survey
SurveyTimer ==
    /\ rd.timer /\ rdTodo["cmd"] = <<>> /\ Len(rdQ) < MaxRdQ
    /\ rd' = [rd EXCEPT !.timer = FALSE, !.idx = IF rd.sv = "process" THEN @ + 1 ELSE @]
    /\ rdQ' = Append(rdQ, Step("survey"))
    /\ UNCHANGED <<rdSet, rdTodo, rdLock, rdTorn, rdOps>>

(***************************************************************************)
(* Requests of processes and frames of the peer.                           *)
(***************************************************************************)
Request(cmds) ==
    /\ ~rd.stopped /\ rdOps < MaxRdOps /\ Len(rdQ) + Len(cmds) <= MaxRdQ
    /\ rdQ' = rdQ \o cmds
    /\ rdOps' = rdOps + 1
    /\ UNCHANGED <<rdSet, rdTodo, rdLock, rdTorn>>

ReqSurvey == /\ ~rd.under /\ ~rd.linking
             /\ Request(<<Step("survey")>>)
             /\ rd' = [rd EXCEPT !.under = TRUE]

\* rtw_select_and_join_from_scanned_queue: the command that drops the old link may be lost
\* for want of memory
ReqJoin(n, dropped) ==
    /\ rd.mode = "sta" /\ ~rd.under /\ ~rd.linking /\ (dropped => rd.linked)
    /\ Request((IF rd.linked /\ ~dropped THEN <<Step("disconnect")>> ELSE <<>>) \o <<Val("join", n)>>)
    /\ rd' = [rd EXCEPT !.linked = FALSE, !.linking = TRUE]

ReqDisconnect == /\ rd.linked
                 /\ Request(<<Step("disconnect")>>)
                 /\ rd' = [rd EXCEPT !.linked = FALSE]

\* rtw_wx_set_mode: every state bit is cleared, also that of a survey or a join under way
ReqMode(m) ==
    /\ rd.mode # m
    /\ Request((IF rd.linked THEN <<Step("disconnect")>> ELSE <<>>) \o <<Val("opmode", m)>>)
    /\ rd' = [rd EXCEPT !.linked = FALSE, !.linking = FALSE, !.under = FALSE, !.mode = m,
                      !.cut = @ \/ rd.under \/ rd.linking]

ReqAp(ch, n) ==
    /\ rd.mode = "ap" /\ rdTodo["ioctl"] = <<>> /\ ~rd.stopped /\ rdOps < MaxRdOps
    /\ rdTodo' = [rdTodo EXCEPT !["ioctl"] = start_bss_network(ch, n)]
    /\ rdOps' = rdOps + 1
    /\ UNCHANGED <<rdSet, rd, rdQ, rdLock, rdTorn>>

\* the association ends: rtw_joinbss_event_prehandle at once, the callback as an event
JoinEnds(ok) ==
    /\ rd.st = "auth" /\ rd.linking /\ rdTodo["cmd"] = <<>> /\ Len(rdQ) < MaxRdQ
    /\ rd' = [rd EXCEPT !.st = IF ok THEN "assoc" ELSE "null", !.linked = ok, !.linking = FALSE]
    /\ rdQ' = Append(rdQ, Val("joined", ok))
    /\ UNCHANGED <<rdSet, rdTodo, rdLock, rdTorn, rdOps>>

\* the access point sends a deauthentication
Deauth == /\ rd.st = "assoc" /\ ~\E i \in 1..Len(rdQ) : rdQ[i].op = "stadel"
          /\ Request(<<Step("stadel")>>)
          /\ UNCHANGED rd

RdNext ==
    \/ RdUp \/ RdDown \/ SignalPending \/ RunCommand \/ SurveyTimer
    \/ \E t \in RdThreads : TakeSetch(t) \/ RunStep(t) \/ ReleaseSetch(t)
    \/ ReqSurvey \/ ReqDisconnect \/ Deauth
    \/ \E n \in RdNets, d \in BOOLEAN : ReqJoin(n, d)
    \/ \E m \in {"sta", "ap"} : ReqMode(m)
    \/ \E ch \in RdApCh, n \in RdNets : ReqAp(ch, n)
    \/ \E ok \in BOOLEAN : JoinEnds(ok)

RdSpec == RdInit /\ [][RdNext]_rdVars

(***************************************************************************)
(* Properties.                                                             *)
(***************************************************************************)
Tuned(s) ==
    /\ s.hRfCh = s.chan /\ s.hFc = FcArea(s.chan) /\ s.hModAg = RfModAg(s.chan) /\ s.hPower = s.chan
    /\ s.hBw = s.bw /\ s.hMode = s.bw /\ s.hRfBw = s.bw /\ s.hClk = (s.bw = 80)
    /\ s.hSc = SecondaryChnl(s.bw, s.sc40, s.sc80)
    /\ s.band = BandOf(s.chan) /\ s.hCckCheck = s.band /\ s.hAgc = s.band /\ s.hEnable = s.band

\* When nobody holds setch_mutex, and no pending signal made a process go on without it, the
\* baseband, the RF chip and the power tables are set for the channel, the width and the side
\* bands the driver has on record (PHY_HandleSwChnlAndSetBW8812 skips what it believes is set).
ChannelAgrees == rdLock = "free" /\ ~rdTorn /\ rd.chan # 0 => Tuned(rd)

\* However often the bands change, the base index of the power tracking is that of the swing
\* programmed for the present band (rtl8821au_phy_switch_wirelessband adds differences).
SwingTracks == rdLock = "free" /\ rd.chan # 0 => rd.ofdm = 24 + 2 * rd.hSwing

\* With no command under way, a linked station and an access point receive data frames, check
\* the BSSID of beacons and have the receive gain of before the survey once no survey runs
\* (HW_VAR_MLME_SITESURVEY, HW_VAR_MLME_JOIN and HW_VAR_INITIAL_GAIN in all their orders),
\* as long as rtw_wx_set_mode has not cleared the state bit of a survey or a join under way:
\* then a second survey can end inside a join and leave REG_RXFLTMAP2 closed for the link.
FiltersFollow ==
    RdIdle /\ ~rd.cut /\ ~rd.stopped /\ rd.sv = "disable" /\ (rd.linked \/ rd.st = "ap")
       => rd.hData /\ rd.hBcnBssid /\ rd.hIg = 32
=============================================================================
