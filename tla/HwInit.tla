------------------------------ MODULE HwInit ------------------------------
(***************************************************************************)
(* Bringing the chip up and down: the power sequences (HalPwrSeqCmd.c, the *)
(* flows of Hal8812PwrSeq.h and Hal8821APwrSeq.h), rtl8812au_hw_init       *)
(* (rtl8821au/hw.c) with rtw_hal_init and rtw_hal_deinit around it, and    *)
(* the mapping of transmit queues to USB endpoints (rtl8821au/trx.c).      *)
(*                                                                         *)
(* The chip is a file of byte registers; a byte is the set of its bits.    *)
(* Each stage of the bring-up is the list of its writes in their order:    *)
(* byte, word and double word writes W, and read-modify-writes M of some   *)
(* bits.  Registers no other stage touches are left out where they add     *)
(* nothing; of the MAC table the rows that share a register with a stage   *)
(* are kept.  A poll of a power flow may time out, and so may the writes of*)
(* the link list; the baseband and RF stage fails when the device is gone. *)
(***************************************************************************)
EXTENDS Integers, Sequences, FiniteSets
LOCAL INSTANCE SequencesExt
LOCAL INSTANCE FiniteSetsExt

CONSTANTS HwSetups,     \* records chip ("8812" | "8821"), pipes (1..4),
                        \* usb ("super" | "high" | "full"), ldo
          MaxUps        \* bound on bring-ups tried

ASSUME HwAssumption ==
    /\ \A s \in HwSetups : /\ s.chip \in {"8812", "8821"} /\ s.pipes \in 1..4
                           /\ s.ldo \in BOOLEAN
                           /\ s.usb \in {"super", "high", "full"}
                           /\ s.chip = "8821" => s.usb # "super"
    /\ MaxUps \in Nat

VARIABLES hwSet,        \* the device at hand, one of HwSetups
          hwReg,        \* the registers
          hwStage,      \* next stage of the bring-up; 0: not in rtl8812au_hw_init
          hwDone,       \* hw_init_completed
          hwFw,         \* rtlhal.fw_ready
          hwStuck,      \* history: the last power-off stopped before the MAC was off
          hwUps         \* bring-ups begun
hwVars == <<hwSet, hwReg, hwStage, hwDone, hwFw, hwStuck, hwUps>>

(***************************************************************************)
(* Register operations.                                                    *)
(***************************************************************************)
B(n) == {i \in 0..7 : (n \div 2^i) % 2 = 1}
ByteBits == 0..7
W(a, bytes) == [j \in 1..Len(bytes) |-> [a |-> a + j - 1, mask |-> ByteBits, v |-> B(bytes[j])]]
M(a, mask, v) == <<[a |-> a, mask |-> B(mask), v |-> B(v)]>>
Wr(r, w) == [r EXCEPT ![w.a] = (@ \ w.mask) \cup (w.v \cap w.mask)]
\* the writes ws one after the other: a register takes those to its address, in their order
Do(r, ws) ==
    [a \in DOMAIN r |->
        FoldLeft(LAMBDA bits, w : (bits \ w.mask) \cup (w.v \cap w.mask), r[a],
                 SelectSeq(ws, LAMBDA w : w.a = a))]

(***************************************************************************)
(* Power flows, as USB sees them: the rows for PCI and SDIO never match    *)
(* PWR_INTF_USB_MSK.  P(a, mask, v) is a poll.                             *)
(***************************************************************************)
P(a, mask, v) == <<[a |-> a, mask |-> B(mask), v |-> B(v), poll |-> TRUE]>>
Bar(ws) == [j \in 1..Len(ws) |-> [a |-> ws[j].a, mask |-> ws[j].mask, v |-> ws[j].v,
                                  poll |-> FALSE]]
CARDEMU_TO_ACT_8812 ==
    Bar(M(5, \h04, 0)) \o P(6, \h02, \h02) \o Bar(M(5, \h80, 0) \o M(5, \h08, 0) \o M(5, 1, 1))
    \o P(5, 1, 0)
ACT_TO_CARDEMU_8812 ==
    Bar(W(\hC00, <<4>>) \o W(\hE00, <<4>>) \o M(2, 1, 0) \o W(7, <<\h28>>) \o M(8, 2, 0)
        \o M(5, 2, 2)) \o P(5, 2, 0)
CARDEMU_TO_CARDDIS_8812 ==
    Bar(M(3, 4, 0) \o W(\h80, <<5>>) \o M(\h42, \hF0, \hCC) \o W(\h43, <<7>>) \o W(\h45, <<0>>)
        \o W(\h46, <<\hFF>>) \o W(\h47, <<0>>) \o M(\h14, \h80, \h80) \o M(\h15, 1, 1)
        \o M(\h12, 1, 0) \o M(\h23, \h10, \h10) \o M(8, 2, 0) \o W(7, <<\h20>>)
        \o M(\h1F, 2, 0) \o M(\h76, 2, 0) \o M(5, 8, 8))
CARDDIS_TO_CARDEMU_8812 ==
    Bar(M(\h12, 1, 1) \o M(\h14, \h80, 0) \o M(\h15, 1, 0) \o M(\h23, \h10, 0) \o W(\h46, <<0>>)
        \o W(\h43, <<0>>) \o M(5, 8, 0) \o M(3, 4, 4))
ACT_TO_LPS_8812 ==
    Bar(W(\h522, <<\h7F>>)) \o P(\h5F8, \hFF, 0) \o P(\h5F9, \hFF, 0) \o P(\h5FA, \hFF, 0)
    \o P(\h5FB, \hFF, 0)
    \o Bar(W(\hC00, <<4>>) \o W(\hE00, <<4>>) \o M(2, 1, 0) \o M(2, 2, 0) \o W(\h100, <<3>>)
           \o M(\h101, 2, 0) \o M(\h553, \h20, \h20))

\* rtlhal.version is 0 or, from the first _InitBurstPktLen on, has all its low bits set (chip
\* type 7): rtl8821au_read_chip_version drops what it read.  IS_VENDOR_8821A_MP_CHIP is false
\* and the rows of PWR_CUT_TESTCHIP_MSK run on every chip.
CARDEMU_TO_ACT_8821 ==
    Bar(M(\h20, 1, 1) \o M(\h67, \h10, 0) \o M(0, \h20, 0) \o M(5, 4, 0)) \o P(6, 2, 2)
    \o Bar(M(6, 1, 1) \o M(5, \h80, 0) \o M(5, \h18, 0) \o M(5, 1, 1)) \o P(5, 1, 0)
    \o Bar(M(\h4F, 1, 1) \o M(\h67, \h30, \h30) \o M(\h25, \h40, 0) \o M(\h49, 2, 2)
           \o M(\h63, 2, 2) \o M(\h62, 2, 0) \o M(\h58, 1, 1) \o M(\h5A, 2, 2)
           \o W(\h7A, <<\h3A>>) \o W(\h2E, <<\h82>>))
ACT_TO_CARDEMU_8821 ==
    Bar(W(\h1F, <<0>>) \o M(\h4F, 1, 0) \o M(\h49, 2, 0) \o M(5, 2, 2)) \o P(5, 2, 0)
    \o Bar(M(0, \h20, \h20) \o M(\h20, 1, 0))
CARDEMU_TO_CARDDIS_8821 == Bar(M(5, \h18, 8) \o M(\h4A, 1, 1))
CARDDIS_TO_CARDEMU_8821 == Bar(M(5, \h88, 0) \o M(\h4A, 1, 0) \o M(5, \h18, 0))
ACT_TO_LPS_8821 ==
    Bar(W(\h522, <<\hFF>>)) \o P(\h5F8, \hFF, 0) \o P(\h5F9, \hFF, 0) \o P(\h5FA, \hFF, 0)
    \o P(\h5FB, \hFF, 0)
    \o Bar(M(2, 1, 0) \o M(2, 2, 0) \o W(\h100, <<3>>) \o M(\h101, 2, 0)
           \o M(\h553, \h20, \h20))

card_enable_flow(s) == IF s.chip = "8812" THEN CARDDIS_TO_CARDEMU_8812 \o CARDEMU_TO_ACT_8812
                       ELSE CARDDIS_TO_CARDEMU_8821 \o CARDEMU_TO_ACT_8821
card_disable_flow(s) == IF s.chip = "8812" THEN ACT_TO_CARDEMU_8812 \o CARDEMU_TO_CARDDIS_8812
                        ELSE ACT_TO_CARDEMU_8821 \o CARDEMU_TO_CARDDIS_8821
enter_lps_flow(s) == IF s.chip = "8812" THEN ACT_TO_LPS_8812 ELSE ACT_TO_LPS_8821

\* Hardware: a poll that succeeds leaves the polled bits at the value waited for.  The one
\* of 0x05[1] tells that the MAC is off: its registers are back at their reset values.
MacOff(w) == w.a = 5 /\ w.mask = {1}
Polled(r, w) == IF MacOff(w) THEN [a \in DOMAIN r |-> IF a >= \h100 THEN {} ELSE Wr(r, w)[a]]
                ELSE Wr(r, w)
Polls(f) == {j \in 1..Len(f) : f[j].poll}
\* the flow up to the poll that times out; j = 0: none does, up to PWR_CMD_END
PwrSeqCmdParsing(r, f, j) ==
    FoldLeft(LAMBDA x, w : IF w.poll THEN Polled(x, w) ELSE Wr(x, w), r,
             IF j = 0 THEN f ELSE SubSeq(f, 1, j - 1))

(***************************************************************************)
(* The stages of rtl8812au_hw_init.                                        *)
(***************************************************************************)
Is8812(s) == s.chip = "8812"
RfReset(s) == IF Is8812(s) THEN W(\h1F, <<5>>) \o W(\h1F, <<7>>) \o W(\h76, <<5>>) \o W(\h76, <<7>>)
              ELSE <<>>
\* after the flow: REG_CR cleared, then DMA, protocol, scheduler, security and calibration on
_InitPowerOn8812AU(s) ==
    W(\h100, <<0, 0>>) \o M(\h100, \h3F, \h3F) \o M(\h101, 6, 6)
    \o (IF ~Is8812(s) /\ s.ldo THEN M(\h7C, \h40, \h40) ELSE <<>>)

\* rows of the MAC table on registers the later stages write as well
MacTable(s) ==
    W(\h428, <<\h0A, \h10>>) \o W(\h440, <<\h5D, 1, 0>>) \o W(\h444, <<\h10, 0, 0, 0>>)
    \o W(\h448, <<0, \hF0, \h0F, \h3E>>) \o W(\h44C, <<\h10, 0, 0, 0>>) \o W(\h450, <<0, \hF0, \h0F, 0>>)
    \o (IF Is8812(s) THEN W(\h45B, <<\h80>>) ELSE W(\h456, <<\h5E>>))
    \o W(\h460, <<\h66, \h66>>) \o W(\h4CC, <<\hFF, \hFF, 1>>) \o W(\h500, <<\h26, \hA2, \h2F, 0>>)
    \o W(\h504, <<\h28, \hA3, \h5E, 0>>) \o W(\h508, <<\h2B, \hA4, \h5E, 0>>)
    \o W(\h50C, <<\h4F, \hA4, 0, 0>>) \o W(\h512, <<\h1C>>) \o W(\h514, <<\h0A>>) \o W(\h516, <<\h0A>>)
    \o W(\h550, <<\h10, \h10>>) \o W(\h559, <<2>>) \o W(\h55C, <<\h50>>) \o W(\h608, <<\h0E, \h2A>>)
    \o W(\h620, <<\hFF, \hFF, \hFF, \hFF, \hFF, \hFF, \hFF, \hFF>>) \o W(\h638, <<\h50>>)
    \o W(\h640, <<\h40>>)

\* pages kept for the high, low and normal queue, and the common pool
Pages(s) == IF Is8812(s) THEN [hq |-> \h10, lq |-> \h10, nq |-> 0, pub |-> \hD8]
            ELSE [hq |-> 8, lq |-> 8, nq |-> 0, pub |-> \hE7]
TX_PAGE_BOUNDARY(s) == IF Is8812(s) THEN \hF9 ELSE \hF8
out_queue_sel(s) == <<{"HQ"}, {"HQ", "NQ"}, {"HQ", "LQ", "NQ"}, {"HQ", "LQ", "NQ"}>>[s.pipes]
_InitQueueReservedPage(s) ==
    LET sel(q, n) == IF q \in out_queue_sel(s) THEN n ELSE 0
    IN W(\h214, <<sel("NQ", Pages(s).nq)>>)
       \o W(\h200, <<sel("HQ", Pages(s).hq), sel("LQ", Pages(s).lq), Pages(s).pub, \h80>>)
_InitTxBufferBoundary(s) ==
    LET b == <<TX_PAGE_BOUNDARY(s)>>
    IN W(\h424, b) \o W(\h425, b) \o W(\h45D, b) \o W(\h114, b) \o W(\h209, b)
\* the link list: a chain of the transmit pages, and a ring of the rest
_rtl8821au_llt_table_init(b) ==
    [i \in 0..255 |-> IF i = b - 1 THEN \hFF ELSE IF i = 255 THEN b ELSE i + 1]

Queues == {"BE", "BK", "VI", "VO", "MGT", "HI"}
QueueCode == [LQ |-> 1, NQ |-> 2, HQ |-> 3]
two_ep == [q \in Queues |-> IF q \in {"BE", "BK"} THEN "NQ" ELSE "HQ"]   \* HQ | NQ
three_ep == [q \in Queues |-> IF q \in {"BE", "BK"} THEN "LQ" ELSE IF q = "VI" THEN "NQ" ELSE "HQ"]
reg_priority(ep) ==
    M(\h10C, \hF8, QueueCode[ep["VO"]] * 16 + QueueCode[ep["VI"]] * 64)
    \o W(\h10D, <<QueueCode[ep["BE"]] + 4 * QueueCode[ep["BK"]] + 16 * QueueCode[ep["MGT"]]
                  + 64 * QueueCode[ep["HI"]]>>)
_rtl8821au_init_chipN_queue_priority(s) ==
    IF s.pipes = 2 THEN reg_priority(two_ep)
    ELSE IF s.pipes \in {3, 4} THEN reg_priority(three_ep) ELSE <<>>
_InitPageBoundary == W(\h116, <<\h7F, \h3E>>)
_InitTransferPageSize(s) == IF Is8812(s) THEN W(\h104, <<\h30>>) ELSE <<>>
_InitDriverInfoSize == W(\h60F, <<4>>)
rtl8821au_disable_interrupt == W(\hB0, <<0, 0, 0, 0>>) \o W(\hB8, <<0, 0, 0, 0>>)
rtl8821au_enable_interrupt == rtl8821au_disable_interrupt      \* irq_mask is never set
_InitNetworkType == M(\h102, 3, 2)
_InitWMACSetting ==
    W(\h608, <<\hCE, \h60, 0, \h74>>) \o W(\h620, <<\hFF, \hFF, \hFF, \hFF, \hFF, \hFF, \hFF, \hFF>>)
_InitAdaptiveCtrl ==
    W(\h440, <<\hF1, \hFF>>) \o M(\h442, \h0F, \h0F) \o W(\h428, <<\h10, \h10>>) \o W(\h42A, <<\h30, \h30>>)
_InitEDCA ==
    W(\h428, <<\h0A, \h10>>) \o W(\h63A, <<\h0A, \h10>>) \o W(\h514, <<\h0A, \h10>>) \o W(\h516, <<\h0A, \h10>>)
    \o W(\h508, <<\h2B, \hA4, \h5E, 0>>) \o W(\h50C, <<\h4F, \hA4, 0, 0>>)
    \o W(\h504, <<\h24, \hA3, \h5E, 0>>) \o W(\h500, <<\h26, \hA2, \h2F, 0>>)
    \o W(\h55C, <<\h50>>) \o W(\h638, <<\h50>>)
_InitRetryFunction == M(\h420, \h80, \h80) \o W(\h640, <<\h80>>)
init_UsbAggregationSetting(s) ==
    M(\h208, \hF0, IF Is8812(s) THEN \h30 ELSE \h60) \o W(\h280, <<4, 8>>) \o M(\h10C, 4, 4)
rtl8821au_init_beacon_parameters ==
    W(\h550, <<\h10, \h10>>) \o W(\h540, <<4, \h64>>) \o W(\h558, <<5>>) \o W(\h559, <<2>>)
    \o W(\h510, <<\h0F, \h66>>)
UsbBurst(s) ==
    CASE s.usb = "high" -> M(\h290, \h30, \h10) \o W(\h290, <<\h1E, 0>>) \o W(\h280, <<5, \h20>>)
      [] s.usb = "full" -> M(\h290, \h30, \h20) \o W(\h280, <<5, \h20>>)
      [] s.usb = "super" -> M(\h290, \h30, 0) \o W(\h290, <<\h0E, 0>>) \o M(\hF008, \h18, 0)
\* rates of the rate fallback tables 9 and 10; REG_ARFR1 is 0x448, REG_ARFR1_8812 0x44C
\* (with all bits of the version set, IS_NORMAL_CHIP holds and no test chip is recognised)
Table9 == <<0, \hF0, \hFF, \hFF>>
Table10 == <<0, \hF0, \h3F, 0>>
RateFallback ==
    W(\h444, <<\h10, 0, 0, 0>>) \o W(\h448, Table9) \o W(\h448, <<\h10, 0, 0, 0>>)
    \o W(\h450, Table10)
_InitBurstPktLen(s) ==
    W(\hF050, <<1>>) \o W(\h288, <<0, \h74>>) \o W(\h289, <<\hF5>>) \o W(\h456, <<\h70>>)
    \o W(\h458, <<\hFF, \hFF, \hFF, \hFF>>) \o W(\h55C, <<\h50>>) \o W(\h638, <<\h50>>) \o UsbBurst(s)
    \o M(\h4C7, \h80, \h80) \o W(\h60C, <<\h18>>) \o W(\h512, <<0>>)
    \o (IF Is8812(s) THEN W(\h4CA, <<\h1F>>) \o M(\h420, \h80, 0)
        ELSE W(\h4CA, <<\h0A, \h0A>>) \o W(\h420, <<\h80>>) \o W(\h456, <<\h5E>>)
             \o W(\h460, <<\h77, \h77, 8, 3>>))
    \o M(\h1C, \h60, \h60) \o RateFallback
EnableMac == M(\h100, \hC0, \hC0)
rtl8821au_phy_bb_config == M(2, 4, 4) \o M(2, 3, 3) \o W(\h1F, <<7>>) \o W(\h76, <<7>>)
Epilogue ==
    W(\h423, <<\hFF>>) \o W(\h4CC, <<\hFF, \hFF, 1, 2>>) \o W(\h652, <<0>>) \o M(\h4C6, 8, 0)
    \o W(\h421, <<\h0F>>) \o W(\h2BF, <<1>>) \o W(\h4F0, <<\hF0, \h3D>>) \o W(\h70, <<0>>)
    \o W(\h3E, <<0>>) \o W(\hFE58, <<0>>)

PowerStage == 1
FwStage == 2
RfStage == 5
StageWrites(s) == <<
    _InitPowerOn8812AU(s),
    <<>>,
    MacTable(s) \o _InitQueueReservedPage(s) \o _InitTxBufferBoundary(s)
    \o _rtl8821au_init_chipN_queue_priority(s) \o _InitPageBoundary \o _InitTransferPageSize(s)
    \o _InitDriverInfoSize \o rtl8821au_enable_interrupt \o _InitNetworkType \o _InitWMACSetting
    \o _InitAdaptiveCtrl \o _InitEDCA \o _InitRetryFunction \o init_UsbAggregationSetting(s)
    \o rtl8821au_init_beacon_parameters \o _InitBurstPktLen(s),
    EnableMac,
    rtl8821au_phy_bb_config,
    Epilogue>>

(***************************************************************************)
(* Endpoints of the transmit queues (rtl8821au_endpoint_mapping).          *)
(***************************************************************************)
_OneOutEpMapping(q) == 2
_TwoOutEpMapping(q) == IF q \in {"BE", "BK"} THEN 3 ELSE 2
_ThreeOutEpMapping(q) == IF q \in {"BE", "BK"} THEN 4 ELSE IF q = "VI" THEN 3 ELSE 2
_FourOutEpMapping(q) == IF q \in {"BE", "BK"} THEN 8 ELSE IF q = "VI" THEN 6 ELSE 5
Hal_MappingOutPipe(s, q) ==
    <<_OneOutEpMapping(q), _TwoOutEpMapping(q), _ThreeOutEpMapping(q), _FourOutEpMapping(q)>>[s.pipes]

(***************************************************************************)
(* Actions.                                                                *)
(***************************************************************************)
AllWrites(s) == FoldLeft(LAMBDA x, w : x \o w, RfReset(s), StageWrites(s))
FlowAddrs(f) == {f[j].a : j \in 1..Len(f)}
Addrs(s) == {AllWrites(s)[j].a : j \in 1..Len(AllWrites(s))}
            \cup FlowAddrs(card_enable_flow(s)) \cup FlowAddrs(card_disable_flow(s))
            \cup FlowAddrs(enter_lps_flow(s)) \cup {3, \h41, \h80}
            \cup {\hB4, \hB5, \hB6, \hB7, \hBC, \hBD, \hBE, \hBF}

\* rtw_hal_init, up to the power flow; IPS and open call it with the chip down
rtw_hal_init ==
    /\ hwStage = 0 /\ ~hwDone /\ hwUps < MaxUps
    /\ hwReg' = Do(hwReg, RfReset(hwSet))
    /\ hwStage' = PowerStage /\ hwUps' = hwUps + 1
    /\ UNCHANGED <<hwSet, hwDone, hwFw, hwStuck>>

\* the power flow fails at the poll that times out
PowerOnFails ==
    /\ hwStage = PowerStage
    /\ \E j \in Polls(card_enable_flow(hwSet)) :
          hwReg' = PwrSeqCmdParsing(hwReg, card_enable_flow(hwSet), j)
    /\ hwStage' = 0
    /\ UNCHANGED <<hwSet, hwDone, hwFw, hwStuck, hwUps>>
PowerOn ==
    /\ hwStage = PowerStage
    /\ hwReg' = Do(PwrSeqCmdParsing(hwReg, card_enable_flow(hwSet), 0), _InitPowerOn8812AU(hwSet))
    /\ hwStage' = hwStage + 1
    /\ UNCHANGED <<hwSet, hwDone, hwFw, hwStuck, hwUps>>
\* the link list of the pages cannot be written
LltFails ==
    /\ hwStage = FwStage
    /\ hwStage' = 0
    /\ UNCHANGED <<hwSet, hwReg, hwDone, hwFw, hwStuck, hwUps>>
\* a download that fails does not end the bring-up
DownloadFw(ok) ==
    /\ hwStage = FwStage
    /\ hwFw' = ok
    /\ hwReg' = Do(hwReg, W(\h80, <<IF ok THEN \hC6 ELSE \h05>>))
    /\ hwStage' = hwStage + 1
    /\ UNCHANGED <<hwSet, hwDone, hwStuck, hwUps>>
RunStage ==
    /\ hwStage \notin {0, PowerStage, FwStage}
    /\ hwReg' = Do(hwReg, StageWrites(hwSet)[hwStage])
    /\ IF hwStage = Len(StageWrites(hwSet)) THEN hwStage' = 0 /\ hwDone' = TRUE
       ELSE hwStage' = hwStage + 1 /\ hwDone' = hwDone
    /\ UNCHANGED <<hwSet, hwFw, hwStuck, hwUps>>
\* PHY_RFConfig8812 with bSurpriseRemoved
RfFails ==
    /\ hwStage = RfStage
    /\ hwReg' = Do(hwReg, StageWrites(hwSet)[hwStage])
    /\ hwStage' = 0
    /\ UNCHANGED <<hwSet, hwDone, hwFw, hwStuck, hwUps>>

_rtl8821au_poweroff_adapter_Early(r, i, j) ==
    IF i # 0 THEN PwrSeqCmdParsing(Do(r, W(\h100, <<0>>)), enter_lps_flow(hwSet), i)
    ELSE PwrSeqCmdParsing(r, card_disable_flow(hwSet), j)
\* LPS flow and disable flow, whose results nobody looks at, up to polls i and j
_rtl8821au_poweroff_adapter(r, i, j) ==
    PwrSeqCmdParsing(Do(PwrSeqCmdParsing(Do(r, W(\h100, <<0>>)), enter_lps_flow(hwSet), i),
                        M(3, 4, 0) \o W(\h80, <<0>>)),
                     card_disable_flow(hwSet), j)
\* IF_RTL8821AU_USB3_MODE is bit 15 compared with true: U1/U2 are never enabled again
rtl8812au_hal_deinit ==
    /\ hwStage = 0
    /\ LET masked == Do(hwReg, M(\h41, \h10, 0)
                               \o W(\hB4, <<\hFF, \hFF, \hFF, \hFF>>) \o W(\hBC, <<\hFF, \hFF, \hFF, \hFF>>)
                               \o rtl8821au_disable_interrupt)
       IN IF ~hwDone THEN hwReg' = masked /\ UNCHANGED hwStuck
          ELSE \E i \in {0} \cup Polls(enter_lps_flow(hwSet)),
                  j \in {0} \cup Polls(card_disable_flow(hwSet)) :
                  /\ hwReg' = _rtl8821au_poweroff_adapter(masked, i, j)
                  /\ hwStuck' = (j # 0)
    /\ hwDone' = FALSE
    /\ UNCHANGED <<hwSet, hwStage, hwFw, hwUps>>

HwInit ==
    /\ hwSet \in HwSetups
    /\ hwReg = [a \in Addrs(hwSet) |-> {}]
    /\ hwStage = 0 /\ hwDone = FALSE /\ hwFw = FALSE /\ hwStuck = FALSE /\ hwUps = 0
HwNext ==
    \/ rtw_hal_init
    \/ PowerOnFails
    \/ PowerOn
    \/ LltFails
    \/ \E ok \in BOOLEAN : DownloadFw(ok)
    \/ RunStage
    \/ RfFails
    \/ rtl8812au_hal_deinit
HwSpec == HwInit /\ [][HwNext]_hwVars

(***************************************************************************)
(* Properties.                                                             *)
(***************************************************************************)
\* registers of the MAC a first, undisturbed bring-up leaves
FirstUp(s) == FoldLeft(Do, [a \in DOMAIN hwReg |-> {}], StageWrites(s))
\* Whatever bring-ups failed half-way and whatever power-offs were cut short before, a bring-up
\* that completes leaves the MAC registers as a first bring-up would: no stage reads back and
\* keeps what an earlier life of the chip left.  After a power-off that never turned the MAC
\* off, the queues it paused (0x522) and 0x553 are the exception: no stage clears them.
SameEveryTime ==
    hwDone => \E first \in {FirstUp(hwSet)} :
                  \A a \in {x \in DOMAIN hwReg : x >= \h100 /\ x < \h800} :
                      hwReg[a] # first[a] => hwStuck /\ a \in {\h522, \h553}

\* Queues that share an endpoint share the hardware queue the chip takes them to and the other
\* way round, as the tables of trx.c and hw.c were written apart; that queue is one of
\* out_queue_sel, so pages were counted for it; and the pages handed to the queues are no more
\* than the chain of the link list holds.
HwQueue(q) ==
    LET lo == hwReg[\h10C] hi == hwReg[\h10D]
        two(b, n) == (IF n \in b THEN 1 ELSE 0) + (IF n + 1 \in b THEN 2 ELSE 0)
    IN CASE q = "VO" -> two(lo, 4) [] q = "VI" -> two(lo, 6) [] q = "BE" -> two(hi, 0)
         [] q = "BK" -> two(hi, 2) [] q = "MGT" -> two(hi, 4) [] q = "HI" -> two(hi, 6)
Chain(t) == CHOOSE n \in 1..256 : /\ t[n - 1] = \hFF
                                  /\ \A i \in 0..(n - 2) : t[i] = i + 1
Num(b) == FoldSet(LAMBDA i, n : n + 2^i, 0, b)
QueuesAgree ==
    hwDone =>
    /\ hwSet.pipes > 1 =>
          /\ \A p, q \in Queues : (HwQueue(p) = HwQueue(q))
                                   <=> (Hal_MappingOutPipe(hwSet, p) = Hal_MappingOutPipe(hwSet, q))
          /\ \A q \in Queues : \E n \in out_queue_sel(hwSet) : HwQueue(q) = QueueCode[n]
    /\ Num(hwReg[\h200]) + Num(hwReg[\h201]) + Num(hwReg[\h202]) + Num(hwReg[\h214])
          <= Chain(_rtl8821au_llt_table_init(Num(hwReg[\h114])))
=============================================================================
