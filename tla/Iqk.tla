-------------------------------- MODULE Iqk --------------------------------
(***************************************************************************)
(* IQ calibration of the two chips (rtl8821au/phy.c): back up the MAC, BB, *)
(* AFE and RF registers, measure each path three times with retries, fill  *)
(* the compensation matrices with the mean of two measurements that agree, *)
(* and restore the registers. BB registers 0xcXX and 0xeXX exist twice:    *)
(* bit 31 of 0x82c selects page C or page C1, so a save or a restore is    *)
(* only right on page C.                                                   *)
(*                                                                         *)
(* A register group holds "orig" or "cal" (what calibration wrote). The    *)
(* two components of a measurement are one number, and an element of the   *)
(* arrays on the stack that was not written is Unset: reading it yields    *)
(* any number. The chip answers a one-shot with any outcome.               *)
(***************************************************************************)
EXTENDS Integers, FiniteSets

CONSTANTS
    IqChips,        \* the chips: "8812" has paths A and B, "8821" path A
    Meas,           \* what the chip may measure
    MaxRetry        \* cal_retry: 10 in the code

CalNum == 3                          \* cal_num
Groups == {"macbb", "afe", "rfA", "rfB"}
RfOf(p) == IF p = "A" THEN "rfA" ELSE "rfB"
Unset == -1                          \* not a measurement
Default == -2                        \* the neutral matrix: 0x200, 0
Old == -3                            \* the matrix is as it was before

ASSUME IqkAssumption ==
    /\ IqChips \subseteq {"8812", "8821"} /\ Meas \subseteq Nat
    /\ MaxRetry \in Nat \ {0}

VARIABLES
    chip, vdf,          \* vdf: VDF_enable, an 80 MHz channel on the 8821
    iqPc, path,
    page,               \* bit 31 of 0x82c
    regs,               \* the groups on page C
    backup,
    cal, tone, retry,   \* loop counters: measurement, tone, retry
    vdfRes,             \* VDF_X[2], VDF_Y[2]
    meas,               \* TX_X0 ..., RX_X0 ...
    ok, avg,            \* TX0IQKOK, RX0IQKOK; TX_Average, RX_Average
    iqc                 \* the matrices of the path

work == <<cal, tone, retry, vdfRes, meas, ok, avg>>
saved == <<regs, backup>>
iqVars == <<chip, vdf, iqPc, path, page, saved, work, iqc>>

Dirs == {"tx", "rx"}
NoMeas == [d \in Dirs |-> [i \in 0 .. CalNum - 1 |-> Unset]]

\* A call of _rtl8812au_iqk_tx: its locals.
Fresh ==
    /\ cal' = 0 /\ tone' = 0 /\ retry' = 0 /\ vdfRes' = Unset /\ meas' = NoMeas
    /\ ok' = [d \in Dirs |-> FALSE] /\ avg' = [d \in Dirs |-> 0]

IqkInit ==
    /\ chip \in IqChips /\ vdf \in BOOLEAN /\ (vdf => chip = "8821")
    /\ iqPc = "idle" /\ path = "A" /\ page = "C"
    /\ regs = [g \in Groups |-> "orig"] /\ backup = [g \in Groups |-> "none"]
    /\ cal = 0 /\ tone = 0 /\ retry = 0 /\ vdfRes = Unset /\ meas = NoMeas
    /\ ok = [d \in Dirs |-> FALSE] /\ avg = [d \in Dirs |-> 0]
    /\ iqc = [d \in Dirs |-> Old]
-----------------------------------------------------------------------------
(***************************************************************************)
(* Backup, configuration and restoration.                                  *)
(***************************************************************************)
\* What a read or a write of group g on page p reaches: the calibration's own
\* registers are on page C1.
Reached(gs, p) == IF p = "C" THEN gs ELSE gs \ {"macbb", "afe"}

BackupC(gs) ==
    /\ page' = "C"
    /\ backup' = [g \in Groups |-> IF g \in gs THEN regs[g] ELSE backup[g]]
RestoreC(gs, p) ==
    regs' = [g \in Groups |-> IF g \in Reached(gs, p) THEN backup[g] ELSE regs[g]]
Writes(gs, p) ==
    regs' = [g \in Groups |-> IF g \in Reached(gs, p) THEN "cal" ELSE regs[g]]

iqk_backup_8812 == BackupC(Groups)
iqk_backup_8821 == BackupC(Groups \ {"rfB"})

Backup ==
    /\ iqPc = "idle"
    /\ iqPc' = "configure"
    /\ IF chip = "8812" THEN iqk_backup_8812 ELSE iqk_backup_8821
    /\ UNCHANGED <<chip, vdf, path, regs, work, iqc>>

\* The MAC pauses, CCK, the receive antennas and CCA go off.
iqk_configure_mac_8812 == page' = "C" /\ Writes({"macbb"}, "C")
iqk_configure_mac_8821 == page' = "C" /\ Writes({"macbb"}, "C")

Configure ==
    /\ iqPc = "configure" /\ iqPc' = "setup"
    /\ IF chip = "8812" THEN iqk_configure_mac_8812 ELSE iqk_configure_mac_8821
    /\ UNCHANGED <<chip, vdf, path, backup, work, iqc>>

iqk_restore_rf_8812 == page' = "C" /\ RestoreC({RfOf(path)}, "C")
iqk_restore_rf_8821 == page' = "C" /\ RestoreC({RfOf(path)}, "C")

RestoreRf ==
    /\ iqPc = "restore_rf"
    /\ IF chip = "8812" THEN iqk_restore_rf_8812 ELSE iqk_restore_rf_8821
    /\ IF chip = "8812" /\ path = "A"
       THEN path' = "B" /\ iqPc' = "setup"
       ELSE path' = path /\ iqPc' = "restore_afe"
    /\ Fresh /\ iqc' = [d \in Dirs |-> Old]
    /\ UNCHANGED <<chip, vdf, backup>>

\* The AFE registers are reloaded on page C; then the registers of the
\* calibration are cleared on page C1.
iqk_restore_afe_8812 == RestoreC({"afe"}, "C") /\ page' = "C1"
iqk_restore_afe_8821 == RestoreC({"afe"}, "C") /\ page' = "C1"

RestoreAfe ==
    /\ iqPc = "restore_afe" /\ iqPc' = "restore_macbb"
    /\ IF chip = "8812" THEN iqk_restore_afe_8812 ELSE iqk_restore_afe_8821
    /\ UNCHANGED <<chip, vdf, path, backup, work, iqc>>

\* A slip: the page the AFE restore left is not changed back first.
iqk_restore_macbb_NoPage == RestoreC({"macbb"}, page) /\ page' = page
\* 0x82c is itself among the registers of the MAC and BB that are restored.
iqk_restore_macbb_8812 == RestoreC({"macbb"}, "C") /\ page' = "C"
iqk_restore_macbb_8821 == RestoreC({"macbb"}, "C") /\ page' = "C"

RestoreMacbb ==
    /\ iqPc = "restore_macbb" /\ iqPc' = "done"
    /\ IF chip = "8812" THEN iqk_restore_macbb_8812 ELSE iqk_restore_macbb_8821
    /\ UNCHANGED <<chip, vdf, path, backup, work, iqc>>
-----------------------------------------------------------------------------
(***************************************************************************)
(* One-shots. The 8812 waits up to 20 ms for the ready bit; the 8821 tests *)
(* "~IQK_ready", which is never zero, and takes what is there at once. The *)
(* test of the TX fail bit, "~TX_fail", is never false for either.         *)
(***************************************************************************)
Outcomes == [ready : BOOLEAN, fail : BOOLEAN, v : Meas]
Taken8812(o) == o.ready
Taken8821(o) == TRUE
Taken(o) == IF chip = "8812" THEN Taken8812(o) ELSE Taken8821(o)
TxOk(o) == Taken(o)
RxOk(o) == Taken(o) /\ ~ o.fail
Good(d, o) == IF d = "tx" THEN TxOk(o) ELSE RxOk(o)
Stored(a, i, o) == [a EXCEPT ![i] = o.v]

\* A shot in direction d: the loop ends with a result or after MaxRetry of
\* them; "last" tells whether this one ends it.
Ends(d, o) == Good(d, o) \/ retry + 1 = MaxRetry
Retried(d, o) ==
    /\ ok' = [ok EXCEPT ![d] = Good(d, o)]
    /\ retry' = IF Ends(d, o) THEN 0 ELSE retry + 1

\* AFE on, the hardware's three-wire interface off, then the TX settings.
SetupA8812 == page' = "C1" /\ Writes({"macbb", "afe", "rfA"}, "C")
SetupB8812 == page' = "C1" /\ Writes({"macbb", "afe", "rfB"}, "C")
Setup8812 ==
    /\ chip = "8812" /\ iqPc = "setup" /\ iqPc' = "tx"
    /\ IF path = "A" THEN SetupA8812 ELSE SetupB8812
    /\ Fresh
    /\ UNCHANGED <<chip, vdf, path, backup, iqc>>

\* Three TX measurements, then the result of LOK is loaded. When the last of
\* them failed there is no RX calibration.
TxLoopA8812(o) ==
    meas' = IF TxOk(o) THEN [meas EXCEPT !["tx"] = Stored(@, cal, o)] ELSE meas
TxLoopB8812(o) ==
    meas' = IF TxOk(o) THEN [meas EXCEPT !["tx"] = Stored(@, cal, o)] ELSE meas
TxShot8812(o) ==
    /\ chip = "8812" /\ iqPc = "tx"
    /\ IF path = "A" THEN TxLoopA8812(o) ELSE TxLoopB8812(o)
    /\ Retried("tx", o)
    /\ IF ~ Ends("tx", o)
       THEN UNCHANGED <<cal, avg, iqPc, page, regs>>
       ELSE /\ avg' = [avg EXCEPT !["tx"] = IF TxOk(o) THEN @ + 1 ELSE @]
            /\ cal' = (cal + 1) % CalNum
            /\ iqPc' = IF cal + 1 < CalNum THEN "tx"
                       ELSE IF TxOk(o) THEN "rx" ELSE "fill_tx"
            /\ page' = "C1" /\ Writes({"macbb", RfOf(path)}, "C")
    /\ UNCHANGED <<chip, vdf, path, backup, tone, vdfRes, iqc>>

\* Three RX measurements, each with the TX measurement of the same number. A
\* failure bit writes the default into the RX matrix.
RxLoopA8812(o) ==
    /\ meas' = IF RxOk(o) THEN [meas EXCEPT !["rx"] = Stored(@, cal, o)] ELSE meas
    /\ iqc' = IF Taken(o) /\ o.fail THEN [iqc EXCEPT !["rx"] = Default] ELSE iqc
RxLoopB8812(o) ==
    /\ meas' = IF RxOk(o) THEN [meas EXCEPT !["rx"] = Stored(@, cal, o)] ELSE meas
    /\ iqc' = IF Taken(o) /\ o.fail THEN [iqc EXCEPT !["rx"] = Default] ELSE iqc
RxShot8812(o) ==
    /\ chip = "8812" /\ iqPc = "rx"
    /\ IF path = "A" THEN RxLoopA8812(o) ELSE RxLoopB8812(o)
    /\ Retried("rx", o)
    /\ page' = "C1" /\ Writes({"macbb", RfOf(path)}, "C")
    /\ IF ~ Ends("rx", o)
       THEN UNCHANGED <<cal, avg, iqPc>>
       ELSE /\ avg' = [avg EXCEPT !["rx"] = IF RxOk(o) THEN @ + 1 ELSE @]
            /\ cal' = (cal + 1) % CalNum
            /\ iqPc' = IF cal + 1 < CalNum THEN "rx" ELSE "fill_tx"
    /\ UNCHANGED <<chip, vdf, path, backup, tone, vdfRes>>
-----------------------------------------------------------------------------
(***************************************************************************)
(* The 8821 measures TX, TX in RX mode and RX in each of its three rounds. *)
(* On an 80 MHz channel each is made with three tones, and the third one   *)
(* counts; both directions use the same array for the tones.               *)
(***************************************************************************)
Lok8821 ==
    /\ chip = "8821" /\ iqPc = "setup" /\ iqPc' = "tx"
    /\ page' = "C1" /\ Writes({"macbb", "afe", "rfA"}, "C")
    /\ IF cal = 0 THEN Fresh ELSE UNCHANGED work
    /\ UNCHANGED <<chip, vdf, path, backup, iqc>>

LastTone == ~ vdf \/ tone = 2
NextTone == tone' = IF LastTone THEN 0 ELSE tone + 1

\* Without tones the result goes straight to the arrays.
Tone(d, o, good) ==
    /\ vdfRes' = IF vdf /\ good /\ tone = 2 THEN o.v ELSE vdfRes
    /\ meas' = IF vdf
               THEN IF LastTone THEN [meas EXCEPT ![d][cal] = vdfRes'] ELSE meas
               ELSE IF good THEN [meas EXCEPT ![d][cal] = o.v] ELSE meas

\* "TXK fail, Don't do RXK" leaves the round.
TxDone8821(o) ==
    /\ tone' = 0
    /\ cal' = IF TxOk(o) THEN cal ELSE cal + 1
    /\ iqPc' = IF TxOk(o) THEN "rxk"
               ELSE IF cal + 1 < CalNum THEN "setup" ELSE "fill_tx"
TxVdf8821(o) == vdf /\ Tone("tx", o, TxOk(o))
TxPlain8821(o) == ~ vdf /\ Tone("tx", o, TxOk(o))
TxShot8821(o) ==
    /\ chip = "8821" /\ iqPc = "tx"
    /\ TxVdf8821(o) \/ TxPlain8821(o)
    /\ Retried("tx", o)
    /\ IF Ends("tx", o) /\ LastTone
       THEN TxDone8821(o)
       ELSE UNCHANGED <<cal, iqPc>> /\ tone' = IF Ends("tx", o) THEN tone + 1 ELSE tone
    /\ UNCHANGED <<chip, vdf, path, page, saved, avg, iqc>>

\* RX mode TXK: its result, or the one of TX, goes to the chip for the RX
\* measurement, and TX0IQKOK is true again in any case.
RxkSetup8821 == page' = "C1" /\ Writes({"macbb", "rfA"}, "C")
RxkShot8821(o) ==
    /\ chip = "8821" /\ iqPc = "rxk"
    /\ RxkSetup8821
    /\ retry' = IF Ends("tx", o) THEN 0 ELSE retry + 1
    /\ ok' = [ok EXCEPT !["tx"] = TxOk(o) \/ Ends("tx", o)]
    /\ iqPc' = IF Ends("tx", o) THEN "rx" ELSE "rxk"
    /\ UNCHANGED <<chip, vdf, path, backup, cal, tone, vdfRes, meas, avg, iqc>>

RxVdf8821(o) == vdf /\ (Ends("rx", o) => Tone("rx", o, RxOk(o)))
                    /\ (~ Ends("rx", o) => UNCHANGED <<vdfRes, meas>>)
RxPlain8821(o) == ~ vdf /\ Tone("rx", o, RxOk(o))
Round8821 ==
    /\ avg' = [d \in Dirs |-> IF ok'[d] THEN avg[d] + 1 ELSE avg[d]]
    /\ cal' = cal + 1
    /\ iqPc' = IF cal + 1 < CalNum THEN "setup" ELSE "fill_tx"
RxShot8821(o) ==
    /\ chip = "8821" /\ iqPc = "rx"
    /\ RxVdf8821(o) \/ RxPlain8821(o)
    /\ Retried("rx", o)
    /\ iqc' = IF o.fail THEN [iqc EXCEPT !["rx"] = Default] ELSE iqc
    /\ page' = (IF Ends("rx", o) /\ LastTone THEN "C" ELSE "C1")
    /\ Writes({"macbb", "rfA"}, "C")
    /\ IF ~ Ends("rx", o) THEN UNCHANGED <<tone, cal, avg, iqPc>>
       ELSE /\ NextTone
            /\ IF LastTone THEN Round8821
               ELSE iqPc' = "rxk" /\ UNCHANGED <<cal, avg>>
    /\ UNCHANGED <<chip, vdf, path, backup>>
-----------------------------------------------------------------------------
(***************************************************************************)
(* The mean of the first two measurements that agree, among the first      *)
(* TX_Average (RX_Average) elements of the array, or the default.          *)
(***************************************************************************)
Tolerance == IF chip = "8812" THEN 4 ELSE 3
Close(x, y) == x - y < Tolerance /\ y - x < Tolerance
Pairs(n) == {p \in (0 .. n - 1) \X (0 .. n - 1) : p[1] < p[2]}
Before(p, q) == p[1] < q[1] \/ (p[1] = q[1] /\ p[2] < q[2])
Agreeing(a, n) == {p \in Pairs(n) : Close(a[p[1]], a[p[2]])}
First(ps) == CHOOSE p \in ps : \A q \in ps \ {p} : Before(p, q)
Mean(a, n) ==
    IF Agreeing(a, n) = {} THEN Default
    ELSE LET p == First(Agreeing(a, n)) IN (a[p[1]] + a[p[2]]) \div 2

\* What the array holds where it was not written is whatever is on the stack.
Contents(a) ==
    {f \in [DOMAIN a -> Meas] : \A i \in DOMAIN a : a[i] # Unset => f[i] = a[i]}

FillFrom(d) ==
    \E a \in Contents(meas[d]) : iqc' = [iqc EXCEPT ![d] = Mean(a, avg[d])]

\* Without a single TX result the 8812 writes the default, the 8821 nothing,
\* and neither fills the RX matrix.
FillTxA8812 == IF avg["tx"] = 0 THEN iqc' = [iqc EXCEPT !["tx"] = Default]
               ELSE FillFrom("tx")
FillTxB8812 == IF avg["tx"] = 0 THEN iqc' = [iqc EXCEPT !["tx"] = Default]
               ELSE FillFrom("tx")
FillTx8821 == IF avg["tx"] = 0 THEN UNCHANGED iqc ELSE FillFrom("tx")
FillTx ==
    /\ iqPc = "fill_tx"
    /\ iqPc' = IF avg["tx"] = 0 THEN "restore_rf" ELSE "fill_rx"
    /\ IF chip = "8821" THEN FillTx8821
       ELSE IF path = "A" THEN FillTxA8812 ELSE FillTxB8812
    /\ page' = IF chip = "8821" /\ avg["tx"] = 0 THEN page ELSE "C1"
    /\ UNCHANGED <<chip, vdf, path, saved, work>>

FillRxA8812 == IF avg["rx"] = 0 THEN iqc' = [iqc EXCEPT !["rx"] = Default]
               ELSE FillFrom("rx")
FillRxB8812 == IF avg["rx"] = 0 THEN iqc' = [iqc EXCEPT !["rx"] = Default]
               ELSE FillFrom("rx")
FillRx8821 == IF avg["rx"] = 0 THEN UNCHANGED iqc ELSE FillFrom("rx")
FillRx ==
    /\ iqPc = "fill_rx" /\ iqPc' = "restore_rf"
    /\ IF chip = "8821" THEN FillRx8821
       ELSE IF path = "A" THEN FillRxA8812 ELSE FillRxB8812
    /\ page' = IF chip = "8821" /\ avg["rx"] = 0 THEN page ELSE "C"
    /\ UNCHANGED <<chip, vdf, path, saved, work>>

\* do_iqk calls the calibration again when the temperature has changed.
Recalibrate ==
    /\ iqPc = "done" /\ iqPc' = "idle" /\ path' = "A"
    /\ UNCHANGED <<chip, vdf, page, saved, work, iqc>>

Shot(o) ==
    \/ TxShot8812(o) \/ RxShot8812(o)
    \/ TxShot8821(o) \/ RxkShot8821(o) \/ RxShot8821(o)

IqkNext ==
    \/ Backup \/ Configure \/ Setup8812 \/ Lok8821
    \/ \E o \in Outcomes : Shot(o)
    \/ FillTx \/ FillRx
    \/ RestoreRf \/ RestoreAfe \/ RestoreMacbb \/ Recalibrate

IqkSpec == IqkInit /\ [][IqkNext]_iqVars
-----------------------------------------------------------------------------
(***************************************************************************)
(* Properties.                                                             *)
(***************************************************************************)
\* _rtl8812au_phy_iq_calibrate, _rtl8821au_phy_iq_calibrate: whichever shots
\* fail, the calibration leaves every register group it saved as it was, and
\* page C selected: each save and each restore happens on page C although the
\* fills and the early ends leave either page behind.
IqkRestores ==
    iqPc = "done" =>
        /\ page = "C"
        /\ \A g \in Groups : regs[g] = "orig"
=============================================================================
