---------------------------- MODULE ChipProofs ----------------------------
(***************************************************************************)
(* Proofs about what the driver programs into the chip: the registers IQ   *)
(* calibration saves and restores (Iqk), the firmware's image, mailboxes   *)
(* and reserved pages (Fw), the entries of the security CAM (Keys), and    *)
(* the channel, the width and the swing the tuner is set for (Radio).      *)
(***************************************************************************)
EXTENDS Iqk, Fw, Keys, Radio, FiniteSetTheorems, SequenceTheorems, WellFoundedInduction, TLAPS

-----------------------------------------------------------------------------
(***************************************************************************)
(* IQ calibration.                                                         *)
(***************************************************************************)
RegSet == {"orig", "cal", "none"}

IqType ==
    /\ chip \in {"8812", "8821"} /\ path \in {"A", "B"}
    /\ regs \in [Groups -> RegSet] /\ backup \in [Groups -> RegSet]

\* The 8821 has one path, and a calibration begins with path A.
IqPath == /\ chip = "8821" => path = "A"
          /\ iqPc \in {"idle", "configure"} => path = "A"

\* What a calibration in progress has saved is what was there before it; the
\* 8821 saves no second path.
IqSaved ==
    iqPc # "idle" =>
        \A g \in Groups : (chip = "8821" /\ g = "rfB") \/ backup[g] = "orig"

\* The registers that hold their old value: all of them before Configure and
\* at the end, the RF registers of the path not in work, and one group more
\* after each restoration.
IqIntact ==
    /\ iqPc \in {"idle", "configure", "done"} => \A g \in Groups : regs[g] = "orig"
    /\ path = "A" => regs["rfB"] = "orig"
    /\ path = "B" => regs["rfA"] = "orig"
    /\ iqPc \in {"restore_afe", "restore_macbb"} => regs["rfA"] = "orig" /\ regs["rfB"] = "orig"
    /\ iqPc = "restore_macbb" => regs["afe"] = "orig"

IqInv == IqType /\ IqPath /\ IqSaved /\ IqIntact /\ (iqPc = "done" => page = "C")

\* The chip before its first calibration satisfies the invariant.
LEMMA IqInitInv == IqkInit => IqInv
BY IqkAssumption DEF IqkInit, IqInv, IqType, IqPath, IqSaved, IqIntact, Groups, RegSet

\* A step that only writes to registers in work keeps the invariant.
LEMMA IqWorks ==
    ASSUME IqInv, iqPc \notin {"idle", "configure", "restore_afe", "restore_macbb", "done"},
           iqPc' \notin {"idle", "configure", "restore_afe", "restore_macbb", "done"},
           UNCHANGED <<chip, path, backup>>,
           \/ UNCHANGED regs
           \/ \E gs \in SUBSET {"macbb", "afe", RfOf(path)} : Writes(gs, "C")
    PROVE  IqInv'
<1>1. CASE UNCHANGED regs
  BY <1>1 DEF IqInv, IqType, IqPath, IqSaved, IqIntact, Groups
<1>2. ASSUME NEW gs \in SUBSET {"macbb", "afe", RfOf(path)}, Writes(gs, "C")
      PROVE  IqInv'
  <2>1. regs' = [g \in Groups |-> IF g \in gs THEN "cal" ELSE regs[g]]
    BY <1>2 DEF Writes, Reached
  <2>2. regs' \in [Groups -> RegSet]
    BY <2>1 DEF IqInv, IqType, RegSet
  <2>3. path = "A" => regs'["rfB"] = "orig"
    BY <1>2, <2>1 DEF IqInv, IqIntact, RfOf, Groups
  <2>4. path = "B" => regs'["rfA"] = "orig"
    BY <1>2, <2>1 DEF IqInv, IqIntact, RfOf, Groups
  <2> QED
    BY <2>2, <2>3, <2>4 DEF IqInv, IqType, IqPath, IqSaved, IqIntact, Groups
<1> QED
  BY <1>1, <1>2

\* Every step of the calibration keeps the invariant.
LEMMA IqStep == IqInv /\ [IqkNext]_iqVars => IqInv'
<1> SUFFICES ASSUME IqInv, [IqkNext]_iqVars
             PROVE  IqInv'
  OBVIOUS
<1>1. CASE Backup
  <2>1. \A g \in Groups : regs[g] = "orig"
    BY <1>1 DEF Backup, IqInv, IqIntact
  <2>2. \A g \in Groups : (chip = "8821" /\ g = "rfB") \/ backup'[g] = "orig"
    BY <1>1, <2>1 DEF Backup, iqk_backup_8812, iqk_backup_8821, BackupC, IqInv, IqType, Groups
  <2>3. backup' \in [Groups -> RegSet]
    BY <1>1 DEF Backup, iqk_backup_8812, iqk_backup_8821, BackupC, IqInv, IqType, Groups
  <2> QED
    BY <1>1, <2>1, <2>2, <2>3 DEF Backup, IqInv, IqType, IqPath, IqSaved, IqIntact
<1>2. CASE Configure
  <2>1. regs' = [g \in Groups |-> IF g = "macbb" THEN "cal" ELSE regs[g]]
    BY <1>2 DEF Configure, iqk_configure_mac_8812, iqk_configure_mac_8821, Writes, Reached
  <2>2. regs' \in [Groups -> RegSet] /\ regs'["rfA"] = "orig" /\ regs'["rfB"] = "orig"
    BY <1>2, <2>1 DEF Configure, IqInv, IqType, IqIntact, Groups, RegSet
  <2> QED
    BY <1>2, <2>2 DEF Configure, IqInv, IqType, IqPath, IqSaved, IqIntact
<1>3. CASE Setup8812
  BY <1>3, IqWorks DEF Setup8812, SetupA8812, SetupB8812, RfOf, IqInv, IqType
<1>4. CASE Lok8821
  BY <1>4, IqWorks DEF Lok8821, RfOf, IqInv, IqPath
<1>5. ASSUME NEW o \in Outcomes, Shot(o)
      PROVE  IqInv'
  <2>1. CASE TxShot8812(o)
    <3>1. UNCHANGED regs \/ Writes({"macbb", RfOf(path)}, "C")
      BY <2>1 DEF TxShot8812
    <3> QED
      BY <2>1, <3>1, IqWorks DEF TxShot8812
  <2>2. CASE RxShot8812(o)
    BY <2>2, IqWorks DEF RxShot8812
  <2>3. CASE TxShot8821(o)
    BY <2>3, IqWorks DEF TxShot8821, TxDone8821, saved
  <2>4. CASE RxkShot8821(o)
    BY <2>4, IqWorks DEF RxkShot8821, RxkSetup8821, RfOf, IqInv, IqPath
  <2>5. CASE RxShot8821(o)
    BY <2>5, IqWorks DEF RxShot8821, Round8821, RfOf, IqInv, IqPath
  <2> QED
    BY <1>5, <2>1, <2>2, <2>3, <2>4, <2>5 DEF Shot
<1>6. CASE FillTx
  BY <1>6, IqWorks DEF FillTx, saved
<1>7. CASE FillRx
  BY <1>7, IqWorks DEF FillRx, saved
<1>8. CASE RestoreRf
  <2>1. regs' = [g \in Groups |-> IF g = RfOf(path) THEN backup[g] ELSE regs[g]]
    BY <1>8 DEF RestoreRf, iqk_restore_rf_8812, iqk_restore_rf_8821, RestoreC, Reached
  <2>2. regs' \in [Groups -> RegSet]
    BY <2>1 DEF IqInv, IqType
  <2>3. regs'["rfA"] = "orig" /\ regs'["rfB"] = "orig"
    BY <1>8, <2>1 DEF RestoreRf, IqInv, IqType, IqPath, IqSaved, IqIntact, RfOf, Groups
  <2> QED
    BY <1>8, <2>2, <2>3 DEF RestoreRf, IqInv, IqType, IqPath, IqSaved, IqIntact
<1>9. CASE RestoreAfe
  <2>1. regs' = [g \in Groups |-> IF g = "afe" THEN backup[g] ELSE regs[g]]
    BY <1>9 DEF RestoreAfe, iqk_restore_afe_8812, iqk_restore_afe_8821, RestoreC, Reached
  <2>2. regs' \in [Groups -> RegSet]
    BY <2>1 DEF IqInv, IqType
  <2>3. regs'["rfA"] = "orig" /\ regs'["rfB"] = "orig" /\ regs'["afe"] = "orig"
    BY <1>9, <2>1 DEF RestoreAfe, IqInv, IqSaved, IqIntact, Groups
  <2> QED
    BY <1>9, <2>2, <2>3 DEF RestoreAfe, IqInv, IqType, IqPath, IqSaved, IqIntact
<1>10. CASE RestoreMacbb
  <2>1. regs' = [g \in Groups |-> IF g = "macbb" THEN backup[g] ELSE regs[g]]
    BY <1>10 DEF RestoreMacbb, iqk_restore_macbb_8812, iqk_restore_macbb_8821, RestoreC, Reached
  <2>2. regs' \in [Groups -> RegSet]
    BY <2>1 DEF IqInv, IqType
  <2>3. \A g \in Groups : regs'[g] = "orig"
    BY <1>10, <2>1 DEF RestoreMacbb, IqInv, IqSaved, IqIntact, Groups
  <2>4. page' = "C"
    BY <1>10 DEF RestoreMacbb, iqk_restore_macbb_8812, iqk_restore_macbb_8821
  <2> QED
    BY <1>10, <2>2, <2>3, <2>4
    DEF RestoreMacbb, IqInv, IqType, IqPath, IqSaved, IqIntact, Groups
<1>11. CASE Recalibrate
  BY <1>11 DEF Recalibrate, saved, IqInv, IqType, IqPath, IqSaved, IqIntact, Groups
<1>12. CASE UNCHANGED iqVars
  BY <1>12 DEF iqVars, saved, IqInv, IqType, IqPath, IqSaved, IqIntact
<1> QED
  BY <1>1, <1>2, <1>3, <1>4, <1>5, <1>6, <1>7, <1>8, <1>9, <1>10, <1>11, <1>12 DEF IqkNext

\* IQ calibration of either chip leaves the registers it saved as they were,
\* and page C selected, for any number of retries and whatever the shots
\* measure (_rtl8812au_phy_iq_calibrate, _rtl8821au_phy_iq_calibrate).
THEOREM CalibrationRestores == IqkSpec => []IqkRestores
<1>1. IqInv => IqkRestores
  BY DEF IqInv, IqIntact, IqkRestores
<1> QED
  BY IqInitInv, IqStep, <1>1, PTL DEF IqkSpec
-----------------------------------------------------------------------------
(***************************************************************************)
(* The image in the memory of the 8051.                                    *)
(***************************************************************************)
\* The bytes of page p of an image.
PageBytes(size, p) ==
    LET left == size - (p - 1) * MAX_DLFW_PAGE_SIZE
    IN  IF left > MAX_DLFW_PAGE_SIZE THEN MAX_DLFW_PAGE_SIZE ELSE left

\* A run of writes is <<start, block, count>>; a page takes three of them.
Run == Nat \X Nat \X Nat
DlType == fwDl \in [at : {"off", "write", "ready", "done"}, size : Nat, page : Nat,
                    ram : Seq(Run \X Run \X Run)]

\* During a download the pages written hold their parts of the image, and the
\* last of them begins inside it.
DlInv ==
    /\ DlType
    /\ fwDl.at \in {"write", "ready"} =>
          /\ fwDl.size \in Nat \ {0} /\ Len(fwDl.ram) = fwDl.page
          /\ (fwDl.page - 1) * MAX_DLFW_PAGE_SIZE < fwDl.size
          /\ \A p \in 1..fwDl.page : fwDl.ram[p] = _BlockWrite_8812(PageBytes(fwDl.size, p))
    /\ fwDl.at = "ready" => fwDl.page * MAX_DLFW_PAGE_SIZE >= fwDl.size

\* The three runs of a page follow one another and cover its n bytes.
LEMMA BlocksCover ==
    ASSUME NEW n \in Nat
    PROVE  LET w == _BlockWrite_8812(n)
           IN  /\ w \in Run \X Run \X Run
               /\ w[1][1] = 0
               /\ w[2][1] = w[1][1] + w[1][2] * w[1][3]
               /\ w[3][1] = w[2][1] + w[2][2] * w[2][3]
               /\ w[3][1] + w[3][2] * w[3][3] = n
<1> DEFINE c1 == n \div 196
           r1 == n % 196
           c2 == r1 \div 8
           r2 == r1 % 8
<1>1. c1 \in Nat /\ r1 \in Nat /\ n = c1 * 196 + r1
  BY Z3
<1>2. c2 \in Nat /\ r2 \in Nat /\ r1 = c2 * 8 + r2
  BY <1>1, Z3
<1>3. _BlockWrite_8812(n) = <<<<0, 196, c1>>, <<c1 * 196, 8, c2>>, <<c1 * 196 + c2 * 8, 1, r2>>>>
  BY DEF _BlockWrite_8812
<1>4. c1 * 196 \in Nat /\ c1 * 196 + c2 * 8 \in Nat
  BY <1>1, <1>2
<1> HIDE DEF c1, r1, c2, r2
<1>5. _BlockWrite_8812(n) \in Run \X Run \X Run
  BY <1>1, <1>2, <1>3, <1>4 DEF Run
<1>6. 0 + 196 * c1 = c1 * 196 /\ c1 * 196 + 8 * c2 = c1 * 196 + c2 * 8
      /\ c1 * 196 + c2 * 8 + 1 * r2 = n
  BY <1>1, <1>2
<1> QED
  BY <1>3, <1>5, <1>6

\* Before the first download nothing is written.
LEMMA DlInitInv == FwInit => DlInv
BY DEF FwInit, DlInv, DlType

\* Every step keeps what a download has written.
LEMMA DlStep == DlInv /\ [FwNext]_fwVars => DlInv'
<1> SUFFICES ASSUME DlInv, [FwNext]_fwVars
             PROVE  DlInv'
  OBVIOUS
<1>1. CASE DownloadBegin
  <2>1. CASE fwDl' = [fwDl EXCEPT !.at = "done"]
    BY <2>1 DEF DlInv, DlType
  <2>2. ASSUME NEW n \in FwSizes,
               fwDl' = [at |-> "write", size |-> n, page |-> 0, ram |-> <<>>]
        PROVE  DlInv'
    <3>1. n \in Nat \ {0}
      BY FwAssumption
    <3>2. DlType'
      BY <2>2, <3>1 DEF DlType
    <3>3. (0 - 1) * MAX_DLFW_PAGE_SIZE < n
      BY <3>1 DEF MAX_DLFW_PAGE_SIZE
    <3> QED
      BY <2>2, <3>1, <3>2, <3>3 DEF DlInv
  <2> QED
    BY <1>1, <2>1, <2>2 DEF DownloadBegin
<1>2. CASE _PageWrite_8812
  <2> DEFINE n == PageBytes(fwDl.size, fwDl.page + 1)
  <2>1. /\ fwDl.at = "write" /\ fwDl.page * MAX_DLFW_PAGE_SIZE < fwDl.size
        /\ fwDl.size \in Nat \ {0} /\ fwDl.page \in Nat /\ Len(fwDl.ram) = fwDl.page
        /\ fwDl.ram \in Seq(Run \X Run \X Run)
    BY <1>2 DEF _PageWrite_8812, DlInv, DlType
  <2>2. fwDl.size - fwDl.page * MAX_DLFW_PAGE_SIZE = fwDl.size - (fwDl.page + 1 - 1) * MAX_DLFW_PAGE_SIZE
    BY <2>1 DEF MAX_DLFW_PAGE_SIZE
  <2>3. n \in Nat
    BY <2>1 DEF PageBytes, MAX_DLFW_PAGE_SIZE
  <2>4. fwDl' = [at |-> "write", size |-> fwDl.size, page |-> fwDl.page + 1,
                 ram |-> Append(fwDl.ram, _BlockWrite_8812(n))]
    <3> DEFINE left == fwDl.size - fwDl.page * MAX_DLFW_PAGE_SIZE
               m == IF left > MAX_DLFW_PAGE_SIZE THEN MAX_DLFW_PAGE_SIZE ELSE left
    <3>1. fwDl' = [fwDl EXCEPT !.page = @ + 1, !.ram = Append(@, _BlockWrite_8812(m))]
      BY <1>2 DEF _PageWrite_8812
    <3>2. m = n
      BY <2>1, <2>2 DEF PageBytes, MAX_DLFW_PAGE_SIZE
    <3> HIDE DEF left, m
    <3> QED
      BY <2>1, <3>1, <3>2 DEF DlInv, DlType
  <2>5. _BlockWrite_8812(n) \in Run \X Run \X Run
    BY <2>3, BlocksCover
  <2> HIDE DEF n
  <2>6. /\ fwDl'.at = "write" /\ fwDl'.size = fwDl.size /\ fwDl'.page = fwDl.page + 1
        /\ fwDl'.ram = Append(fwDl.ram, _BlockWrite_8812(n))
    BY <2>1, <2>4 DEF DlInv, DlType
  <2>7. Append(fwDl.ram, _BlockWrite_8812(n)) \in Seq(Run \X Run \X Run)
    BY <2>1, <2>5
  <2>8. DlType'
    BY <2>1, <2>4, <2>7 DEF DlInv, DlType
  <2>9. Len(fwDl'.ram) = fwDl'.page
    BY <2>1, <2>5, <2>6
  <2>10. (fwDl'.page - 1) * MAX_DLFW_PAGE_SIZE < fwDl'.size
    BY <2>1, <2>6 DEF MAX_DLFW_PAGE_SIZE
  <2>11. ASSUME NEW p \in 1..fwDl'.page
         PROVE  fwDl'.ram[p] = _BlockWrite_8812(PageBytes(fwDl'.size, p))
    <3>1. CASE p = fwDl.page + 1
      BY <2>1, <2>5, <2>6, <3>1 DEF n
    <3>2. CASE p \in 1..fwDl.page
      <4>1. fwDl'.ram[p] = fwDl.ram[p]
        BY <2>1, <2>5, <2>6, <3>2
      <4> QED
        BY <2>1, <2>6, <3>2, <4>1 DEF DlInv
    <3> QED
      BY <2>1, <2>6, <3>1, <3>2
  <2> QED
    BY <2>1, <2>6, <2>8, <2>9, <2>10, <2>11 DEF DlInv
<1>3. CASE _rtl8821au_fw_free_to_go
  <2>1. /\ fwDl.at = "write" /\ fwDl.page * MAX_DLFW_PAGE_SIZE >= fwDl.size
        /\ fwDl' = [fwDl EXCEPT !.at = "ready"] \/ fwDl' = [fwDl EXCEPT !.at = "done"]
    BY <1>3 DEF _rtl8821au_fw_free_to_go
  <2> QED
    BY <2>1 DEF DlInv, DlType
<1>4. CASE DownloadEnd \/ PowerCycle
  <2>1. PICK a \in {"off", "done"} : fwDl' = [at |-> a, size |-> 0, page |-> 0, ram |-> <<>>]
    BY <1>4 DEF DownloadEnd, PowerCycle
  <2>2. DlType'
    BY <2>1 DEF DlType
  <2> QED
    BY <2>1, <2>2 DEF DlInv
<1>5. CASE FirmwareTakes \/ ReportBegin \/ SetFwRsvdPagePkt_8812 \/ RsvdPagesArrive \/ RsvdPagesTell
           \/ ReportPoll \/ ReportEnd
  BY <1>5 DEF FirmwareTakes, ReportBegin, SetFwRsvdPagePkt_8812, RsvdPagesArrive, RsvdPagesTell,
              ReportPoll, ReportEnd, DlInv, DlType
<1>6. ASSUME NEW t \in H2cThreads,
             \/ rtl8821au_fill_h2c_cmd(t) \/ H2cLock(t) \/ H2cPoll(t)
             \/ H2cExt(t) \/ H2cMain(t) \/ H2cUnlock(t)
      PROVE  DlInv'
  BY <1>6 DEF rtl8821au_fill_h2c_cmd, H2cLock, H2cPoll, H2cExt, H2cMain, H2cUnlock, DlInv, DlType
<1>7. CASE UNCHANGED fwVars
  BY <1>7 DEF fwVars, DlInv, DlType
<1> QED
  BY <1>1, <1>2, <1>3, <1>4, <1>5, <1>6, <1>7 DEF FwNext

\* Whatever the size of the image, the
\* pages and blocks _WriteFW_8812, _PageWrite_8812 and _BlockWrite_8812 write
\* cover it without gap or overlap before the 8051 is started.
THEOREM ImagesWhole == FwSpec => []ImageWhole
<1>1. ASSUME DlInv
      PROVE  ImageWhole
  <2> SUFFICES ASSUME fwDl.at = "ready"
               PROVE  ImageWhole
    BY DEF ImageWhole
  <2> DEFINE End(run) == run[1] + run[2] * run[3]
             Held(p) == LET w == fwDl.ram[p]
                        IN  IF w[1][1] = 0 /\ w[2][1] = End(w[1]) /\ w[3][1] = End(w[2])
                            THEN End(w[3]) ELSE -1
             N == fwDl.page
  <2>1. /\ fwDl.size \in Nat \ {0} /\ N \in Nat /\ Len(fwDl.ram) = N
        /\ (N - 1) * MAX_DLFW_PAGE_SIZE < fwDl.size /\ N * MAX_DLFW_PAGE_SIZE >= fwDl.size
        /\ \A p \in 1..N : fwDl.ram[p] = _BlockWrite_8812(PageBytes(fwDl.size, p))
    BY <1>1 DEF DlInv, DlType
  <2>2. N >= 1
    BY <2>1 DEF MAX_DLFW_PAGE_SIZE
  <2>3. ASSUME NEW p \in 1..N
        PROVE  PageBytes(fwDl.size, p) \in Nat
    BY <2>1 DEF PageBytes, MAX_DLFW_PAGE_SIZE
  <2> HIDE DEF N
  <2>4. ASSUME NEW p \in 1..N
        PROVE  Held(p) = PageBytes(fwDl.size, p)
    <3>1. fwDl.ram[p] = _BlockWrite_8812(PageBytes(fwDl.size, p))
      BY <2>1
    <3>2. PageBytes(fwDl.size, p) \in Nat
      BY <2>3
    <3> QED
      BY <3>1, <3>2, BlocksCover
  <2>5. ASSUME NEW p \in 1..(N - 1)
        PROVE  PageBytes(fwDl.size, p) = MAX_DLFW_PAGE_SIZE
    BY <2>1 DEF PageBytes, MAX_DLFW_PAGE_SIZE
  <2>6. PageBytes(fwDl.size, N) = fwDl.size - (N - 1) * MAX_DLFW_PAGE_SIZE
    BY <2>1 DEF PageBytes, MAX_DLFW_PAGE_SIZE
  <2> HIDE DEF Held
  <2>7. /\ \A p \in 1..(N - 1) : Held(p) = MAX_DLFW_PAGE_SIZE
        /\ Held(N) = fwDl.size - (N - 1) * MAX_DLFW_PAGE_SIZE
    BY <2>1, <2>2, <2>4, <2>5, <2>6
  <2> QED
    BY <2>1, <2>7 DEF ImageWhole, Held
<1> QED
  BY DlInitInv, DlStep, <1>1, PTL DEF FwSpec
-----------------------------------------------------------------------------
(***************************************************************************)
(* Types of the mailboxes and of the report.                               *)
(***************************************************************************)
Locs == [pspoll : Nat, null : Nat, qosnull : Nat, total : Nat]
Args == {<<>>} \cup Locs
Ids == {"none", "raid", "msrrpt", "rsvdpage"}
Cmd == [id : Ids, len : Nat, arg : Args, no : Nat]
H2cPlaces == {"out", "lock", "poll", "ext", "main", "unlock"}
HalSet == [ready : BOOLEAN, last : Boxes]
PagesSet == [held : SUBSET BcnNets, valid : BOOLEAN, air : SUBSET BcnNets]
BoxSet == [full : BOOLEAN, main : Cmd, ext : Cmd]
AtSet == [at : H2cPlaces, cmd : Cmd, box : Boxes]
ReportSet == [at : {"none", "load", "wait", "poll", "end"}, dl : Nat, of : SUBSET BcnNets, valid : BOOLEAN]

MailType ==
    /\ fwBox \in [Boxes -> BoxSet] /\ fwMcu \in Boxes /\ fwSent \in Seq(Cmd)
    /\ h2cOwner \in H2cThreads \cup {"free"} /\ h2cAt \in [H2cThreads -> AtSet]
    /\ fwTorn \in BOOLEAN /\ fwOps \in Nat
RepType ==
    /\ fwChip \in {"8812", "8821"} /\ fwHal \in HalSet /\ fwPages \in PagesSet
    /\ fwJr \in ReportSet
FwType == MailType /\ RepType

\* The records a call, a box and a report start from are typed.
LEMMA Literals ==
    /\ NoCmd \in Cmd /\ OutOfH2c \in AtSet /\ EmptyBox \in BoxSet /\ NoReport \in ReportSet /\ NoPages \in PagesSet
    /\ [b \in Boxes |-> EmptyBox] \in [Boxes -> BoxSet]
<1>1. NoCmd \in Cmd
  <2> DEFINE none == <<>>
  <2>1. none \in Args /\ NoCmd = [id |-> "none", len |-> 0, arg |-> none, no |-> 0]
    BY DEF Args, NoCmd
  <2> HIDE DEF none
  <2> QED
    BY <2>1 DEF Cmd, Ids
<1>2. OutOfH2c \in AtSet
  BY <1>1 DEF OutOfH2c, AtSet, H2cPlaces, Boxes
<1>3. EmptyBox \in BoxSet
  BY <1>1 DEF EmptyBox, BoxSet
<1> QED
  BY <1>1, <1>2, <1>3 DEF NoReport, ReportSet, NoPages, PagesSet

\* A length that is not zero takes at least one page.
LEMMA PageNums ==
    ASSUME NEW n \in Nat, NEW size \in {256, 512}
    PROVE  /\ PageNum(n, size) \in Nat
           /\ n > 0 => PageNum(n, size) > 0
<1>1. CASE size = 256
  BY <1>1, Z3 DEF PageNum
<1>2. CASE size = 512
  BY <1>2, Z3 DEF PageNum
<1> QED
  BY <1>1, <1>2

\* The locations of the frames: PS-Poll after the beacon, one page for each
\* of the three.
LEMMA Located ==
    ASSUME RepType, NEW ies \in BcnNets
    PROVE  LET l == RsvdPageLoc(ies)
           IN  /\ l \in Locs /\ l.pspoll > 0
               /\ l.null = l.pspoll + 1 /\ l.qosnull = l.pspoll + 2 /\ l.total = l.pspoll + 3
<1>1. PageSize \in {256, 512}
  BY DEF PageSize
<1>2. ies.ssid \in Nat /\ ies.rates \in Nat
  BY FwAssumption
<1>3. ConstructBeacon(ies) + TXDESC_SIZE \in Nat /\ ConstructBeacon(ies) + TXDESC_SIZE > 0
  BY <1>2 DEF ConstructBeacon, TXDESC_SIZE
<1> DEFINE p == PageNum(ConstructBeacon(ies) + TXDESC_SIZE, PageSize)
<1>4. p \in Nat /\ p > 0
  BY <1>1, <1>3, PageNums
<1>5. /\ PageNum(PSPollLength + TXDESC_SIZE, PageSize) = 1
      /\ PageNum(NullFunctionDataLength + TXDESC_SIZE, PageSize) = 1
      /\ PageNum(QosNullLength + TXDESC_SIZE, PageSize) = 1
  <2>1. CASE PageSize = 256
    BY <2>1, Z3 DEF PageNum, PSPollLength, NullFunctionDataLength, QosNullLength, TXDESC_SIZE
  <2>2. CASE PageSize = 512
    BY <2>2, Z3 DEF PageNum, PSPollLength, NullFunctionDataLength, QosNullLength, TXDESC_SIZE
  <2> QED
    BY <1>1, <2>1, <2>2
<1>6. RsvdPageLoc(ies) = [pspoll |-> p, null |-> p + 1, qosnull |-> p + 1 + 1, total |-> p + 1 + 1 + 1]
  BY <1>5 DEF RsvdPageLoc
<1> HIDE DEF p
<1> QED
  BY <1>4, <1>6 DEF Locs

\* The initial state is typed.
LEMMA FwInitType == FwInit => FwType
<1> SUFFICES ASSUME FwInit PROVE FwType
  OBVIOUS
<1>1. 0 \in Boxes
  BY DEF Boxes
<1>2. fwHal \in HalSet
  <2>1. fwHal = [ready |-> FALSE, last |-> 0]
    BY DEF FwInit
  <2> QED
    BY <1>1, <2>1 DEF HalSet
<1>3. /\ fwBox = [b \in Boxes |-> EmptyBox] /\ fwMcu = 0 /\ fwSent = <<>>
      /\ h2cOwner = "free" /\ h2cAt = [t \in H2cThreads |-> OutOfH2c]
      /\ fwJr = NoReport /\ fwPages = NoPages /\ fwOps = 0
  BY DEF FwInit
<1>4. fwTorn \in BOOLEAN
  BY DEF FwInit
<1>5. fwChip \in {"8812", "8821"}
  BY FwAssumption DEF FwInit
<1> QED
  BY <1>1, <1>2, <1>3, <1>4, <1>5, Literals DEF FwType, MailType, RepType

\* The command of a call, typed.
LEMMA CallType ==
    ASSUME FwType, NEW t \in H2cThreads, NEW id \in Ids, NEW len \in Nat,
           NEW arg \in Args, H2cCall(t, id, len, arg)
    PROVE  h2cAt' \in [H2cThreads -> AtSet]
<1>1. CASE ~ fwHal.ready
  BY <1>1 DEF H2cCall, FwType, MailType
<1>2. CASE fwHal.ready
  <2> DEFINE c == [id |-> id, len |-> len, arg |-> arg, no |-> fwOps + 1]
             n == [at |-> "lock", cmd |-> c, box |-> 0]
  <2>1. c \in Cmd
    BY DEF Cmd, FwType, MailType
  <2> HIDE DEF c
  <2>2. n \in AtSet
    BY <2>1 DEF AtSet, H2cPlaces, Boxes
  <2>3. h2cAt' = [h2cAt EXCEPT ![t] = n]
    BY <1>2 DEF H2cCall, c
  <2> HIDE DEF n
  <2> QED
    BY <2>2, <2>3 DEF FwType, MailType
<1> QED
  BY <1>1, <1>2

\* A thread that moves on in _rtl8821au_fill_h2c_cmd stays typed.
LEMMA MoveType ==
    ASSUME FwType, NEW t \in H2cThreads, NEW p \in H2cPlaces, H2cTo(t, p)
    PROVE  h2cAt' \in [H2cThreads -> AtSet]
<1>1. [h2cAt[t] EXCEPT !.at = p] \in AtSet
  BY DEF FwType, MailType, AtSet
<1> QED
  BY <1>1 DEF H2cTo, FwType, MailType
\* Every step keeps the types.
LEMMA FwTypeStep == FwType /\ [FwNext]_fwVars => FwType'
<1> SUFFICES ASSUME FwType, [FwNext]_fwVars
             PROVE  FwType'
  OBVIOUS
<1> USE DEF FwType
<1>1. CASE DownloadBegin
  <2>1. fwHal' \in HalSet
    <3>1. 0 \in Boxes
      BY DEF Boxes
    <3> QED
      BY <1>1, <3>1 DEF DownloadBegin, RepType, HalSet
  <2> QED
    BY <1>1, <2>1 DEF DownloadBegin, MailType, RepType
<1>2. CASE _PageWrite_8812 \/ _rtl8821au_fw_free_to_go
  BY <1>2 DEF _PageWrite_8812, _rtl8821au_fw_free_to_go, mailVars, MailType, RepType
<1>3. CASE DownloadEnd
  <2>1. fwHal' \in HalSet
    <3>1. 0 \in Boxes
      BY DEF Boxes
    <3> QED
      BY <1>3, <3>1 DEF DownloadEnd, RepType, HalSet
  <2>2. fwBox' \in [Boxes -> BoxSet]
    BY <1>3, Literals DEF DownloadEnd
  <2>3. fwTorn' \in BOOLEAN
    BY <1>3 DEF DownloadEnd, MailType
  <2> QED
    BY <1>3, <2>1, <2>2, <2>3 DEF DownloadEnd, MailType, RepType, Boxes
<1>4. CASE PowerCycle
  <2>1. fwPages' \in PagesSet /\ fwJr' \in ReportSet
    BY <1>4, Literals DEF PowerCycle
  <2>2. fwBox' \in [Boxes -> BoxSet]
    BY <1>4, Literals DEF PowerCycle
  <2>3. fwTorn' \in BOOLEAN /\ fwOps' \in Nat
    BY <1>4 DEF PowerCycle, MailType, FwOp
  <2> QED
    BY <1>4, <2>1, <2>2, <2>3 DEF PowerCycle, MailType, RepType, Boxes
<1>5. CASE FirmwareTakes
  <2>1. fwBox' \in [Boxes -> BoxSet]
    BY <1>5, Literals DEF FirmwareTakes, MailType
  <2>2. fwMcu' \in Boxes
    BY <1>5, Z3 DEF FirmwareTakes, MailType, Boxes
  <2>3. fwSent' \in Seq(Cmd)
    BY <1>5 DEF FirmwareTakes, MailType
  <2> QED
    BY <1>5, <2>1, <2>2, <2>3 DEF FirmwareTakes, MailType, RepType
<1>6. CASE ReportBegin
  <2>1. PICK n \in BcnNets : fwJr' = [at |-> "load", dl |-> 0, of |-> {n}, valid |-> FALSE]
    BY <1>6 DEF ReportBegin
  <2>2. fwJr' \in ReportSet
    BY <2>1 DEF ReportSet
  <2>3. fwPages' \in PagesSet
    BY <1>6 DEF ReportBegin, BcnValidCleared, RepType, PagesSet
  <2> QED
    BY <1>6, <2>2, <2>3 DEF ReportBegin, FwOp, MailType, RepType
<1>7. CASE SetFwRsvdPagePkt_8812
  <2>1. fwJr.dl + 1 \in Nat
    BY DEF RepType, ReportSet
  <2>2. PICK p \in {"poll", "wait"} : fwJr' = [fwJr EXCEPT !.at = p, !.dl = fwJr.dl + 1]
    BY <1>7 DEF SetFwRsvdPagePkt_8812, RepType, ReportSet
  <2>3. fwJr' \in ReportSet
    BY <2>1, <2>2 DEF RepType, ReportSet
  <2>4. fwPages' \in PagesSet
    BY <1>7 DEF SetFwRsvdPagePkt_8812, RepType, PagesSet, ReportSet
  <2> QED
    BY <1>7, <2>3, <2>4 DEF SetFwRsvdPagePkt_8812, MailType, RepType
<1>8. CASE ReportPoll
  <2>1. PICK p \in {"load", "end"} : fwJr' = [fwJr EXCEPT !.valid = fwPages.valid, !.at = p]
    BY <1>8 DEF ReportPoll
  <2>2. fwJr' \in ReportSet
    BY <2>1 DEF RepType, PagesSet, ReportSet
  <2> QED
    BY <1>8, <2>2 DEF ReportPoll, MailType, RepType
<1>9. CASE ReportEnd
  <2>1. fwPages' \in PagesSet /\ fwJr' \in ReportSet
    BY <1>9 DEF ReportEnd, BcnValidCleared, RepType, PagesSet, ReportSet
  <2> QED
    BY <1>9, <2>1 DEF ReportEnd, MailType, RepType
<1>10. CASE RsvdPagesArrive
  <2>1. fwPages' \in PagesSet
    BY <1>10 DEF RsvdPagesArrive, RepType, PagesSet
  <2> QED
    BY <1>10, <2>1 DEF RsvdPagesArrive, mailVars, MailType, RepType
<1>13. CASE RsvdPagesTell
  <2>1. PICK ies \in fwJr.of : H2cCall("cmd", "rsvdpage", 5, RsvdPageLoc(ies))
    BY <1>13 DEF RsvdPagesTell
  <2>2. ies \in BcnNets
    BY DEF RepType, ReportSet
  <2>3. RsvdPageLoc(ies) \in Args
    BY <2>2, Located DEF Args
  <2>4. h2cAt' \in [H2cThreads -> AtSet]
    BY <2>1, <2>3, CallType, FwAssumption DEF Ids
  <2>5. fwJr' \in ReportSet
    BY <1>13 DEF RsvdPagesTell, RepType, ReportSet
  <2> QED
    BY <1>13, <2>4, <2>5 DEF RsvdPagesTell, MailType, RepType
<1>11. ASSUME NEW t \in H2cThreads,
              \/ rtl8821au_fill_h2c_cmd(t) \/ H2cLock(t) \/ H2cPoll(t)
              \/ H2cExt(t) \/ H2cMain(t) \/ H2cUnlock(t)
       PROVE  FwType'
  <2>1. CASE rtl8821au_fill_h2c_cmd(t)
    <3>1. <<>> \in Args
      BY DEF Args
    <3>2. h2cAt' \in [H2cThreads -> AtSet]
      BY <2>1, <3>1, CallType
      DEF rtl8821au_fill_h2c_cmd, rtl8812_set_raid_cmd, rtl8812_set_FwMediaStatus_cmd, Ids
    <3> QED
      BY <2>1, <3>2 DEF rtl8821au_fill_h2c_cmd, FwOp, MailType, RepType
  <2>2. CASE H2cLock(t)
    <3>1. h2cAt' \in [H2cThreads -> AtSet]
      BY <2>2, MoveType DEF H2cLock, H2cPlaces
    <3> QED
      BY <2>2, <3>1 DEF H2cLock, MailType, RepType
  <2>3. CASE H2cPoll(t)
    <3>1. [h2cAt[t] EXCEPT !.at = "ext", !.box = fwHal.last] \in AtSet
      BY DEF MailType, RepType, AtSet, HalSet, H2cPlaces
    <3>2. [h2cAt EXCEPT ![t].at = "ext", ![t].box = fwHal.last] \in [H2cThreads -> AtSet]
      BY <3>1 DEF MailType, RepType, AtSet, HalSet, H2cPlaces
    <3>3. h2cAt' \in [H2cThreads -> AtSet]
      BY <2>3, <3>2, MoveType DEF H2cPoll, H2cPlaces
    <3> QED
      BY <2>3, <3>3 DEF H2cPoll, MailType, RepType
  <2>4. CASE H2cExt(t)
    <3>1. h2cAt' \in [H2cThreads -> AtSet]
      BY <2>4, MoveType DEF H2cExt, H2cPlaces
    <3>2. h2cAt[t].box \in Boxes /\ h2cAt[t].cmd \in Cmd
      BY DEF MailType, AtSet
    <3>3. fwBox' \in [Boxes -> BoxSet]
      BY <2>4, <3>2 DEF H2cExt, MailType, BoxSet
    <3> QED
      BY <2>4, <3>1, <3>3 DEF H2cExt, MailType, RepType
  <2>5. CASE H2cMain(t)
    <3>1. h2cAt' \in [H2cThreads -> AtSet]
      BY <2>5, MoveType DEF H2cMain, H2cPlaces
    <3>2. h2cAt[t].box \in Boxes /\ h2cAt[t].cmd \in Cmd
      BY DEF MailType, AtSet
    <3>3. fwBox' \in [Boxes -> BoxSet]
      BY <2>5, <3>2 DEF H2cMain, MailType, BoxSet
    <3>4. fwSent' \in Seq(Cmd)
      BY <2>5, <3>2 DEF H2cMain, MailType
    <3>5. (h2cAt[t].box + 1) % 4 \in Boxes
      BY <3>2, Z3 DEF Boxes
    <3>6. fwHal' \in HalSet
      BY <2>5, <3>5 DEF H2cMain, RepType, HalSet
    <3> QED
      BY <2>5, <3>1, <3>3, <3>4, <3>6 DEF H2cMain, MailType, RepType
  <2>6. CASE H2cUnlock(t)
    BY <2>6, Literals DEF H2cUnlock, MailType, RepType
  <2> QED
    BY <1>11, <2>1, <2>2, <2>3, <2>4, <2>5, <2>6
<1>12. CASE UNCHANGED fwVars
  BY <1>12 DEF fwVars, MailType, RepType
<1> QED
  BY <1>1, <1>2, <1>3, <1>4, <1>5, <1>6, <1>7, <1>8, <1>9, <1>10, <1>11, <1>12, <1>13 DEF FwNext
-----------------------------------------------------------------------------
(***************************************************************************)
(* The report of a new link.                                               *)
(***************************************************************************)
\* Frames on their way to the pages are those of the latest report; in a report
\* the valid bit, and afterwards what the report saw of it, speaks of them.
RepInv ==
    /\ fwPages.air # {} => fwPages.air = fwJr.of
    /\ fwJr.at # "none" /\ fwPages.valid => fwPages.held = fwJr.of
    /\ fwJr.valid => fwPages.held = fwJr.of

\* A command about the reserved pages tells where the frames begin after a
\* beacon of l.pspoll pages, and there are as many pages.
Told(c, size, pages) ==
    c.id = "rsvdpage" =>
        /\ c.arg \in Locs /\ c.arg.pspoll > 0
        /\ c.arg.null = c.arg.pspoll + 1 /\ c.arg.qosnull = c.arg.pspoll + 2
        /\ c.arg.total = c.arg.pspoll + 3 /\ c.arg.total * size <= pages * size
ToldNow(c) == Told(c, PageSize, GetTxBufferRsvdPageNum8812)
ToldInv == /\ \A t \in H2cThreads : ToldNow(h2cAt[t].cmd)
           /\ \A b \in Boxes : ToldNow(fwBox[b].main)

\* A packet that is sent fits the reserved pages.
WaitFits ==
    fwJr.at = "wait" =>
        \A n \in fwJr.of : RsvdPageLoc(n).total * PageSize <= GetTxBufferRsvdPageNum8812 * PageSize

\* At the start there is no report and no command.
LEMMA RepInitInv == FwInit => RepInv /\ WaitFits /\ ToldInv
BY DEF FwInit, RepInv, WaitFits, ToldInv, ToldNow, Told, NoReport, NoPages, EmptyBox, OutOfH2c, NoCmd

\* Every step keeps what the valid bit says true.
LEMMA RepStep == FwType /\ RepInv /\ [FwNext]_fwVars => RepInv'
<1> SUFFICES ASSUME FwType, RepInv, [FwNext]_fwVars
             PROVE  RepInv'
  OBVIOUS
<1> USE DEF FwType, RepType, PagesSet, ReportSet
<1>1. CASE DownloadBegin \/ _PageWrite_8812 \/ _rtl8821au_fw_free_to_go \/ DownloadEnd \/ FirmwareTakes
  BY <1>1 DEF DownloadBegin, _PageWrite_8812, _rtl8821au_fw_free_to_go, DownloadEnd, FirmwareTakes, RepInv
<1>2. CASE PowerCycle
  BY <1>2 DEF PowerCycle, NoReport, NoPages, RepInv
<1>3. CASE ReportBegin
  <2>1. ~ fwPages'.valid /\ fwPages'.air = {} /\ ~ fwJr'.valid
    BY <1>3 DEF ReportBegin, BcnValidCleared
  <2> QED
    BY <2>1 DEF RepInv
<1>4. CASE SetFwRsvdPagePkt_8812
  <2>1. fwJr.at = "load" /\ fwJr'.of = fwJr.of /\ fwJr'.valid = fwJr.valid
    BY <1>4 DEF SetFwRsvdPagePkt_8812
  <2>2. /\ fwPages'.held = fwPages.held /\ fwPages'.valid = fwPages.valid
        /\ fwPages'.air = fwPages.air \/ fwPages'.air = fwJr.of
    BY <1>4 DEF SetFwRsvdPagePkt_8812
  <2> QED
    BY <2>1, <2>2 DEF RepInv
<1>5. CASE RsvdPagesArrive
  BY <1>5 DEF RsvdPagesArrive, RepInv
<1>6. CASE RsvdPagesTell
  <2>1. /\ fwJr.at = "wait" /\ fwJr'.of = fwJr.of /\ fwJr'.valid = fwJr.valid
        /\ UNCHANGED fwPages
    BY <1>6 DEF RsvdPagesTell
  <2> QED
    BY <2>1 DEF RepInv
<1>7. CASE ReportPoll
  <2>1. /\ fwJr.at = "poll" /\ fwJr'.of = fwJr.of /\ fwJr'.valid = fwPages.valid
        /\ UNCHANGED fwPages
    BY <1>7 DEF ReportPoll
  <2> QED
    BY <2>1 DEF RepInv
<1>8. CASE ReportEnd
  <2>1. /\ fwJr'.at = "none" /\ fwJr'.of = fwJr.of /\ fwJr'.valid = fwJr.valid
        /\ fwPages'.held = fwPages.held /\ fwPages'.air = fwPages.air
    BY <1>8 DEF ReportEnd, BcnValidCleared
  <2> QED
    BY <2>1 DEF RepInv
<1>9. ASSUME NEW t \in H2cThreads,
              \/ rtl8821au_fill_h2c_cmd(t) \/ H2cLock(t) \/ H2cPoll(t) \/ H2cExt(t)
              \/ H2cMain(t) \/ H2cUnlock(t)
       PROVE  RepInv'
  BY <1>9 DEF rtl8821au_fill_h2c_cmd, H2cLock, H2cPoll, H2cExt, H2cMain, H2cUnlock, RepInv
<1>10. CASE UNCHANGED fwVars
  BY <1>10 DEF fwVars, RepInv
<1> QED
  BY <1>1, <1>2, <1>3, <1>4, <1>5, <1>6, <1>7, <1>8, <1>9, <1>10 DEF FwNext

\* No step changes the chip.
LEMMA ChipStays == [FwNext]_fwVars => UNCHANGED fwChip
  BY DEF FwNext, DownloadBegin, _PageWrite_8812, _rtl8821au_fw_free_to_go, DownloadEnd, PowerCycle,
         FirmwareTakes, ReportBegin, SetFwRsvdPagePkt_8812, RsvdPagesArrive, RsvdPagesTell,
         ReportPoll, ReportEnd,
         rtl8821au_fill_h2c_cmd, H2cLock, H2cPoll, H2cExt, H2cMain, H2cUnlock, fwVars

\* A report waits only for a packet that was found to fit.
LEMMA FitsStep == FwType /\ WaitFits /\ [FwNext]_fwVars => WaitFits'
<1> SUFFICES ASSUME FwType, WaitFits, [FwNext]_fwVars, fwJr'.at = "wait"
             PROVE  WaitFits'
  BY DEF WaitFits
<1> DEFINE Fit(n) == RsvdPageLoc(n).total * PageSize <= GetTxBufferRsvdPageNum8812 * PageSize
<1>1. \A n \in fwJr'.of : Fit(n)
  <2>1. CASE SetFwRsvdPagePkt_8812
    BY <2>1 DEF SetFwRsvdPagePkt_8812, FwType, RepType, ReportSet
  <2>2. CASE UNCHANGED fwJr
    BY <2>2 DEF WaitFits
  <2>3. \/ SetFwRsvdPagePkt_8812 \/ UNCHANGED fwJr
        \/ PowerCycle \/ ReportBegin \/ RsvdPagesTell \/ ReportPoll \/ ReportEnd
    BY DEF FwNext, DownloadBegin, _PageWrite_8812, _rtl8821au_fw_free_to_go, DownloadEnd,
           FirmwareTakes, RsvdPagesArrive, rtl8821au_fill_h2c_cmd, H2cLock, H2cPoll, H2cExt, H2cMain,
           H2cUnlock, fwVars
  <2>4. ~ PowerCycle /\ ~ ReportBegin
    BY DEF PowerCycle, NoReport, ReportBegin
  <2>5. ~ RsvdPagesTell /\ ~ ReportPoll /\ ~ ReportEnd
    <3>1. fwJr \in ReportSet
      BY DEF FwType, RepType
    <3>2. RsvdPagesTell => fwJr'.at = "poll"
      BY <3>1 DEF RsvdPagesTell, ReportSet
    <3>3. ReportPoll => fwJr'.at \in {"load", "end"}
      BY <3>1 DEF ReportPoll, ReportSet
    <3>4. ReportEnd => fwJr'.at = "none"
      BY <3>1 DEF ReportEnd, ReportSet
    <3> QED
      BY <3>2, <3>3, <3>4
  <2> QED
    BY <2>1, <2>2, <2>3, <2>4, <2>5
<1>2. PageSize' = PageSize /\ GetTxBufferRsvdPageNum8812' = GetTxBufferRsvdPageNum8812
      /\ \A n : RsvdPageLoc(n)' = RsvdPageLoc(n)
  BY ChipStays DEF PageSize, GetTxBufferRsvdPageNum8812, RsvdPageLoc
<1> QED
  BY <1>1, <1>2 DEF WaitFits

\* Every step keeps the locations in commands right.
LEMMA ToldStep == FwType /\ WaitFits /\ ToldInv /\ [FwNext]_fwVars => ToldInv'
<1> SUFFICES ASSUME FwType, WaitFits, ToldInv, [FwNext]_fwVars
             PROVE  ToldInv'
  OBVIOUS
<1>1. UNCHANGED fwChip
  BY ChipStays
<1>2. PageSize' = PageSize /\ GetTxBufferRsvdPageNum8812' = GetTxBufferRsvdPageNum8812
  BY <1>1 DEF PageSize, GetTxBufferRsvdPageNum8812
<1>3. ToldNow(NoCmd)
  BY DEF ToldNow, Told, NoCmd
\* Where the commands come from: those in hand and in boxes are kept, moved
\* from a thread to a box, or cleared.
<1>4. ASSUME \A t \in H2cThreads : ToldNow(h2cAt'[t].cmd),
             \A b \in Boxes : \/ fwBox'[b].main = fwBox[b].main \/ fwBox'[b].main = NoCmd
                              \/ \E t \in H2cThreads : fwBox'[b].main = h2cAt[t].cmd
      PROVE  ToldInv'
  <2>1. \A b \in Boxes : ToldNow(fwBox'[b].main)
    BY <1>3, <1>4 DEF ToldInv
  <2> QED
    BY <1>2, <1>4, <2>1 DEF ToldInv, ToldNow
<1>5. UNCHANGED h2cAt => \A t \in H2cThreads : ToldNow(h2cAt'[t].cmd)
  BY DEF ToldInv
<1>6. ASSUME NEW t \in H2cThreads, NEW id \in Ids, NEW arg, NEW len, H2cCall(t, id, len, arg),
             ToldNow([id |-> id, len |-> len, arg |-> arg, no |-> fwOps + 1])
      PROVE  \A u \in H2cThreads : ToldNow(h2cAt'[u].cmd)
  <2> DEFINE c == [id |-> id, len |-> len, arg |-> arg, no |-> fwOps + 1]
  <2>1. ToldNow(c)
    BY <1>6
  <2>2. UNCHANGED h2cAt \/ h2cAt' = [h2cAt EXCEPT ![t] = [at |-> "lock", cmd |-> c, box |-> 0]]
    BY <1>6 DEF H2cCall
  <2> HIDE DEF c
  <2>3. ASSUME NEW u \in H2cThreads
        PROVE  h2cAt'[u].cmd = h2cAt[u].cmd \/ h2cAt'[u].cmd = c
    BY <2>2 DEF FwType, MailType
  <2>4. ASSUME NEW u \in H2cThreads
        PROVE  ToldNow(h2cAt'[u].cmd)
    BY <2>1, <2>3 DEF ToldInv
  <2> QED
    BY <2>4
<1>7. ASSUME NEW t \in H2cThreads, NEW p, H2cTo(t, p)
      PROVE  \A u \in H2cThreads : ToldNow(h2cAt'[u].cmd)
  <2>1. \A u \in H2cThreads : h2cAt'[u].cmd = h2cAt[u].cmd
    BY <1>7 DEF H2cTo, FwType, MailType, AtSet
  <2> QED
    BY <2>1 DEF ToldInv
<1>8. CASE DownloadBegin \/ _PageWrite_8812 \/ _rtl8821au_fw_free_to_go \/ ReportBegin
           \/ SetFwRsvdPagePkt_8812 \/ RsvdPagesArrive \/ ReportPoll \/ ReportEnd
  <2>1. UNCHANGED <<h2cAt, fwBox>>
    BY <1>8 DEF DownloadBegin, _PageWrite_8812, _rtl8821au_fw_free_to_go, ReportBegin,
                SetFwRsvdPagePkt_8812, RsvdPagesArrive, ReportPoll, ReportEnd, mailVars
  <2> QED
    BY <1>4, <1>5, <2>1
<1>9. CASE DownloadEnd \/ PowerCycle
  <2>1. UNCHANGED h2cAt /\ fwBox' = [b \in Boxes |-> EmptyBox]
    BY <1>9 DEF DownloadEnd, PowerCycle
  <2>2. \A b \in Boxes : fwBox'[b].main = NoCmd
    BY <2>1 DEF EmptyBox
  <2> QED
    BY <1>4, <1>5, <2>1, <2>2
<1>10. CASE FirmwareTakes
  <2>1. UNCHANGED h2cAt /\ fwBox' = [fwBox EXCEPT ![fwMcu] = EmptyBox]
    BY <1>10 DEF FirmwareTakes
  <2>2. \A b \in Boxes : fwBox'[b].main = fwBox[b].main \/ fwBox'[b].main = NoCmd
    BY <2>1 DEF EmptyBox, FwType, MailType
  <2> QED
    BY <1>4, <1>5, <2>1, <2>2
<1>11. CASE RsvdPagesTell
  <2>1. PICK ies \in fwJr.of : H2cCall("cmd", "rsvdpage", 5, RsvdPageLoc(ies))
    BY <1>11 DEF RsvdPagesTell
  <2>2. ies \in BcnNets
    BY DEF FwType, RepType, ReportSet
  <2>3. RsvdPageLoc(ies) \in Locs /\ RsvdPageLoc(ies).pspoll > 0
        /\ RsvdPageLoc(ies).null = RsvdPageLoc(ies).pspoll + 1
        /\ RsvdPageLoc(ies).qosnull = RsvdPageLoc(ies).pspoll + 2
        /\ RsvdPageLoc(ies).total = RsvdPageLoc(ies).pspoll + 3
    BY <2>2, Located DEF FwType
  <2>4. RsvdPageLoc(ies).total * PageSize <= GetTxBufferRsvdPageNum8812 * PageSize
    BY <1>11 DEF RsvdPagesTell, WaitFits
  <2>5. ToldNow([id |-> "rsvdpage", len |-> 5, arg |-> RsvdPageLoc(ies), no |-> fwOps + 1])
    BY <2>3, <2>4 DEF ToldNow, Told
  <2>6. \A u \in H2cThreads : ToldNow(h2cAt'[u].cmd)
    BY <1>6, <2>1, <2>5, FwAssumption DEF Ids
  <2> QED
    BY <1>4, <1>11, <2>6 DEF RsvdPagesTell
<1>12. ASSUME NEW t \in H2cThreads, rtl8821au_fill_h2c_cmd(t)
       PROVE  ToldInv'
  <2>1. ASSUME NEW id \in Ids \ {"rsvdpage"}, NEW len, NEW arg, H2cCall(t, id, len, arg)
        PROVE  ToldInv'
    <3>1. ToldNow([id |-> id, len |-> len, arg |-> arg, no |-> fwOps + 1])
      BY DEF ToldNow, Told
    <3>2. \A u \in H2cThreads : ToldNow(h2cAt'[u].cmd)
      BY <1>6, <2>1, <3>1
    <3> QED
      BY <1>4, <1>12, <3>2 DEF rtl8821au_fill_h2c_cmd
  <2> QED
    BY <1>12, <2>1
    DEF rtl8821au_fill_h2c_cmd, rtl8812_set_raid_cmd, rtl8812_set_FwMediaStatus_cmd, Ids
<1>13. ASSUME NEW t \in H2cThreads, H2cLock(t)
       PROVE  ToldInv'
  BY <1>4, <1>7, <1>13 DEF H2cLock
<1>14. ASSUME NEW t \in H2cThreads, H2cPoll(t)
       PROVE  ToldInv'
  <2>1. CASE H2cTo(t, "unlock")
    BY <1>4, <1>7, <1>14, <2>1 DEF H2cPoll
  <2>2. CASE h2cAt' = [h2cAt EXCEPT ![t].at = "ext", ![t].box = fwHal.last]
    <3>1. \A u \in H2cThreads : h2cAt'[u].cmd = h2cAt[u].cmd
      BY <2>2 DEF FwType, MailType, AtSet
    <3>2. \A u \in H2cThreads : ToldNow(h2cAt'[u].cmd)
      BY <3>1 DEF ToldInv
    <3> QED
      BY <1>4, <1>14, <3>2 DEF H2cPoll
  <2> QED
    BY <1>14, <2>1, <2>2 DEF H2cPoll
<1>15. ASSUME NEW t \in H2cThreads, H2cExt(t)
       PROVE  ToldInv'
  <2>1. \A b \in Boxes : fwBox'[b].main = fwBox[b].main
    BY <1>15 DEF H2cExt, FwType, MailType, BoxSet, AtSet
  <2> QED
    BY <1>4, <1>7, <1>15, <2>1 DEF H2cExt
<1>16. ASSUME NEW t \in H2cThreads, H2cMain(t)
       PROVE  ToldInv'
  <2>1. \A b \in Boxes : fwBox'[b].main = fwBox[b].main \/ fwBox'[b].main = h2cAt[t].cmd
    BY <1>16 DEF H2cMain, FwType, MailType, BoxSet, AtSet
  <2> QED
    BY <1>4, <1>7, <1>16, <2>1 DEF H2cMain
<1>17. ASSUME NEW t \in H2cThreads, H2cUnlock(t)
       PROVE  ToldInv'
  <2>1. \A u \in H2cThreads : h2cAt'[u].cmd = h2cAt[u].cmd \/ h2cAt'[u].cmd = NoCmd
    BY <1>17 DEF H2cUnlock, OutOfH2c, FwType, MailType
  <2>2. \A u \in H2cThreads : ToldNow(h2cAt'[u].cmd)
    BY <1>3, <2>1 DEF ToldInv
  <2> QED
    BY <1>4, <1>17, <2>2 DEF H2cUnlock
<1>18. CASE UNCHANGED fwVars
  BY <1>4, <1>5, <1>18 DEF fwVars
<1> QED
  BY <1>8, <1>9, <1>10, <1>11, <1>12, <1>13, <1>14, <1>15, <1>16, <1>17, <1>18 DEF FwNext

\* A report of a new link that sees the valid bit has loaded the frames of that
\* link, and the locations told the firmware are those of whole frames inside
\* the reserved pages, whatever the elements of the networks, the number of
\* threads and of retries, and however late the frames arrive
\* (rtl8821au_set_fw_joinbss_report_cmd, SetFwRsvdPagePkt_8812).
THEOREM ReportsRight == FwSpec => []ReportRight
<1>1. ASSUME FwType, RepInv, ToldInv
      PROVE  ReportRight
  <2>1. PagesOfLink
    BY <1>1 DEF RepInv, PagesOfLink
  <2>2. ASSUME NEW b \in Boxes, fwBox[b].main.id = "rsvdpage"
        PROVE  LET l == fwBox[b].main.arg
               IN  /\ 0 < l.pspoll
                   /\ l.pspoll * PageSize + PSPollLength + TXDESC_SIZE <= l.null * PageSize
                   /\ l.null * PageSize + NullFunctionDataLength + TXDESC_SIZE <= l.qosnull * PageSize
                   /\ l.qosnull * PageSize + QosNullLength + TXDESC_SIZE
                        <= GetTxBufferRsvdPageNum8812 * PageSize
    <3> DEFINE l == fwBox[b].main.arg
    <3>1. ToldNow(fwBox[b].main)
      BY <1>1 DEF ToldInv
    <3>2. /\ l.pspoll \in Nat /\ l.pspoll > 0
          /\ l.null = l.pspoll + 1 /\ l.qosnull = l.pspoll + 2 /\ l.total = l.pspoll + 3
          /\ l.total * PageSize <= GetTxBufferRsvdPageNum8812 * PageSize
      BY <2>2, <3>1 DEF ToldNow, Told, Locs
    <3> HIDE DEF l
    <3>3. GetTxBufferRsvdPageNum8812 \in Nat
      BY DEF GetTxBufferRsvdPageNum8812
    <3>4. /\ 0 < l.pspoll
          /\ l.pspoll * PageSize + PSPollLength + TXDESC_SIZE <= l.null * PageSize
          /\ l.null * PageSize + NullFunctionDataLength + TXDESC_SIZE <= l.qosnull * PageSize
          /\ l.qosnull * PageSize + QosNullLength + TXDESC_SIZE
               <= GetTxBufferRsvdPageNum8812 * PageSize
      <4>1. CASE PageSize = 256
        BY <3>2, <3>3, <4>1 DEF PSPollLength, NullFunctionDataLength, QosNullLength, TXDESC_SIZE
      <4>2. CASE PageSize = 512
        BY <3>2, <3>3, <4>2 DEF PSPollLength, NullFunctionDataLength, QosNullLength, TXDESC_SIZE
      <4> QED
        BY <4>1, <4>2 DEF PageSize
    <3> QED
      BY <3>4 DEF l
  <2>3. PagesTold
    BY <2>2 DEF PagesTold
  <2> QED
    BY <2>1, <2>3 DEF ReportRight
<1> QED
  BY FwInitType, FwTypeStep, RepInitInv, RepStep, FitsStep, ToldStep, <1>1, PTL DEF FwSpec
-----------------------------------------------------------------------------
(***************************************************************************)
(* The mailboxes.                                                          *)
(***************************************************************************)
\* The box k places after box m, and the place of box b counted from box m.
Nth(m, k) == (m + k) % 4
Place(b, m) == (b + 4 - m) % 4

\* Counting round the four boxes.
LEMMA Ring ==
    ASSUME NEW m \in Boxes
    PROVE  /\ \A k \in 0..4 : Nth(m, k) \in Boxes
           /\ \A k \in 0..3 : Place(Nth(m, k), m) = k
           /\ \A b \in Boxes : Place(b, m) \in 0..3 /\ Nth(m, Place(b, m)) = b
           /\ Nth(m, 4) = m /\ Nth(m, 0) = m
           /\ \A k \in 0..3 : Nth(Nth(m, k), 1) = Nth(m, k + 1) /\ Nth(Nth(m, 1), k) = Nth(m, k + 1)
           /\ \A b \in Boxes : b # m => Place(b, Nth(m, 1)) = Place(b, m) - 1
           /\ Place(m, Nth(m, 1)) = 3
<1>1. CASE m = 0
  BY <1>1, Z3 DEF Boxes, Nth, Place
<1>2. CASE m = 1
  BY <1>2, Z3 DEF Boxes, Nth, Place
<1>3. CASE m = 2
  BY <1>3, Z3 DEF Boxes, Nth, Place
<1>4. CASE m = 3
  BY <1>4, Z3 DEF Boxes, Nth, Place
<1> QED
  BY <1>1, <1>2, <1>3, <1>4 DEF Boxes
\* The mutex is held by the thread past its lock and before its unlock.
Owned == \A t \in H2cThreads : h2cOwner = t <=> h2cAt[t].at \in {"poll", "ext", "main", "unlock"}
\* While the chip is off or loads its firmware nobody writes a command.
Quiet == fwDl.at # "done" => /\ fwSent = <<>> /\ fwMcu = 0
                             /\ \A t \in H2cThreads : h2cAt[t].at = "out"
\* last_hmeboxnum is the box after the commands not taken.
Pointer == fwDl.at # "off" => fwHal.last = Nth(fwMcu, Len(fwSent))
\* The full boxes are those of the commands not taken.
FullBoxes == {b \in Boxes : fwBox[b].full}
Filled == /\ Len(fwSent) <= 4 /\ Len(fwSent) = Cardinality(FullBoxes)
          /\ \A b \in Boxes : fwBox[b].full <=> Place(b, fwMcu) < Len(fwSent)
Holds(b, c) == b.main = c /\ (c.len > 3 => b.ext = c)
InBoxes == \A k \in 0..3 : k < Len(fwSent) => Holds(fwBox[Nth(fwMcu, k)], fwSent[k + 1])
\* A writer is at the next box, which is empty but for the extension word.
Writing ==
    \A t \in H2cThreads :
        h2cAt[t].at \in {"ext", "main"} =>
            /\ h2cAt[t].box = fwHal.last /\ ~ fwBox[fwHal.last].full
            /\ h2cAt[t].at = "main" /\ h2cAt[t].cmd.len > 3 => fwBox[fwHal.last].ext = h2cAt[t].cmd
\* A report runs on a chip that is up, and its thread sends one command at a
\* time.
Reporting == /\ fwJr.at # "none" => fwDl.at = "done"
             /\ fwJr.at \in {"load", "wait"} => h2cAt["cmd"].at = "out"

MailOK == Owned /\ Quiet /\ Pointer /\ Filled /\ InBoxes /\ Writing
MailInv == FwType /\ DlInv /\ Reporting /\ (fwTorn \/ MailOK)

Emptied == fwBox = [b \in Boxes |-> EmptyBox] /\ fwMcu = 0 /\ fwSent = <<>>

\* Empty boxes.
LEMMA EmptyMail == Emptied => Filled /\ InBoxes
<1> SUFFICES ASSUME Emptied
             PROVE  Filled /\ InBoxes
  OBVIOUS
<1> USE DEF Emptied
<1>1. FullBoxes = {}
  BY DEF FullBoxes, EmptyBox
<1>2. Cardinality(FullBoxes) = 0
  BY <1>1, FS_EmptySet
<1>3. \A b \in Boxes : Place(b, fwMcu) \in 0..3
  BY Ring DEF Boxes
<1>4. Len(fwSent) = 0
  OBVIOUS
<1>5. \A b \in Boxes : ~ fwBox[b].full
  BY DEF EmptyBox
<1> QED
  BY <1>2, <1>3, <1>4, <1>5 DEF Filled, InBoxes

\* Mailboxes and mutex of a driver just loaded.
LEMMA MailInitInv == FwInit => MailInv
<1> SUFFICES ASSUME FwInit
             PROVE  MailInv
  OBVIOUS
<1>1. FwType /\ DlInv
  BY FwInitType, DlInitInv
<1>2. Filled /\ InBoxes
  BY EmptyMail DEF FwInit, Emptied
<1>3. \A t \in H2cThreads : h2cAt[t].at = "out"
  BY DEF FwInit, OutOfH2c
<1>4. Owned
  BY <1>3, FwAssumption DEF FwInit, Owned
<1>5. Quiet /\ Pointer /\ Writing /\ Reporting
  BY <1>3 DEF FwInit, Quiet, Pointer, Writing, Reporting, NoReport
<1> QED
  BY <1>1, <1>2, <1>4, <1>5 DEF MailInv, MailOK

\* Every step keeps reports to a chip that is up, and their thread to one
\* command at a time.
LEMMA ReportingStep == FwType /\ DlType /\ Reporting /\ [FwNext]_fwVars => Reporting'
<1> SUFFICES ASSUME FwType, DlType, Reporting, [FwNext]_fwVars
             PROVE  Reporting'
  OBVIOUS
<1> USE DEF FwType, RepType, MailType, ReportSet, DlType
<1>1. CASE DownloadBegin \/ _PageWrite_8812 \/ _rtl8821au_fw_free_to_go
  <2>1. fwDl.at # "done" /\ UNCHANGED fwJr
    BY <1>1 DEF DownloadBegin, _PageWrite_8812, _rtl8821au_fw_free_to_go
  <2> QED
    BY <2>1 DEF Reporting
<1>2. CASE DownloadEnd \/ PowerCycle
  <2>1. fwJr'.at = "none"
    BY <1>2 DEF DownloadEnd, PowerCycle, Reporting, NoReport
  <2> QED
    BY <2>1 DEF Reporting
<1>3. CASE FirmwareTakes \/ RsvdPagesArrive
  BY <1>3 DEF FirmwareTakes, RsvdPagesArrive, mailVars, Reporting
<1>4. CASE ReportBegin
  BY <1>4 DEF ReportBegin, Reporting
<1>5. CASE SetFwRsvdPagePkt_8812
  <2>1. fwJr.at = "load" /\ fwJr'.at # "none" /\ UNCHANGED <<fwDl, h2cAt>>
    BY <1>5 DEF SetFwRsvdPagePkt_8812
  <2> QED
    BY <2>1 DEF Reporting
<1>6. CASE ReportPoll
  <2>1. fwJr.at = "poll" /\ h2cAt["cmd"].at = "out" /\ UNCHANGED <<fwDl, h2cAt>>
    BY <1>6 DEF ReportPoll
  <2> QED
    BY <2>1 DEF Reporting
<1>7. CASE ReportEnd
  BY <1>7 DEF ReportEnd, Reporting
<1>10. CASE RsvdPagesTell
  <2>1. fwJr.at = "wait" /\ fwJr'.at = "poll" /\ UNCHANGED fwDl
    BY <1>10 DEF RsvdPagesTell
  <2> QED
    BY <2>1 DEF Reporting
<1>8. ASSUME NEW t \in H2cThreads,
             \/ rtl8821au_fill_h2c_cmd(t) \/ H2cLock(t) \/ H2cPoll(t)
             \/ H2cExt(t) \/ H2cMain(t) \/ H2cUnlock(t)
      PROVE  Reporting'
  <2>1. UNCHANGED <<fwJr, fwDl>>
    BY <1>8 DEF rtl8821au_fill_h2c_cmd, H2cLock, H2cPoll, H2cExt, H2cMain, H2cUnlock
  <2>2. fwJr.at \in {"load", "wait"} => t # "cmd"
    BY <1>8 DEF rtl8821au_fill_h2c_cmd, H2cLock, H2cPoll, H2cExt, H2cMain, H2cUnlock, Reporting
  <2>3. t # "cmd" => h2cAt'["cmd"] = h2cAt["cmd"]
    BY <1>8, FwAssumption
    DEF rtl8821au_fill_h2c_cmd, rtl8812_set_raid_cmd, rtl8812_set_FwMediaStatus_cmd, H2cCall,
        H2cLock, H2cPoll, H2cExt, H2cMain, H2cUnlock, H2cTo
  <2> QED
    BY <2>1, <2>2, <2>3 DEF Reporting
<1>9. CASE UNCHANGED fwVars
  BY <1>9 DEF fwVars, Reporting
<1> QED
  BY <1>1, <1>2, <1>3, <1>4, <1>5, <1>6, <1>7, <1>8, <1>9, <1>10 DEF FwNext
\* Once torn, always torn.
LEMMA TornStays == FwType /\ [FwNext]_fwVars /\ fwTorn => fwTorn'
<1> SUFFICES ASSUME FwType, fwTorn, [FwNext]_fwVars
             PROVE  fwTorn'
  OBVIOUS
<1> USE DEF FwType, MailType
<1>1. CASE DownloadBegin \/ _PageWrite_8812 \/ _rtl8821au_fw_free_to_go \/ DownloadEnd \/ PowerCycle
  BY <1>1 DEF DownloadBegin, _PageWrite_8812, _rtl8821au_fw_free_to_go, DownloadEnd, PowerCycle
<1>2. CASE FirmwareTakes \/ ReportBegin \/ SetFwRsvdPagePkt_8812 \/ RsvdPagesArrive \/ RsvdPagesTell
           \/ ReportPoll \/ ReportEnd
  BY <1>2 DEF FirmwareTakes, ReportBegin, SetFwRsvdPagePkt_8812, RsvdPagesArrive, RsvdPagesTell,
              ReportPoll, ReportEnd
<1>3. ASSUME NEW t \in H2cThreads,
             \/ rtl8821au_fill_h2c_cmd(t) \/ H2cLock(t) \/ H2cPoll(t)
             \/ H2cExt(t) \/ H2cMain(t) \/ H2cUnlock(t)
      PROVE  fwTorn'
  BY <1>3 DEF rtl8821au_fill_h2c_cmd, H2cLock, H2cPoll, H2cExt, H2cMain, H2cUnlock
<1>4. CASE UNCHANGED fwVars
  BY <1>4 DEF fwVars
<1> QED
  BY <1>1, <1>2, <1>3, <1>4 DEF FwNext

\* The parts of MailOK about the boxes, when these and the pointer stay.
LEMMA BoxesStay ==
    ASSUME MailOK, UNCHANGED <<fwBox, fwMcu, fwSent>>
    PROVE  Filled' /\ InBoxes'
BY DEF MailOK, Filled, FullBoxes, InBoxes

\* A call: a thread outside goes to wait for the mutex.
LEMMA CallKeeps ==
    ASSUME MailInv, MailOK, NEW t \in H2cThreads, h2cAt[t].at = "out", fwDl.at = "done",
           NEW id, NEW len, NEW arg, H2cCall(t, id, len, arg),
           UNCHANGED <<fwHal, fwDl, fwBox, fwMcu, fwSent, h2cOwner>>
    PROVE  MailOK'
<1> DEFINE n == [at |-> "lock", cmd |-> [id |-> id, len |-> len, arg |-> arg, no |-> fwOps + 1], box |-> 0]
<1>1. UNCHANGED h2cAt \/ h2cAt' = [h2cAt EXCEPT ![t] = n]
  BY DEF H2cCall
<1>2. n.at = "lock"
  OBVIOUS
<1> HIDE DEF n
<1>3. \A u \in H2cThreads : u # t => h2cAt'[u] = h2cAt[u]
  BY <1>1 DEF MailInv, FwType, MailType
<1>4. h2cAt'[t].at \in {"out", "lock"}
  BY <1>1, <1>2 DEF MailInv, FwType, MailType
<1>5. Owned' /\ Writing'
  BY <1>3, <1>4 DEF MailOK, Owned, Writing
<1> QED
  BY <1>5, BoxesStay DEF MailOK, Quiet, Pointer

\* A step of the thread that holds the mutex: no other is past its lock.
LEMMA Alone ==
    ASSUME MailInv, MailOK, NEW t \in H2cThreads, h2cOwner = t
    PROVE  /\ \A u \in H2cThreads : u # t => h2cAt[u].at \in {"out", "lock"}
           /\ fwDl.at = "done"
BY DEF MailInv, FwType, MailType, AtSet, H2cPlaces, MailOK, Owned, Quiet
\* The mutex is taken when it is free; a wait ended by a signal tears.
LEMMA LockKeeps ==
    ASSUME MailInv, MailOK, NEW t \in H2cThreads, H2cLock(t), ~ fwTorn'
    PROVE  MailOK'
<1>1. h2cOwner = "free" /\ h2cOwner' = t
  BY DEF H2cLock
<1>2. h2cAt[t].at = "lock" /\ UNCHANGED <<fwHal, fwDl, fwBox, fwMcu, fwSent>>
  BY DEF H2cLock
<1>3. h2cAt'[t].at = "poll" /\ \A u \in H2cThreads : u # t => h2cAt'[u] = h2cAt[u]
  BY DEF H2cLock, H2cTo, MailInv, FwType, MailType, AtSet
<1>4. Owned'
  BY <1>1, <1>3, FwAssumption DEF MailOK, Owned
<1>5. fwDl.at = "done"
  BY <1>2 DEF MailOK, Quiet
<1>6. Writing'
  BY <1>2, <1>3 DEF MailOK, Writing
<1> QED
  BY <1>2, <1>4, <1>5, <1>6, BoxesStay DEF MailOK, Quiet, Pointer

\* The thread goes on to the next box when that is empty.
LEMMA PollKeeps ==
    ASSUME MailInv, MailOK, NEW t \in H2cThreads, H2cPoll(t)
    PROVE  MailOK'
<1>1. h2cAt[t].at = "poll" /\ UNCHANGED <<fwHal, fwDl, fwBox, fwMcu, fwSent, h2cOwner>>
  BY DEF H2cPoll
<1>2. h2cOwner = t
  BY <1>1 DEF MailOK, Owned
<1>3. \A u \in H2cThreads : u # t => h2cAt'[u] = h2cAt[u]
  BY DEF H2cPoll, H2cTo, MailInv, FwType, MailType
<1>4. \/ h2cAt'[t].at = "unlock"
      \/ h2cAt'[t].at = "ext" /\ h2cAt'[t].box = fwHal.last /\ ~ fwBox[fwHal.last].full
  <2>1. CASE _is_fw_read_cmd_down(fwHal.last)
    <3>1. h2cAt' = [h2cAt EXCEPT ![t].at = "ext", ![t].box = fwHal.last] /\ ~ fwBox[fwHal.last].full
      BY <2>1 DEF H2cPoll, _is_fw_read_cmd_down
    <3> QED
      BY <3>1 DEF MailInv, FwType, MailType, AtSet
  <2>2. CASE ~ _is_fw_read_cmd_down(fwHal.last)
    BY <2>2 DEF H2cPoll, H2cTo, MailInv, FwType, MailType, AtSet
  <2> QED
    BY <2>1, <2>2
<1>5. Owned'
  BY <1>1, <1>2, <1>3, <1>4 DEF MailOK, Owned
<1>6. Writing'
  BY <1>1, <1>2, <1>3, <1>4, Alone DEF Writing
<1> QED
  BY <1>1, <1>2, <1>5, <1>6, BoxesStay, Alone DEF MailOK, Quiet, Pointer

\* The extension word goes to a box that holds no command.
LEMMA ExtKeeps ==
    ASSUME MailInv, MailOK, NEW t \in H2cThreads, H2cExt(t)
    PROVE  MailOK'
<1> DEFINE B == fwHal.last
           c == h2cAt[t].cmd
<1>1. h2cAt[t].at = "ext" /\ UNCHANGED <<fwHal, fwDl, fwMcu, fwSent, h2cOwner>>
  BY DEF H2cExt
<1>2. h2cOwner = t
  BY <1>1 DEF MailOK, Owned
<1>3. h2cAt'[t].at = "main" /\ h2cAt'[t].box = h2cAt[t].box /\ h2cAt'[t].cmd = c
      /\ \A u \in H2cThreads : u # t => h2cAt'[u] = h2cAt[u]
  BY DEF H2cExt, H2cTo, MailInv, FwType, MailType, AtSet
<1>4. h2cAt[t].box = B /\ ~ fwBox[B].full /\ B \in Boxes
  BY <1>1 DEF MailOK, Writing, MailInv, FwType, RepType, HalSet
<1>5. fwBox' = [fwBox EXCEPT ![B].ext = IF c.len > 3 THEN c ELSE @]
  BY <1>4 DEF H2cExt
<1>6. /\ \A b \in Boxes : b # B => fwBox'[b] = fwBox[b]
      /\ fwBox'[B].full = fwBox[B].full
      /\ c.len > 3 => fwBox'[B].ext = c
  BY <1>4, <1>5 DEF MailInv, FwType, MailType, BoxSet
<1> HIDE DEF B, c
<1>7. FullBoxes' = FullBoxes
  BY <1>4, <1>6 DEF FullBoxes
<1>8. Filled'
  BY <1>1, <1>4, <1>6, <1>7 DEF MailOK, Filled
<1>9. InBoxes'
  <2>1. ASSUME NEW k \in 0..3, k < Len(fwSent)
        PROVE  Nth(fwMcu, k) \in Boxes /\ Nth(fwMcu, k) # B
    <3>1. Nth(fwMcu, k) \in Boxes /\ Place(Nth(fwMcu, k), fwMcu) = k
      BY Ring DEF MailInv, FwType, MailType
    <3>2. fwBox[Nth(fwMcu, k)].full
      BY <2>1, <3>1 DEF MailOK, Filled
    <3> QED
      BY <1>4, <3>1, <3>2
  <2> QED
    BY <1>1, <1>6, <2>1 DEF MailOK, InBoxes
<1>10. Owned'
  BY <1>1, <1>2, <1>3 DEF MailOK, Owned
<1>11. Writing'
  BY <1>1, <1>2, <1>3, <1>4, <1>6, Alone DEF Writing, B, c
<1> QED
  BY <1>1, <1>2, <1>8, <1>9, <1>10, <1>11, Alone DEF MailOK, Quiet, Pointer

\* The main word fills the box after the last command.
LEMMA MainKeeps ==
    ASSUME MailInv, MailOK, NEW t \in H2cThreads, H2cMain(t)
    PROVE  MailOK'
<1> DEFINE B == fwHal.last
           c == h2cAt[t].cmd
           N == Len(fwSent)
<1>1. h2cAt[t].at = "main" /\ UNCHANGED <<fwDl, fwMcu, h2cOwner>>
  BY DEF H2cMain
<1>2. h2cOwner = t
  BY <1>1 DEF MailOK, Owned
<1>3. h2cAt'[t].at = "unlock" /\ \A u \in H2cThreads : u # t => h2cAt'[u] = h2cAt[u]
  BY DEF H2cMain, H2cTo, MailInv, FwType, MailType, AtSet
<1>4. h2cAt[t].box = B /\ ~ fwBox[B].full /\ B \in Boxes /\ c \in Cmd
      /\ (c.len > 3 => fwBox[B].ext = c)
  BY <1>1 DEF MailOK, Writing, MailInv, FwType, RepType, HalSet, MailType, AtSet
<1>5. fwBox' = [fwBox EXCEPT ![B].full = TRUE, ![B].main = c]
  BY <1>4 DEF H2cMain
<1>6. /\ \A b \in Boxes : b # B => fwBox'[b] = fwBox[b]
      /\ fwBox'[B].full /\ fwBox'[B].main = c /\ fwBox'[B].ext = fwBox[B].ext
  BY <1>4, <1>5 DEF MailInv, FwType, MailType, BoxSet
<1>7. fwSent \in Seq(Cmd) /\ N \in Nat /\ N <= 4 /\ fwMcu \in Boxes
  BY DEF MailInv, FwType, MailType, MailOK, Filled
<1>8. B = Nth(fwMcu, N)
  BY <1>2, Alone DEF MailOK, Pointer
<1>9. N \in 0..3 /\ Place(B, fwMcu) = N
  <2>1. N # 4
    <3>1. ASSUME N = 4
          PROVE  B = fwMcu
      BY <1>7, <1>8, <3>1, Ring
    <3>2. Place(fwMcu, fwMcu) = 0
      <4>1. Nth(fwMcu, 0) = fwMcu /\ \A k \in 0..3 : Place(Nth(fwMcu, k), fwMcu) = k
        BY <1>7, Ring
      <4>2. 0 \in 0..3
        OBVIOUS
      <4> QED
        BY <4>1, <4>2
    <3> QED
      BY <1>4, <1>7, <3>1, <3>2 DEF MailOK, Filled
  <2> HIDE DEF N, B
  <2>2. N \in 0..3
    BY <1>7, <2>1
  <2>3. \A k \in 0..3 : Place(Nth(fwMcu, k), fwMcu) = k
    BY <1>7, Ring
  <2> QED
    BY <1>8, <2>2, <2>3
<1>10. fwSent' = Append(fwSent, c) /\ fwHal' = [fwHal EXCEPT !.last = (B + 1) % 4]
  BY <1>4 DEF H2cMain
<1> HIDE DEF B, c, N
<1>11. Len(fwSent') = N + 1 /\ fwSent'[N + 1] = c /\ \A k \in 0..3 : k < N => fwSent'[k + 1] = fwSent[k + 1]
  BY <1>4, <1>7, <1>10 DEF N
<1>12. fwHal'.last = Nth(fwMcu, N + 1)
  <2>1. fwHal'.last = (B + 1) % 4
    BY <1>10 DEF MailInv, FwType, RepType, HalSet
  <2> QED
    BY <1>7, <1>8, <1>9, <2>1, Ring DEF Nth
<1>13. Filled'
  <2>1. FullBoxes' = FullBoxes \cup {B} /\ B \notin FullBoxes
    BY <1>4, <1>6 DEF FullBoxes
  <2>2. IsFiniteSet(FullBoxes)
    <3>1. 0 \in Int /\ 3 \in Int
      OBVIOUS
    <3>2. IsFiniteSet(0..3)
      BY <3>1, FS_Interval
    <3>3. IsFiniteSet(Boxes)
      BY <3>2 DEF Boxes
    <3> QED
      BY <3>3, FS_Subset DEF FullBoxes
  <2>3. Cardinality(FullBoxes') = Cardinality(FullBoxes) + 1
    BY <2>1, <2>2, FS_AddElement
  <2>4. ASSUME NEW b \in Boxes
        PROVE  fwBox'[b].full <=> Place(b, fwMcu) < N + 1
    <3>1. CASE b = B
      BY <1>6, <1>9, <3>1
    <3>2. CASE b # B
      <4>1. Place(b, fwMcu) \in 0..3 /\ Nth(fwMcu, Place(b, fwMcu)) = b
        BY <1>7, Ring
      <4>2. Place(b, fwMcu) # N
        BY <1>8, <3>2, <4>1
      <4>3. fwBox[b].full <=> Place(b, fwMcu) < N
        BY DEF MailOK, Filled, N
      <4> QED
        BY <1>6, <1>9, <3>2, <4>1, <4>2, <4>3
    <3> QED
      BY <3>1, <3>2
  <2>5. N = Cardinality(FullBoxes)
    BY DEF MailOK, Filled, N
  <2> QED
    BY <1>1, <1>9, <1>11, <2>3, <2>4, <2>5 DEF Filled
<1>14. InBoxes'
  <2>1. ASSUME NEW k \in 0..3, k < N + 1
        PROVE  Holds(fwBox'[Nth(fwMcu, k)], fwSent'[k + 1])
    <3>1. CASE k = N
      BY <1>4, <1>6, <1>8, <1>11, <3>1 DEF Holds
    <3>2. CASE k < N
      <4>1. Nth(fwMcu, k) \in Boxes /\ Place(Nth(fwMcu, k), fwMcu) = k
        BY <1>7, Ring
      <4>2. Nth(fwMcu, k) # B
        BY <1>9, <3>2, <4>1
      <4>3. Holds(fwBox[Nth(fwMcu, k)], fwSent[k + 1])
        BY <3>2 DEF MailOK, InBoxes, N
      <4> QED
        BY <1>6, <1>11, <3>2, <4>1, <4>2, <4>3
    <3> QED
      BY <1>9, <2>1, <3>1, <3>2
  <2> QED
    BY <1>1, <1>11, <2>1 DEF InBoxes, Holds
<1>15. Owned'
  BY <1>1, <1>2, <1>3 DEF MailOK, Owned
<1>16. Writing'
  BY <1>2, <1>3, Alone DEF Writing
<1>17. Pointer'
  BY <1>1, <1>11, <1>12 DEF Pointer
<1> QED
  BY <1>1, <1>2, <1>13, <1>14, <1>15, <1>16, <1>17, Alone DEF MailOK, Quiet

\* The mutex is given back.
LEMMA UnlockKeeps ==
    ASSUME MailInv, MailOK, NEW t \in H2cThreads, H2cUnlock(t)
    PROVE  MailOK'
<1>1. h2cAt[t].at = "unlock" /\ UNCHANGED <<fwHal, fwDl, fwBox, fwMcu, fwSent>> /\ h2cOwner' = "free"
  BY DEF H2cUnlock
<1>2. h2cOwner = t
  BY <1>1 DEF MailOK, Owned
<1>3. h2cAt'[t].at = "out" /\ \A u \in H2cThreads : u # t => h2cAt'[u] = h2cAt[u]
  BY DEF H2cUnlock, OutOfH2c, MailInv, FwType, MailType
<1>4. \A u \in H2cThreads : h2cAt'[u].at \in {"out", "lock"}
  BY <1>2, <1>3, Alone
<1>5. Owned' /\ Writing'
  BY <1>1, <1>4, FwAssumption DEF Owned, Writing
<1> QED
  BY <1>1, <1>2, <1>5, BoxesStay, Alone DEF MailOK, Quiet, Pointer
\* The firmware takes the oldest command.
LEMMA TakeKeeps ==
    ASSUME MailInv, MailOK, FirmwareTakes
    PROVE  MailOK'
<1> DEFINE N == Len(fwSent)
           M == Nth(fwMcu, 1)
<1>1. /\ fwDl.at = "done" /\ fwBox[fwMcu].full /\ UNCHANGED <<fwHal, fwDl, h2cOwner, h2cAt>>
      /\ fwMcu' = M /\ fwBox' = [fwBox EXCEPT ![fwMcu] = EmptyBox]
      /\ fwSent' = IF fwSent = <<>> THEN <<>> ELSE Tail(fwSent)
  BY DEF FirmwareTakes, Nth
<1>2. fwMcu \in Boxes /\ fwSent \in Seq(Cmd) /\ N \in Nat /\ N <= 4 /\ fwHal.last \in Boxes
      /\ fwBox \in [Boxes -> BoxSet]
  BY DEF MailInv, FwType, MailType, MailOK, Filled, RepType, HalSet
<1>3. Place(fwMcu, fwMcu) = 0
  <2>1. Nth(fwMcu, 0) = fwMcu /\ \A k \in 0..3 : Place(Nth(fwMcu, k), fwMcu) = k
    BY <1>2, Ring
  <2>2. 0 \in 0..3
    OBVIOUS
  <2> QED
    BY <2>1, <2>2
<1>4. N >= 1
  BY <1>1, <1>2, <1>3 DEF MailOK, Filled
<1>5. Len(fwSent') = N - 1 /\ \A k \in 0..3 : k < N - 1 => fwSent'[k + 1] = fwSent[k + 2]
  BY <1>1, <1>2, <1>4
<1>6. /\ \A b \in Boxes : b # fwMcu => fwBox'[b] = fwBox[b]
      /\ ~ fwBox'[fwMcu].full
  BY <1>1, <1>2 DEF EmptyBox
<1> HIDE DEF N, M
<1>7. fwHal.last # fwMcu \/ ~ \E t \in H2cThreads : h2cAt[t].at \in {"ext", "main"}
  BY <1>1 DEF MailOK, Writing
<1>8. Filled'
  <2>1. FullBoxes' = FullBoxes \ {fwMcu} /\ fwMcu \in FullBoxes
    BY <1>1, <1>2, <1>6 DEF FullBoxes
  <2>2. IsFiniteSet(FullBoxes)
    <3>1. 0 \in Int /\ 3 \in Int
      OBVIOUS
    <3>2. IsFiniteSet(0..3)
      BY <3>1, FS_Interval
    <3>3. IsFiniteSet(Boxes)
      BY <3>2 DEF Boxes
    <3> QED
      BY <3>3, FS_Subset DEF FullBoxes
  <2>3. Cardinality(FullBoxes') = Cardinality(FullBoxes) - 1
    BY <2>1, <2>2, FS_RemoveElement
  <2>4. N = Cardinality(FullBoxes)
    BY DEF MailOK, Filled, N
  <2>5. ASSUME NEW b \in Boxes
        PROVE  fwBox'[b].full <=> Place(b, M) < N - 1
    <3>1. CASE b = fwMcu
      <4>1. Place(b, M) = 3
        BY <1>2, <3>1, Ring DEF M
      <4> QED
        BY <1>2, <1>6, <3>1, <4>1
    <3>2. CASE b # fwMcu
      <4>1. Place(b, M) = Place(b, fwMcu) - 1 /\ Place(b, fwMcu) \in 0..3
        BY <1>2, <3>2, Ring DEF M
      <4>2. fwBox[b].full <=> Place(b, fwMcu) < N
        BY DEF MailOK, Filled, N
      <4> QED
        BY <1>2, <1>6, <3>2, <4>1, <4>2
    <3> QED
      BY <3>1, <3>2
  <2> QED
    BY <1>1, <1>2, <1>5, <2>3, <2>4, <2>5 DEF Filled
<1>9. InBoxes'
  <2>1. ASSUME NEW k \in 0..3, k < N - 1
        PROVE  Holds(fwBox'[Nth(M, k)], fwSent'[k + 1])
    <3>1. k + 1 \in 0..3 /\ k + 1 < N
      BY <1>2, <2>1
    <3>2. Nth(M, k) = Nth(fwMcu, k + 1)
      BY <1>2, Ring DEF M
    <3>3. Nth(fwMcu, k + 1) \in Boxes /\ Place(Nth(fwMcu, k + 1), fwMcu) = k + 1
      <4>1. \A j \in 0..3 : Nth(fwMcu, j) \in Boxes /\ Place(Nth(fwMcu, j), fwMcu) = j
        BY <1>2, Ring
      <4> QED
        BY <3>1, <4>1
    <3>4. Nth(fwMcu, k + 1) # fwMcu
      BY <1>3, <3>3
    <3>5. Holds(fwBox[Nth(fwMcu, k + 1)], fwSent[k + 1 + 1])
      BY <3>1 DEF MailOK, InBoxes, N
    <3>6. fwSent'[k + 1] = fwSent[k + 1 + 1]
      BY <1>5, <2>1
    <3> QED
      BY <1>6, <3>2, <3>3, <3>4, <3>5, <3>6
  <2> QED
    BY <1>1, <1>5, <2>1 DEF InBoxes, Holds
<1>10. Pointer'
  <2>1. N - 1 \in 0..3 /\ (N - 1) + 1 = N
    BY <1>2, <1>4
  <2>2. \A k \in 0..3 : Nth(M, k) = Nth(fwMcu, k + 1)
    BY <1>2, Ring DEF M
  <2>3. Nth(M, N - 1) = Nth(fwMcu, N)
    BY <2>1, <2>2
  <2>4. fwHal.last = Nth(fwMcu, N)
    BY <1>1 DEF MailOK, Pointer, N
  <2> QED
    BY <1>1, <1>5, <2>3, <2>4 DEF Pointer
<1>11. Writing'
  BY <1>1, <1>2, <1>6, <1>7 DEF MailOK, Writing
<1>12. Owned' /\ Quiet'
  BY <1>1 DEF MailOK, Owned, Quiet
<1> QED
  BY <1>8, <1>9, <1>10, <1>11, <1>12 DEF MailOK

\* A new image starts with empty boxes.
LEMMA EndKeeps ==
    ASSUME MailInv, MailOK, DownloadEnd
    PROVE  MailOK'
<1>1. fwDl.at = "ready" /\ fwDl'.at = "done" /\ UNCHANGED <<h2cOwner, h2cAt>>
  BY DEF DownloadEnd
<1>2. fwHal'.last = 0
  BY DEF DownloadEnd, MailInv, FwType, RepType, HalSet
<1>3. fwBox' = [b \in Boxes |-> EmptyBox] /\ fwMcu' = 0 /\ fwSent' = <<>>
  BY DEF DownloadEnd
<1>4. Filled' /\ InBoxes'
  <2>1. Emptied'
    BY <1>3 DEF Emptied
  <2> QED
    BY <2>1, EmptyMail, PTL
<1>5. \A t \in H2cThreads : h2cAt[t].at = "out"
  BY <1>1 DEF MailOK, Quiet
<1>6. Nth(0, 0) = 0
  BY Ring DEF Boxes
<1>7. Pointer'
  BY <1>2, <1>3, <1>6 DEF Pointer
<1>8. Owned' /\ Quiet' /\ Writing'
  BY <1>1, <1>5 DEF MailOK, Owned, Quiet, Writing
<1> QED
  BY <1>4, <1>7, <1>8 DEF MailOK

\* The chip goes down with no command in the making.
LEMMA CycleKeeps ==
    ASSUME MailInv, MailOK, PowerCycle, ~ fwTorn'
    PROVE  MailOK'
<1>1. fwDl'.at = "off" /\ UNCHANGED <<h2cOwner, h2cAt>>
  BY DEF PowerCycle
<1>2. fwBox' = [b \in Boxes |-> EmptyBox] /\ fwMcu' = 0 /\ fwSent' = <<>>
  BY DEF PowerCycle
<1>3. Filled' /\ InBoxes'
  <2>1. Emptied'
    BY <1>2 DEF Emptied
  <2> QED
    BY <2>1, EmptyMail, PTL
<1>4. \A t \in H2cThreads : h2cAt[t].at = "out"
  BY DEF PowerCycle
<1> QED
  BY <1>1, <1>2, <1>3, <1>4 DEF MailOK, Owned, Quiet, Pointer, Writing

\* A download begins: the driver's pointer starts again at box 0.
LEMMA BeginKeeps ==
    ASSUME MailInv, MailOK, DownloadBegin
    PROVE  MailOK'
<1>1. fwDl.at = "off" /\ UNCHANGED <<h2cOwner, h2cAt, fwBox, fwMcu, fwSent>>
  BY DEF DownloadBegin
<1>2. fwHal'.last = 0
  BY DEF DownloadBegin, MailInv, FwType, RepType, HalSet
<1>3. fwSent = <<>> /\ fwMcu = 0 /\ \A t \in H2cThreads : h2cAt[t].at = "out"
  BY <1>1 DEF MailOK, Quiet
<1>4. Nth(0, 0) = 0
  BY Ring DEF Boxes
<1>5. Pointer'
  BY <1>1, <1>2, <1>3, <1>4 DEF Pointer
<1>6. Owned' /\ Quiet' /\ Writing'
  BY <1>1, <1>3 DEF MailOK, Owned, Quiet, Writing
<1> QED
  BY <1>1, <1>5, <1>6, BoxesStay DEF MailOK

\* Every step keeps the mailboxes in order.
LEMMA MailStep == MailInv /\ [FwNext]_fwVars => MailInv'
<1> SUFFICES ASSUME MailInv, [FwNext]_fwVars
             PROVE  MailInv'
  OBVIOUS
<1>1. FwType' /\ DlInv' /\ Reporting'
  BY FwTypeStep, DlStep, ReportingStep DEF MailInv, DlInv
<1> SUFFICES ASSUME ~ fwTorn'
             PROVE  MailOK'
  BY <1>1 DEF MailInv
<1>2. MailOK
  BY TornStays DEF MailInv
<1>3. ASSUME UNCHANGED <<fwBox, fwMcu, fwSent, h2cOwner, h2cAt>>, fwHal'.last = fwHal.last,
             fwDl'.at # "off", fwDl.at # "off", fwDl.at = "done" => fwDl'.at = "done"
      PROVE  MailOK'
  BY <1>2, <1>3, BoxesStay DEF MailOK, Owned, Quiet, Pointer, Writing
<1>4. CASE _PageWrite_8812 \/ _rtl8821au_fw_free_to_go
  <2>1. fwDl.at = "write" /\ fwDl'.at \in {"write", "ready", "done"}
    BY <1>4 DEF _PageWrite_8812, _rtl8821au_fw_free_to_go, MailInv, DlInv, DlType
  <2>2. UNCHANGED mailVars
    BY <1>4 DEF _PageWrite_8812, _rtl8821au_fw_free_to_go
  <2> QED
    BY <1>3, <2>1, <2>2 DEF mailVars
<1>5. CASE ReportBegin
  BY <1>3, <1>5 DEF ReportBegin
<1>6. CASE SetFwRsvdPagePkt_8812 \/ ReportPoll \/ ReportEnd
  <2>1. fwDl.at = "done"
    BY <1>6 DEF SetFwRsvdPagePkt_8812, ReportPoll, ReportEnd, MailInv, Reporting
  <2> QED
    BY <1>3, <1>6, <2>1 DEF SetFwRsvdPagePkt_8812, ReportPoll, ReportEnd
<1>7. CASE RsvdPagesArrive
  <2>1. UNCHANGED <<fwBox, fwMcu, fwSent, h2cOwner, h2cAt, fwHal, fwDl>>
    BY <1>7 DEF RsvdPagesArrive, mailVars
  <2> QED
    BY <1>2, <2>1, BoxesStay DEF MailOK, Owned, Quiet, Pointer, Writing
<1>8. CASE RsvdPagesTell
  <2>1. fwDl.at = "done" /\ h2cAt["cmd"].at = "out" /\ UNCHANGED <<fwHal, fwDl, fwBox, fwMcu, fwSent, h2cOwner>>
    BY <1>8 DEF RsvdPagesTell, MailInv, Reporting
  <2>2. \E ies \in fwJr.of : H2cCall("cmd", "rsvdpage", 5, RsvdPageLoc(ies))
    BY <1>8 DEF RsvdPagesTell
  <2> QED
    BY <1>2, <2>1, <2>2, CallKeeps, FwAssumption
<1>9. ASSUME NEW t \in H2cThreads, rtl8821au_fill_h2c_cmd(t)
      PROVE  MailOK'
  BY <1>2, <1>9, CallKeeps
  DEF rtl8821au_fill_h2c_cmd, rtl8812_set_raid_cmd, rtl8812_set_FwMediaStatus_cmd
<1>10. CASE UNCHANGED fwVars
  <2>1. UNCHANGED <<fwBox, fwMcu, fwSent, h2cOwner, h2cAt, fwHal, fwDl>>
    BY <1>10 DEF fwVars
  <2> QED
    BY <1>2, <2>1, BoxesStay DEF MailOK, Owned, Quiet, Pointer, Writing
<1> QED
  BY <1>2, <1>4, <1>5, <1>6, <1>7, <1>8, <1>9, <1>10, LockKeeps, PollKeeps, ExtKeeps, MainKeeps,
     UnlockKeeps, TakeKeeps, EndKeeps, CycleKeeps, BeginKeeps DEF FwNext

\* Whatever threads send commands and however the firmware is slow to take
\* them, the four boxes hold the commands not taken in the order they were
\* written, each whole, unless a signal ended a wait for the mutex or the chip
\* went down in the middle of a command (_rtl8821au_fill_h2c_cmd).
THEOREM MailsInOrder == FwSpec => []MailInOrder
<1>1. ASSUME MailInv
      PROVE  MailInOrder
  <2> SUFFICES ASSUME ~ fwTorn
               PROVE  MailInOrder
    BY DEF MailInOrder
  <2>1. MailOK /\ fwMcu \in Boxes /\ Len(fwSent) \in Nat /\ Len(fwSent) <= 4
    BY <1>1 DEF MailInv, MailOK, Filled, FwType, MailType
  <2>2. Len(fwSent) = Cardinality({b \in Boxes : fwBox[b].full})
    BY <2>1 DEF MailOK, Filled, FullBoxes
  <2>3. ASSUME NEW i \in 1..Len(fwSent)
        PROVE  LET b == fwBox[(fwMcu + i - 1) % 4]
               IN  b.main = fwSent[i] /\ (b.main.len > 3 => b.ext = fwSent[i])
    <3>1. i - 1 \in 0..3 /\ i - 1 < Len(fwSent) /\ (i - 1) + 1 = i /\ fwMcu + (i - 1) = fwMcu + i - 1
      BY <2>1 DEF Boxes
    <3>2. Holds(fwBox[Nth(fwMcu, i - 1)], fwSent[(i - 1) + 1])
      BY <2>1, <3>1 DEF MailOK, InBoxes
    <3> QED
      BY <3>1, <3>2 DEF Holds, Nth
  <2> QED
    BY <2>2, <2>3 DEF MailInOrder
<1> QED
  BY MailInitInv, MailStep, <1>1, PTL DEF FwSpec

-----------------------------------------------------------------------------
(***************************************************************************)
(* Keys.                                                                   *)
(***************************************************************************)
\* The entry of the CAM a station's frames need: its own address, algorithm and
\* key (set_stakey_hdl).
Want(s) ==
    [valid |-> TRUE, addr |-> s, alg |-> kSta[s].alg, keyid |-> 0, key |-> kSta[s].key]

\* The algorithms and keys that reach a key command, and the commands: a default
\* key goes to one of the first four entries, a pairwise key names its station.
KeyAlgs == {"none", "wep40", "wep104", "tkip", "ccmp"}
AnyKey == KKeys \cup {ZeroKey}
KCmds ==
    {c \in [op : {"key", "stakey"}, addr : KAddrs \cup {"none"}, alg : KeyAlgs, key : AnyKey,
            id : Entries, tx : BOOLEAN] :
        IF c.op = "key" THEN c.id <= 3 ELSE c.addr \in KAddrs}

\* The types of the stations, MAC ids, commands and entries in access point mode.
KTypeOK ==
    /\ kSta \in [KAddrs -> [there : BOOLEAN, leaving : BOOLEAN, mac : 0 .. NumSta,
                            alg : KeyAlgs, key : AnyKey]]
    /\ macid \in SUBSET (0 .. NumSta - 1) /\ 1 \in macid
    /\ kQ \in Seq(KCmds)
    /\ cam \in [Entries -> [valid : BOOLEAN, addr : KAddrs \cup {"none"}, alg : KeyAlgs,
                            keyid : Entries, key : AnyKey]]

\* A station of the table holds a MAC id of its own, never that of the broadcast
\* station, unless none was left (rtw_alloc_macid, rtw_release_macid).
MacsApart ==
    \A s \in KAddrs :
        /\ kSta[s].leaving => kSta[s].there
        /\ kSta[s].there =>
              /\ kSta[s].mac # 1
              /\ kSta[s].mac < NumSta =>
                    /\ kSta[s].mac \in macid
                    /\ \A r \in KAddrs : kSta[r].there /\ kSta[r].mac = kSta[s].mac => r = s

\* A station that was given a key the chip has an entry for.
HasKey(s) ==
    kSta[s].there /\ ~kSta[s].leaving /\ kSta[s].alg # "none" /\ kSta[s].mac <= NumSta - 4

\* The command c changes the entry of the station s ...
Touches(c, s) ==
    c.op = "stakey" /\ IF c.alg = "none" THEN c.id = rtw_get_camid(kSta[s].mac) ELSE c.addr = s

\* ... and here it brings the key the station has now.
Gives(c, s) ==
    c.op = "stakey" /\ c.addr = s /\ c.alg = kSta[s].alg /\ c.key = kSta[s].key

\* The last command of the queue that changes the entry of s brings its key; when
\* none does the entry has it already.
LastGives(s) ==
    \E n \in 0 .. Len(kQ) :
        /\ IF n = 0 THEN cam[rtw_get_camid(kSta[s].mac)] = Want(s) ELSE Gives(kQ[n], s)
        /\ \A i \in n + 1 .. Len(kQ) : ~Touches(kQ[i], s)

\* The inductive invariant. That the entry is right with an empty queue is not
\* inductive: the commands that wait must say what it will be, and no other
\* station may share the entry.
KeyInv == kRole = "ap" => KTypeOK /\ MacsApart /\ \A s \in KAddrs : HasKey(s) => LastGives(s)

\* A station of the table and an entry of the CAM.
StaRow == [there : BOOLEAN, leaving : BOOLEAN, mac : 0 .. NumSta, alg : KeyAlgs, key : AnyKey]
CamRow == [valid : BOOLEAN, addr : KAddrs \cup {"none"}, alg : KeyAlgs, keyid : Entries, key : AnyKey]

\* Two MAC ids have different entries, none of them that of a default key
\* (rtw_get_camid).
LEMMA CamIds ==
  ASSUME NEW m \in 0 .. NumSta, m # 1
  PROVE  /\ rtw_get_camid(m) \in Entries /\ rtw_get_camid(m) >= 4
         /\ \A r \in 0 .. NumSta : r # 1 /\ rtw_get_camid(r) = rtw_get_camid(m) => r = m
  BY KeysAssumption DEF rtw_get_camid, Entries

\* A nonempty set of natural numbers has a least one.
LEMMA LeastNat ==
  ASSUME NEW T \in SUBSET Nat, T # {}
  PROVE  \E k \in T : \A j \in T : k <= j
  <1>1. \E k \in T : \A j \in T : ~ (<<j, k>> \in OpToRel(<, Nat))
    BY NatLessThanWellFounded, WFMin
  <1>2. PICK k \in T : \A j \in T : ~ (j < k)
    BY <1>1 DEF OpToRel
  <1>3. \A j \in T : k <= j
    BY <1>2
  <1> QED
    BY <1>3

\* rtw_alloc_macid gives an id that is free, or NUM_STA when there is none; never
\* 1, which is in use from the start.
LEMMA AllocMac ==
  ASSUME macid \in SUBSET (0 .. NumSta - 1), 1 \in macid
  PROVE  /\ rtw_alloc_macid \in 0 .. NumSta /\ rtw_alloc_macid # 1
         /\ rtw_alloc_macid # NumSta => rtw_alloc_macid \notin macid
  <1> DEFINE free == 0 .. NumSta - 1 \ macid
  <1>0. NumSta \in Nat /\ NumSta > 4
    BY KeysAssumption
  <1>1. CASE free = {}
    BY <1>0, <1>1 DEF rtw_alloc_macid
  <1>2. CASE free # {}
    <2>1. \E k \in free : \A j \in free : k <= j
      <3>1. free \in SUBSET Nat
        BY <1>0
      <3> HIDE DEF free
      <3> QED
        BY <1>2, <3>1, LeastNat
    <2>2. rtw_alloc_macid = CHOOSE i \in free : \A j \in free : i <= j
      BY <1>2 DEF rtw_alloc_macid
    <2>3. rtw_alloc_macid \in free
      <3> HIDE DEF free
      <3> QED
        BY <2>1, <2>2
    <2> QED
      BY <1>0, <2>3
  <1> QED
    BY <1>1, <1>2

\* The MAC id and the entry of a station with a key are its own.
LEMMA Settled ==
  ASSUME KTypeOK, MacsApart, NEW s \in KAddrs, HasKey(s)
  PROVE  /\ kSta[s].mac \in 0 .. NumSta /\ kSta[s].mac # 1 /\ kSta[s].mac < NumSta
         /\ kSta[s].mac \in macid
         /\ rtw_get_camid(kSta[s].mac) \in Entries /\ rtw_get_camid(kSta[s].mac) >= 4
         /\ \A r \in KAddrs : kSta[r].there /\ r # s =>
               rtw_get_camid(kSta[r].mac) # rtw_get_camid(kSta[s].mac)
  <1>0. NumSta \in Nat /\ NumSta > 4
    BY KeysAssumption
  <1>1. kSta[s].mac \in 0 .. NumSta /\ kSta[s].there /\ kSta[s].mac <= NumSta - 4
    BY DEF HasKey, KTypeOK
  <1>2. kSta[s].mac # 1 /\ kSta[s].mac < NumSta /\ kSta[s].mac \in macid
        /\ \A r \in KAddrs : kSta[r].there /\ kSta[r].mac = kSta[s].mac => r = s
    BY <1>0, <1>1 DEF MacsApart
  <1>3. \A r \in KAddrs : kSta[r].there => kSta[r].mac \in 0 .. NumSta /\ kSta[r].mac # 1
    BY DEF KTypeOK, MacsApart
  <1> QED
    BY <1>1, <1>2, <1>3, CamIds

\* A step that leaves the station, the queue and the CAM alone keeps its key.
LEMMA StillGives ==
  ASSUME KTypeOK, NEW s \in KAddrs, LastGives(s), kSta'[s] = kSta[s], kQ' = kQ, cam' = cam
  PROVE  LastGives(s)'
  BY DEF LastGives, Gives, Touches, Want

\* Commands that do not touch the entry may be queued behind the others ...
LEMMA AppendedGives ==
  ASSUME KTypeOK, NEW s \in KAddrs, LastGives(s), kSta'[s] = kSta[s], cam' = cam,
         NEW cs \in Seq(KCmds), kQ' = kQ \o cs, \A i \in 1 .. Len(cs) : ~Touches(cs[i], s)
  PROVE  LastGives(s)'
  <1>0. kQ \in Seq(KCmds)
    BY DEF KTypeOK
  <1>1. /\ Len(kQ') = Len(kQ) + Len(cs)
        /\ \A i \in 1 .. Len(kQ) : kQ'[i] = kQ[i]
        /\ \A i \in Len(kQ) + 1 .. Len(kQ') : kQ'[i] = cs[i - Len(kQ)]
        /\ Len(kQ) \in Nat /\ Len(cs) \in Nat
    BY <1>0, ConcatProperties
  <1>2. PICK n \in 0 .. Len(kQ) :
        /\ IF n = 0 THEN cam[rtw_get_camid(kSta[s].mac)] = Want(s) ELSE Gives(kQ[n], s)
        /\ \A i \in n + 1 .. Len(kQ) : ~Touches(kQ[i], s)
    BY DEF LastGives
  <1>3. n \in 0 .. Len(kQ')
    BY <1>1
  <1>4. IF n = 0 THEN cam'[rtw_get_camid(kSta'[s].mac)] = Want(s)' ELSE Gives(kQ[n], s)'
    BY <1>1, <1>2 DEF Want, Gives
  <1>5. \A i \in n + 1 .. Len(kQ') : ~Touches(kQ[i], s)'
    <2> TAKE i \in n + 1 .. Len(kQ')
    <2>1. CASE i <= Len(kQ)
      <3>1. i \in n + 1 .. Len(kQ) /\ i \in 1 .. Len(kQ)
        BY <1>1, <2>1
      <3>2. kQ'[i] = kQ[i] /\ ~Touches(kQ[i], s)
        BY <1>1, <1>2, <3>1
      <3> QED
        BY <3>2 DEF Touches
    <2>2. CASE i > Len(kQ)
      <3>1. i - Len(kQ) \in 1 .. Len(cs) /\ kQ'[i] = cs[i - Len(kQ)]
        BY <1>1, <2>2
      <3> QED
        BY <3>1 DEF Touches
    <2> QED
      BY <1>1, <2>1, <2>2
  <1> QED
    BY <1>3, <1>4, <1>5 DEF LastGives

\* ... and one that brings the key the station has now decides the entry.
LEMMA NowGives ==
  ASSUME KTypeOK, NEW s \in KAddrs, NEW c \in KCmds, kQ' = kQ \o <<c>>, Gives(c, s)'
  PROVE  LastGives(s)'
  <1>0. kQ \in Seq(KCmds) /\ <<c>> \in Seq(KCmds)
    BY DEF KTypeOK
  <1>1. Len(kQ') = Len(kQ) + 1 /\ kQ'[Len(kQ) + 1] = c /\ Len(kQ) \in Nat
    BY <1>0, ConcatProperties
  <1> QED
    BY <1>1 DEF LastGives, Gives

\* rtw_enqueue_cmd keeps the type of the queue.
LEMMA QueueType ==
  ASSUME KTypeOK, NEW cs \in Seq(KCmds)
  PROVE  kQ \o cs \in Seq(KCmds)
  BY ConcatProperties DEF KTypeOK

\* A default key is programmed (rtw_ap_set_key): no station's entry is touched.
LEMMA KeyCmdStep ==
  ASSUME KTypeOK, MacsApart, \A s \in KAddrs : HasKey(s) => LastGives(s),
         NEW i \in KIds, NEW alg \in KeyAlgs, NEW key \in KKeys, NEW tx \in BOOLEAN,
         rtw_enqueue_cmd(rtw_ap_set_key(i, alg, key, tx)), UNCHANGED <<kSta, macid, cam>>
  PROVE  KTypeOK' /\ MacsApart' /\ \A s \in KAddrs : HasKey(s)' => LastGives(s)'
  <1> DEFINE c == [op |-> "key", addr |-> "none", alg |-> alg, key |-> key, id |-> i, tx |-> tx]
  <1>1. c \in KCmds /\ <<c>> \in Seq(KCmds) /\ c.op = "key"
    BY KeysAssumption DEF KCmds, AnyKey, Entries
  <1>2. kQ' = kQ \o <<c>>
    BY DEF rtw_enqueue_cmd, rtw_ap_set_key, KeyCmd
  <1> HIDE DEF c
  <1>3. KTypeOK'
    BY <1>1, <1>2, QueueType DEF KTypeOK
  <1>4. MacsApart'
    BY DEF MacsApart
  <1>5. ASSUME NEW s \in KAddrs, HasKey(s)' PROVE LastGives(s)'
    <2>1. HasKey(s)
      BY <1>5 DEF HasKey
    <2>2. \A j \in 1 .. Len(<<c>>) : ~Touches(<<c>>[j], s)
      BY <1>1 DEF Touches
    <2> QED
      BY <1>1, <1>2, <2>1, <2>2, AppendedGives
  <1> QED
    BY <1>3, <1>4, <1>5

\* A station is added and takes a MAC id; it has no key yet.
LEMMA JoinsStep ==
  ASSUME KTypeOK, MacsApart, \A s \in KAddrs : HasKey(s) => LastGives(s),
         NEW a \in KAddrs, StaJoins(a)
  PROVE  KTypeOK' /\ MacsApart' /\ \A s \in KAddrs : HasKey(s)' => LastGives(s)'
  <1> DEFINE m == rtw_alloc_macid
             t == [Away EXCEPT !.there = TRUE, !.mac = m]
  <1>0. NumSta \in Nat /\ NumSta > 4
    BY KeysAssumption
  <1>1. m \in 0 .. NumSta /\ m # 1 /\ (m # NumSta => m \notin macid)
    BY AllocMac DEF KTypeOK
  <1>2. /\ ~kSta[a].there /\ kSta' = [kSta EXCEPT ![a] = t]
        /\ macid' = (macid \cup {m}) \ {NumSta} /\ kQ' = kQ /\ cam' = cam
    BY DEF StaJoins
  <1> HIDE DEF m
  <1>3. t \in StaRow /\ t.there /\ t.mac = m /\ t.alg = "none"
    BY <1>1 DEF Away, StaRow, KeyAlgs, AnyKey
  <1>4. kSta \in [KAddrs -> StaRow]
    BY DEF KTypeOK, StaRow
  <1> HIDE DEF t
  <1>5. kSta' \in [KAddrs -> StaRow] /\ kSta'[a] = t /\ \A s \in KAddrs : s # a => kSta'[s] = kSta[s]
    BY <1>2, <1>3, <1>4
  <1>6. macid' \in SUBSET (0 .. NumSta - 1) /\ 1 \in macid'
    BY <1>0, <1>1, <1>2 DEF KTypeOK
  <1>7. KTypeOK'
    BY <1>2, <1>5, <1>6 DEF KTypeOK, StaRow
  <1>8. MacsApart'
    BY <1>0, <1>1, <1>2, <1>3, <1>5 DEF MacsApart, KTypeOK
  <1>9. ASSUME NEW s \in KAddrs, HasKey(s)' PROVE LastGives(s)'
    <2>1. s # a
      BY <1>3, <1>5, <1>9 DEF HasKey
    <2>2. HasKey(s) /\ kSta'[s] = kSta[s]
      BY <1>5, <1>9, <2>1 DEF HasKey
    <2> QED
      BY <1>2, <2>2, StillGives
  <1> QED
    BY <1>7, <1>8, <1>9

\* ap_free_sta queues the clear of the station's own entry.
LEMMA LeavingStep ==
  ASSUME KTypeOK, MacsApart, \A s \in KAddrs : HasKey(s) => LastGives(s),
         NEW a \in KAddrs, ap_free_sta(a)
  PROVE  KTypeOK' /\ MacsApart' /\ \A s \in KAddrs : HasKey(s)' => LastGives(s)'
  <1> DEFINE e == rtw_get_camid(kSta[a].mac)
             c == [op |-> "stakey", addr |-> a, alg |-> "none", key |-> ZeroKey, id |-> e,
                   tx |-> FALSE]
  <1>1. /\ kSta[a].there /\ kQ' = kQ \o <<c>> /\ kSta' = [kSta EXCEPT ![a].leaving = TRUE]
        /\ UNCHANGED <<macid, cam>>
    BY DEF ap_free_sta, rtw_enqueue_cmd, rtw_clearstakey_cmd, StaKeyCmd
  <1>2. kSta \in [KAddrs -> StaRow] /\ kSta[a].mac \in 0 .. NumSta /\ kSta[a].mac # 1
    BY <1>1 DEF KTypeOK, StaRow, MacsApart
  <1>3. e \in Entries
    BY <1>2, CamIds
  <1> HIDE DEF e
  <1>4. c \in KCmds /\ <<c>> \in Seq(KCmds) /\ c.alg = "none" /\ c.id = e
    BY <1>3 DEF KCmds, AnyKey, KeyAlgs
  <1> HIDE DEF c
  <1>5. /\ kSta' \in [KAddrs -> StaRow] /\ kSta'[a] = [kSta[a] EXCEPT !.leaving = TRUE]
        /\ \A s \in KAddrs : s # a => kSta'[s] = kSta[s]
    BY <1>1, <1>2 DEF StaRow
  <1>6. kSta'[a].leaving /\ kSta'[a].mac = kSta[a].mac /\ kSta'[a].there = kSta[a].there
    BY <1>2, <1>5 DEF StaRow
  <1>7. KTypeOK'
    BY <1>1, <1>4, <1>5, QueueType DEF KTypeOK, StaRow
  <1>8. MacsApart'
    <2>1. \A s \in KAddrs : /\ kSta'[s].mac = kSta[s].mac /\ kSta'[s].there = kSta[s].there
                            /\ kSta'[s].leaving => kSta[s].there
      BY <1>1, <1>5, <1>6 DEF MacsApart
    <2> QED
      BY <1>1, <2>1 DEF MacsApart
  <1>9. ASSUME NEW s \in KAddrs, HasKey(s)' PROVE LastGives(s)'
    <2>1. s # a /\ kSta'[s] = kSta[s] /\ HasKey(s)
      BY <1>5, <1>6, <1>9 DEF HasKey
    <2>2. e # rtw_get_camid(kSta[s].mac)
      BY <1>1, <2>1, Settled DEF e
    <2>3. \A j \in 1 .. Len(<<c>>) : ~Touches(<<c>>[j], s)
      BY <1>4, <2>2 DEF Touches
    <2> QED
      BY <1>1, <1>4, <2>1, <2>3, AppendedGives
  <1> QED
    BY <1>7, <1>8, <1>9

\* rtw_free_stainfo gives up the MAC id, the last holder of which is gone.
LEMMA GoneStep ==
  ASSUME KTypeOK, MacsApart, \A s \in KAddrs : HasKey(s) => LastGives(s),
         NEW a \in KAddrs, rtw_free_stainfo_macid(a)
  PROVE  KTypeOK' /\ MacsApart' /\ \A s \in KAddrs : HasKey(s)' => LastGives(s)'
  <1>0. NumSta \in Nat /\ NumSta > 4
    BY KeysAssumption
  <1>1. /\ kSta' = [kSta EXCEPT ![a] = Away] /\ macid' = rtw_release_macid(kSta[a].mac)
        /\ UNCHANGED <<kQ, cam>> /\ kSta[a].there
    BY DEF rtw_free_stainfo_macid, MacsApart
  <1>2. Away \in StaRow /\ ~Away.there
    BY <1>0 DEF Away, StaRow, KeyAlgs, AnyKey
  <1>3. kSta \in [KAddrs -> StaRow]
    BY DEF KTypeOK, StaRow
  <1>4. kSta' \in [KAddrs -> StaRow] /\ ~kSta'[a].there /\ \A s \in KAddrs : s # a => kSta'[s] = kSta[s]
    BY <1>1, <1>2, <1>3
  <1>5. macid' \in SUBSET (0 .. NumSta - 1) /\ 1 \in macid'
        /\ \A m \in macid : m # kSta[a].mac => m \in macid'
    BY <1>1 DEF rtw_release_macid, KTypeOK
  <1>6. KTypeOK'
    BY <1>1, <1>4, <1>5 DEF KTypeOK, StaRow
  <1>7. MacsApart'
    <2>0. \A s \in KAddrs : kSta'[s].leaving => kSta'[s].there
      <3>1. ~Away.leaving /\ kSta'[a] = Away
        BY <1>1, <1>3 DEF Away
      <3> QED
        BY <1>4, <3>1 DEF MacsApart
    <2> SUFFICES ASSUME NEW s \in KAddrs, kSta'[s].there
                 PROVE  /\ kSta'[s].mac # 1
                        /\ kSta'[s].mac < NumSta =>
                              /\ kSta'[s].mac \in macid'
                              /\ \A r \in KAddrs : kSta'[r].there /\ kSta'[r].mac = kSta'[s].mac => r = s
      BY <2>0 DEF MacsApart
    <2>1. s # a /\ kSta'[s] = kSta[s]
      BY <1>4
    <2>2. kSta[s].mac < NumSta => kSta[s].mac # kSta[a].mac
      BY <1>1, <1>4, <2>1 DEF MacsApart
    <2>3. kSta[s].there
      BY <2>1
    <2>4. kSta[s].mac # 1 /\ (kSta[s].mac < NumSta => kSta[s].mac \in macid)
      BY <2>3 DEF MacsApart
    <2>5. ASSUME kSta[s].mac < NumSta, NEW r \in KAddrs, kSta'[r].there, kSta'[r].mac = kSta[s].mac
          PROVE  r = s
      <3>1. r # a /\ kSta'[r] = kSta[r]
        BY <1>4, <2>5
      <3> QED
        BY <2>3, <2>5, <3>1 DEF MacsApart
    <2> QED
      BY <1>5, <2>1, <2>2, <2>4, <2>5
  <1>8. ASSUME NEW s \in KAddrs, HasKey(s)' PROVE LastGives(s)'
    <2>1. s # a /\ kSta'[s] = kSta[s] /\ HasKey(s)
      BY <1>4, <1>8 DEF HasKey
    <2> QED
      BY <1>1, <2>1, StillGives
  <1> QED
    BY <1>6, <1>7, <1>8

\* A cleared entry has the type of an entry.
LEMMA FlushedCam ==
  ASSUME KTypeOK
  PROVE  flush_all_cam_entry \in [Entries -> CamRow] /\ Empty \in CamRow
  BY KeysAssumption DEF flush_all_cam_entry, Empty, CamRow, KeyAlgs, AnyKey, Entries

\* rtw_hostapd_sta_flush: the CAM is empty and every station is leaving.
LEMMA FlushStep ==
  ASSUME KTypeOK, MacsApart, rtw_hostapd_sta_flush
  PROVE  KTypeOK' /\ MacsApart' /\ \A s \in KAddrs : ~HasKey(s)'
  <1> DEFINE stay == {s \in KAddrs : kSta[s].there /\ ~kSta[s].leaving}
             c(s) == [op |-> "stakey", addr |-> s, alg |-> "none", key |-> ZeroKey,
                      id |-> rtw_get_camid(kSta[s].mac), tx |-> FALSE]
  <1>1. PICK on \in Walks(stay) :
           kQ' = kQ \o [i \in DOMAIN on |->
                          rtw_clearstakey_cmd(on[i], rtw_get_camid(kSta[on[i]].mac))[1]]
    BY DEF rtw_hostapd_sta_flush, rtw_enqueue_cmd
  <1>2. /\ kSta' = [s \in KAddrs |-> [kSta[s] EXCEPT !.leaving = @ \/ s \in stay]]
        /\ cam' = flush_all_cam_entry /\ macid' = macid
    BY DEF rtw_hostapd_sta_flush
  <1>3. Cardinality(stay) \in Nat
    <2>1. IsFiniteSet(stay)
      BY KeysAssumption, FS_Subset
    <2> QED
      BY <2>1, FS_CardinalityType
  <1>4. on \in [1 .. Cardinality(stay) -> stay]
    BY <1>1 DEF Walks
  <1>5. \A s \in stay : c(s) \in KCmds
    <2> TAKE s \in stay
    <2>1. kSta[s].mac \in 0 .. NumSta /\ kSta[s].mac # 1 /\ s \in KAddrs
      BY DEF KTypeOK, MacsApart
    <2>2. rtw_get_camid(kSta[s].mac) \in Entries
      BY <2>1, CamIds
    <2> QED
      BY <2>1, <2>2 DEF KCmds, KeyAlgs, AnyKey
  <1>6. \A s : rtw_clearstakey_cmd(s, rtw_get_camid(kSta[s].mac))[1] = c(s)
    BY DEF rtw_clearstakey_cmd, StaKeyCmd
  <1> DEFINE cs == [i \in 1 .. Cardinality(stay) |-> c(on[i])]
  <1>7. kQ' = kQ \o cs
    BY <1>1, <1>4, <1>6
  <1>8. cs \in Seq(KCmds)
    <2> HIDE DEF c, stay
    <2>1. \A i \in 1 .. Cardinality(stay) : c(on[i]) \in KCmds
      BY <1>4, <1>5
    <2> QED
      BY <1>3, <2>1
  <1>9. kQ' \in Seq(KCmds)
    <2> HIDE DEF cs
    <2> QED
      BY <1>7, <1>8, QueueType
  <1>10. kSta \in [KAddrs -> StaRow]
    BY DEF KTypeOK, StaRow
  <1>11. ASSUME NEW s \in KAddrs
         PROVE  /\ kSta'[s] \in StaRow
                /\ kSta'[s].there = kSta[s].there /\ kSta'[s].mac = kSta[s].mac
                /\ kSta'[s].there => kSta'[s].leaving
                /\ kSta'[s].leaving => kSta[s].leaving \/ s \in stay
    <2> DEFINE b == kSta[s].leaving \/ s \in stay
    <2>1. b \in BOOLEAN
      OBVIOUS
    <2>2. kSta'[s] = [kSta[s] EXCEPT !.leaving = b]
      BY <1>2
    <2>3. kSta[s].there => b
      OBVIOUS
    <2>4. b => kSta[s].leaving \/ s \in stay
      OBVIOUS
    <2>5. kSta[s] \in StaRow
      BY <1>10
    <2> HIDE DEF b, stay
    <2> QED
      BY <2>1, <2>2, <2>3, <2>4, <2>5 DEF StaRow
  <1>12. kSta' \in [KAddrs -> StaRow]
    BY <1>2, <1>11
  <1>13. KTypeOK'
    BY <1>2, <1>9, <1>12, FlushedCam DEF KTypeOK, StaRow, CamRow
  <1>14. MacsApart'
    <2>1. \A s \in KAddrs : /\ kSta'[s].mac = kSta[s].mac /\ kSta'[s].there = kSta[s].there
                            /\ kSta'[s].leaving => kSta'[s].there
      <3> TAKE s \in KAddrs
      <3>1. s \in stay => kSta[s].there
        OBVIOUS
      <3> HIDE DEF stay
      <3> QED
        BY <1>11, <3>1 DEF MacsApart
    <2>2. macid' = macid
      BY <1>2
    <2> QED
      BY <2>1, <2>2 DEF MacsApart
  <1> QED
    BY <1>11, <1>13, <1>14 DEF HasKey

\* A pairwise key: the command that brings it is behind all others, and with no
\* algorithm it clears entry 0, which is no station's.
LEMMA PairwiseStep ==
  ASSUME KTypeOK, MacsApart, \A s \in KAddrs : HasKey(s) => LastGives(s),
         NEW a \in KAddrs, NEW alg \in {"none", "ccmp"}, NEW key \in KKeys,
         SetPairwise(a, alg, key)
  PROVE  KTypeOK' /\ MacsApart' /\ \A s \in KAddrs : HasKey(s)' => LastGives(s)'
  <1> DEFINE c == [op |-> "stakey", addr |-> a, alg |-> alg, key |-> key, id |-> 0, tx |-> FALSE]
  <1>1. kSta \in [KAddrs -> StaRow]
    BY DEF KTypeOK, StaRow
  <1>2. /\ kSta' = [kSta EXCEPT ![a].key = key, ![a].alg = alg]
        /\ kQ' = kQ \o StaKeyCmd(a, kSta'[a].alg, kSta'[a].key, 0)
        /\ UNCHANGED <<macid, cam>>
    BY DEF SetPairwise, rtw_enqueue_cmd, rtw_ap_set_pairwise_key
  <1>3. /\ kSta' \in [KAddrs -> StaRow] /\ kSta'[a].key = key /\ kSta'[a].alg = alg
        /\ kSta'[a].mac = kSta[a].mac /\ kSta'[a].there = kSta[a].there
        /\ kSta'[a].leaving = kSta[a].leaving
        /\ \A s \in KAddrs : s # a => kSta'[s] = kSta[s]
    BY <1>1, <1>2 DEF StaRow, KeyAlgs, AnyKey
  <1>4. c \in KCmds /\ <<c>> \in Seq(KCmds)
    BY KeysAssumption DEF KCmds, KeyAlgs, AnyKey, Entries
  <1>5. kQ' = kQ \o <<c>>
    BY <1>2, <1>3 DEF StaKeyCmd
  <1>6. c.op = "stakey" /\ c.addr = a /\ c.alg = alg /\ c.key = key /\ c.id = 0
    OBVIOUS
  <1> HIDE DEF c
  <1>u. macid' = macid /\ cam' = cam
    BY <1>2
  <1>q. kQ' \in Seq(KCmds)
    BY <1>4, <1>5, QueueType
  <1>7. KTypeOK'
    BY <1>3, <1>q, <1>u DEF KTypeOK, StaRow
  <1>8. MacsApart'
    <2>1. \A s \in KAddrs : /\ kSta'[s].mac = kSta[s].mac /\ kSta'[s].there = kSta[s].there
                            /\ kSta'[s].leaving = kSta[s].leaving
      BY <1>3
    <2> QED
      BY <1>u, <2>1 DEF MacsApart
  <1>9. ASSUME NEW s \in KAddrs, HasKey(s)' PROVE LastGives(s)'
    <2>1. CASE s = a
      <3>1. Gives(c, s)'
        BY <1>3, <1>6, <2>1 DEF Gives
      <3> QED
        BY <1>4, <1>5, <3>1, NowGives
    <2>2. CASE s # a
      <3>1. kSta'[s] = kSta[s] /\ HasKey(s)
        BY <1>3, <1>9, <2>2 DEF HasKey
      <3>2. rtw_get_camid(kSta[s].mac) >= 4 /\ rtw_get_camid(kSta[s].mac) \in Entries
        BY <3>1, Settled
      <3>3. \A j \in 1 .. Len(<<c>>) : ~Touches(<<c>>[j], s)
        BY <1>6, <2>2, <3>2 DEF Touches, Entries
      <3> QED
        BY <1>2, <1>4, <1>5, <3>1, <3>3, AppendedGives
    <2> QED
      BY <2>1, <2>2
  <1> QED
    BY <1>7, <1>8, <1>9

\* The command thread handles the oldest command. One that brings the last key
\* finds the station under its address, with the MAC id it has now; one that
\* clears or writes another entry leaves it alone.
LEMMA HandleStep ==
  ASSUME KTypeOK, MacsApart, \A s \in KAddrs : HasKey(s) => LastGives(s),
         kRole = "ap", Handle
  PROVE  KTypeOK' /\ MacsApart' /\ \A s \in KAddrs : HasKey(s)' => LastGives(s)'
  <1> DEFINE c == kQ[1]
  <1>0. NumSta \in Nat /\ NumSta > 4
    BY KeysAssumption
  <1>1. /\ kQ \in Seq(KCmds) /\ kQ # <<>> /\ kQ' = Tail(kQ)
        /\ UNCHANGED <<kSta, macid>>
    BY DEF KTypeOK, Handle
  <1>2. /\ kQ' \in Seq(KCmds) /\ Len(kQ') = Len(kQ) - 1 /\ Len(kQ) \in Nat /\ Len(kQ) >= 1
        /\ \A i \in 1 .. Len(kQ') : kQ'[i] = kQ[i + 1]
    BY <1>1
  <1>3. c \in KCmds /\ Head(kQ) = c
    BY <1>1, <1>2
  <1> HIDE DEF c
  <1>4. cam \in [Entries -> CamRow] /\ kSta \in [KAddrs -> StaRow]
    BY DEF KTypeOK, CamRow, StaRow
  <1>5. \/ c.op = "key" /\ setkey_hdl(c)
        \/ c.op = "stakey" /\ set_stakey_hdl(c)
    BY <1>3 DEF Handle, KCmds
  <1>6. c.addr \in KAddrs \cup {"none"} /\ c.alg \in KeyAlgs /\ c.key \in AnyKey /\ c.id \in Entries
        /\ (c.op = "key" => c.id <= 3) /\ (c.op = "stakey" => c.addr \in KAddrs)
    BY <1>3 DEF KCmds
  <1>7. ASSUME NEW s \in KAddrs, HasKey(s)
        PROVE  LET e == rtw_get_camid(kSta[s].mac)
               IN  /\ ~Touches(c, s) => cam'[e] = cam[e]
                   /\ Gives(c, s) => cam'[e] = Want(s)
    <2> DEFINE e == rtw_get_camid(kSta[s].mac)
    <2>1. e \in Entries /\ e >= 4
      BY <1>7, Settled
    <2>2. \A r \in KAddrs : kSta[r].there /\ r # s => rtw_get_camid(kSta[r].mac) # e
      BY <1>7, Settled
    <2>e. e = rtw_get_camid(kSta[s].mac)
      OBVIOUS
    <2> HIDE DEF e
    <2>3. CASE c.op = "key" /\ setkey_hdl(c)
      <3>1. c.id # e
        BY <1>6, <2>1, <2>3 DEF Entries
      <3>2. cam'[e] = cam[e]
        BY <1>4, <2>1, <2>3, <3>1 DEF setkey_hdl, rtw_cam_add_one_entry
      <3>3. ~Gives(c, s)
        BY <2>3 DEF Gives
      <3> QED
        BY <2>e, <3>2, <3>3
    <2>4. CASE c.op = "stakey" /\ c.alg = "none" /\ set_stakey_hdl(c)
      <3>1. cam' = [cam EXCEPT ![c.id] = Empty]
        BY <2>4 DEF set_stakey_hdl, clear_cam_entry
      <3>2. ~Touches(c, s) => c.id # e
        BY <2>4, <2>e DEF Touches
      <3>3. ~Gives(c, s)
        BY <1>7, <2>4 DEF Gives, HasKey
      <3> QED
        BY <1>4, <2>1, <2>e, <3>1, <3>2, <3>3
    <2>5. CASE c.op = "stakey" /\ c.alg # "none" /\ set_stakey_hdl(c)
      <3>1. StaKeyAp(c)
        BY <2>5 DEF set_stakey_hdl
      <3> DEFINE row == [valid |-> TRUE, addr |-> c.addr, alg |-> c.alg, keyid |-> 0, key |-> c.key]
      <3>2. \/ /\ kSta[c.addr].there
               /\ cam' = [cam EXCEPT ![rtw_get_camid(kSta[c.addr].mac)] = row]
            \/ /\ ~kSta[c.addr].there \/ kSta[c.addr].mac = 1 \/ kSta[c.addr].mac > NumSta - 4
               /\ cam' = cam
        BY <3>1 DEF StaKeyAp, rtw_cam_add_one_entry
      <3>3. c.addr \in KAddrs
        BY <1>6, <2>5
      <3>4. CASE c.addr # s
        <4>1. cam'[e] = cam[e]
          BY <1>4, <2>1, <2>2, <3>2, <3>3, <3>4
        <4>2. ~Gives(c, s)
          BY <3>4 DEF Gives
        <4> QED
          BY <2>e, <4>1, <4>2
      <3>5. CASE c.addr = s
        <4>1. kSta[s].there /\ kSta[s].mac # 1 /\ ~ (kSta[s].mac > NumSta - 4)
          BY <1>0, <1>4, <1>7, Settled DEF HasKey, StaRow
        <4>2. cam'[e] = row
          BY <1>4, <2>1, <2>e, <3>2, <3>5, <4>1
        <4>3. Touches(c, s)
          BY <2>5, <3>5 DEF Touches
        <4>4. Gives(c, s) => row = Want(s)
          BY <3>5 DEF Gives, Want
        <4> QED
          BY <2>e, <4>2, <4>3, <4>4
      <3> QED
        BY <3>4, <3>5
    <2> QED
      BY <1>5, <2>3, <2>4, <2>5
  <1>8. cam' \in [Entries -> CamRow]
    <2>1. CASE c.op = "key" /\ setkey_hdl(c)
      BY <1>4, <1>6, <2>1, KeysAssumption DEF setkey_hdl, rtw_cam_add_one_entry, CamRow, KeyAlgs, Entries
    <2>2. CASE c.op = "stakey" /\ c.alg = "none" /\ set_stakey_hdl(c)
      <3>1. cam' = [cam EXCEPT ![c.id] = Empty]
        BY <2>2 DEF set_stakey_hdl, clear_cam_entry
      <3> QED
        BY <1>4, <3>1, FlushedCam
    <2>3. CASE c.op = "stakey" /\ c.alg # "none" /\ set_stakey_hdl(c)
      <3>1. StaKeyAp(c)
        BY <2>3 DEF set_stakey_hdl
      <3> DEFINE row == [valid |-> TRUE, addr |-> c.addr, alg |-> c.alg, keyid |-> 0, key |-> c.key]
      <3>2. row \in CamRow
        BY <1>0, <1>6 DEF CamRow, Entries
      <3>3. \/ cam' = [cam EXCEPT ![rtw_get_camid(kSta[c.addr].mac)] = row]
            \/ cam' = cam
        BY <3>1 DEF StaKeyAp, rtw_cam_add_one_entry
      <3> HIDE DEF row
      <3> QED
        BY <1>4, <3>2, <3>3
    <2> QED
      BY <1>5, <2>1, <2>2, <2>3
  <1>9. KTypeOK'
    BY <1>1, <1>2, <1>8 DEF KTypeOK, CamRow
  <1>10. MacsApart'
    BY <1>1 DEF MacsApart
  <1>11. ASSUME NEW s \in KAddrs, HasKey(s)' PROVE LastGives(s)'
    <2> DEFINE e == rtw_get_camid(kSta[s].mac)
    <2>1. HasKey(s)
      BY <1>1, <1>11 DEF HasKey
    <2>2. (~Touches(c, s) => cam'[e] = cam[e]) /\ (Gives(c, s) => cam'[e] = Want(s))
      BY <1>7, <2>1
    <2>3. PICK n \in 0 .. Len(kQ) :
             /\ IF n = 0 THEN cam[e] = Want(s) ELSE Gives(kQ[n], s)
             /\ \A i \in n + 1 .. Len(kQ) : ~Touches(kQ[i], s)
      BY <2>1 DEF LastGives
    <2>4. Want(s)' = Want(s) /\ e' = e
      BY <1>1 DEF Want
    <2>e. e = rtw_get_camid(kSta[s].mac)
      OBVIOUS
    <2>5. CASE n <= 1
      <3>1. cam'[e] = Want(s)
        <4>1. CASE n = 0
          <5>1. ~Touches(c, s)
            BY <1>2, <2>3, <4>1 DEF c
          <5> QED
            BY <2>2, <2>3, <4>1, <5>1
        <4>2. CASE n = 1
          BY <2>2, <2>3, <4>2 DEF c
        <4> QED
          BY <2>5, <4>1, <4>2
      <3>2. \A i \in 1 .. Len(kQ') : ~Touches(kQ[i], s)'
        <4> TAKE i \in 1 .. Len(kQ')
        <4>1. i + 1 \in n + 1 .. Len(kQ) /\ kQ'[i] = kQ[i + 1]
          BY <1>2, <2>5
        <4>2. ~Touches(kQ[i + 1], s)
          BY <2>3, <4>1
        <4> QED
          BY <1>1, <4>1, <4>2 DEF Touches
      <3>4. cam'[rtw_get_camid(kSta'[s].mac)] = Want(s)'
        BY <1>1, <2>4, <3>1
      <3> QED
        BY <1>2, <3>2, <3>4 DEF LastGives
    <2>6. CASE n > 1
      <3>1. n - 1 \in 1 .. Len(kQ') /\ kQ'[n - 1] = kQ[n] /\ n - 1 # 0
        BY <1>2, <2>6
      <3>2. Gives(kQ[n], s)
        BY <2>3, <2>6
      <3>3. Gives(kQ[n - 1], s)'
        BY <1>1, <3>1, <3>2 DEF Gives
      <3>4. \A i \in n .. Len(kQ') : ~Touches(kQ[i], s)'
        <4> TAKE i \in n .. Len(kQ')
        <4>1. i + 1 \in n + 1 .. Len(kQ) /\ kQ'[i] = kQ[i + 1]
          BY <1>2, <2>6
        <4>2. ~Touches(kQ[i + 1], s)
          BY <2>3, <4>1
        <4> QED
          BY <1>1, <4>1, <4>2 DEF Touches
      <3>5. (n - 1) + 1 = n /\ n - 1 \in 0 .. Len(kQ')
        BY <1>2, <2>6
      <3> QED
        BY <3>1, <3>3, <3>4, <3>5 DEF LastGives
    <2> QED
      BY <2>5, <2>6
  <1> QED
    BY <1>9, <1>10, <1>11

\* start_bss_network flushes the CAM only while no station is there.
LEMMA BssFlushStep ==
  ASSUME KTypeOK, MacsApart, start_bss_network_flush
  PROVE  KTypeOK' /\ MacsApart' /\ \A s \in KAddrs : ~HasKey(s)'
  <1>1. cam' = flush_all_cam_entry /\ UNCHANGED <<kSta, macid, kQ>>
        /\ \A s \in KAddrs : ~kSta[s].there
    BY DEF start_bss_network_flush
  <1>2. KTypeOK'
    BY <1>1, FlushedCam DEF KTypeOK, CamRow
  <1>3. MacsApart'
    BY <1>1 DEF MacsApart
  <1> QED
    BY <1>1, <1>2, <1>3 DEF HasKey

\* The first state has no station and no command.
LEMMA KeyInvInit == KInit => KeyInv
  <1> SUFFICES ASSUME KInit, kRole = "ap"
               PROVE  KTypeOK /\ MacsApart /\ \A s \in KAddrs : ~HasKey(s)
    BY DEF KeyInv
  <1>0. NumSta \in Nat /\ NumSta > 4
    BY KeysAssumption
  <1>1. Away \in StaRow /\ ~Away.there /\ ~Away.leaving
    BY <1>0 DEF Away, StaRow, KeyAlgs, AnyKey
  <1>2. Empty \in CamRow
    BY <1>0 DEF Empty, CamRow, KeyAlgs, AnyKey, Entries
  <1>3. kSta = [s \in KAddrs |-> Away] /\ macid = {1} /\ kQ = <<>> /\ cam = [e \in Entries |-> Empty]
    BY DEF KInit
  <1>4. kSta \in [KAddrs -> StaRow] /\ cam \in [Entries -> CamRow] /\ kQ \in Seq(KCmds)
    BY <1>1, <1>2, <1>3
  <1>5. KTypeOK
    BY <1>0, <1>3, <1>4 DEF KTypeOK, StaRow, CamRow
  <1> QED
    BY <1>1, <1>3, <1>5 DEF MacsApart, HasKey

\* Every step keeps the invariant; in access point mode the operations of a
\* station's interface do not run.
LEMMA KeyInvStep == KeyInv /\ [KNext]_kVars => KeyInv'
  <1> SUFFICES ASSUME KeyInv, [KNext]_kVars, kRole' = "ap"
               PROVE  KTypeOK' /\ MacsApart' /\ \A s \in KAddrs : HasKey(s)' => LastGives(s)'
    BY DEF KeyInv
  <1>1. CASE UNCHANGED kVars
    BY <1>1 DEF kVars, KeyInv, KTypeOK, MacsApart, HasKey, LastGives, Gives, Touches, Want
  <1>2. CASE KNext
    <2>1. kRole = "ap"
      BY <1>2 DEF KNext, StaJoins, ap_free_sta, rtw_free_stainfo_macid, Leaves,
         rtw_hostapd_sta_flush, SetNone, start_bss_network_flush, SetWep, rtw_wx_set_enc_ext,
         SetGroup, SetPairwise, SetPairwiseNoTx, Settings, SelectKey, rtw_wx_set_enc,
         wpa_set_encryption_pairwise, wpa_set_encryption_group, rtw_ips_leave_keys, Handle
    <2>2. KTypeOK /\ MacsApart /\ \A s \in KAddrs : HasKey(s) => LastGives(s)
      BY <2>1 DEF KeyInv
    <2>3. \/ \E s \in KAddrs : StaJoins(s) \/ ap_free_sta(s) \/ rtw_free_stainfo_macid(s)
          \/ rtw_hostapd_sta_flush \/ SetNone \/ start_bss_network_flush
          \/ \E i \in KIds, k \in KKeys, len \in {5, 13}, tx \in BOOLEAN : SetWep(i, k, len, tx)
          \/ \E i \in KIds, k \in KKeys, a \in {"none", "ccmp"} : SetGroup(i, a, k)
          \/ \E s \in KAddrs, k \in KKeys, a \in {"none", "ccmp"} : SetPairwise(s, a, k)
          \/ \E s \in KAddrs, i \in KIds, k \in KKeys : SetPairwiseNoTx(s, i, "tkip", k)
          \/ Handle
      BY <1>2, <2>1 DEF KNext, Sta, Leaves, rtw_wx_set_enc_ext, Settings, SelectKey, rtw_wx_set_enc,
         wpa_set_encryption_pairwise, wpa_set_encryption_group, rtw_ips_leave_keys
    <2>4. ASSUME NEW s \in KAddrs, StaJoins(s) \/ ap_free_sta(s) \/ rtw_free_stainfo_macid(s)
          PROVE  KTypeOK' /\ MacsApart' /\ \A r \in KAddrs : HasKey(r)' => LastGives(r)'
      BY <2>2, <2>4, JoinsStep, LeavingStep, GoneStep
    <2>5. CASE rtw_hostapd_sta_flush
      BY <2>2, <2>5, FlushStep
    <2>6. CASE SetNone
      BY <2>2, <2>6 DEF SetNone, KTypeOK, MacsApart, HasKey, LastGives, Gives, Touches, Want
    <2>7. CASE start_bss_network_flush
      BY <2>2, <2>7, BssFlushStep
    <2>8. ASSUME NEW i \in KIds, NEW k \in KKeys, NEW len \in {5, 13}, NEW tx \in BOOLEAN,
                 SetWep(i, k, len, tx)
          PROVE  KTypeOK' /\ MacsApart' /\ \A r \in KAddrs : HasKey(r)' => LastGives(r)'
      <3>1. WepOf(len) \in KeyAlgs
        BY DEF WepOf, KeyAlgs
      <3>2. rtw_enqueue_cmd(rtw_ap_set_key(i, WepOf(len), k, tx)) /\ UNCHANGED <<kSta, macid, cam>>
        BY <2>8 DEF SetWep
      <3> QED
        BY <2>2, <3>1, <3>2, KeyCmdStep
    <2>9. ASSUME NEW i \in KIds, NEW k \in KKeys, NEW a \in {"none", "ccmp"}, SetGroup(i, a, k)
          PROVE  KTypeOK' /\ MacsApart' /\ \A r \in KAddrs : HasKey(r)' => LastGives(r)'
      <3>1. a \in KeyAlgs /\ TRUE \in BOOLEAN
        BY DEF KeyAlgs
      <3>2. rtw_enqueue_cmd(rtw_ap_set_key(i, a, k, TRUE)) /\ UNCHANGED <<kSta, macid, cam>>
        BY <2>9 DEF SetGroup
      <3> QED
        BY <2>2, <3>1, <3>2, KeyCmdStep
    <2>10. ASSUME NEW s \in KAddrs, NEW k \in KKeys, NEW a \in {"none", "ccmp"}, SetPairwise(s, a, k)
           PROVE  KTypeOK' /\ MacsApart' /\ \A r \in KAddrs : HasKey(r)' => LastGives(r)'
      BY <2>2, <2>10, PairwiseStep
    <2>11. ASSUME NEW s \in KAddrs, NEW i \in KIds, NEW k \in KKeys, SetPairwiseNoTx(s, i, "tkip", k)
           PROVE  KTypeOK' /\ MacsApart' /\ \A r \in KAddrs : HasKey(r)' => LastGives(r)'
      <3>1. "tkip" \in KeyAlgs /\ TRUE \in BOOLEAN
        BY DEF KeyAlgs
      <3>2. rtw_enqueue_cmd(rtw_ap_set_key(i, "tkip", k, TRUE)) /\ UNCHANGED <<kSta, macid, cam>>
        BY <2>11 DEF SetPairwiseNoTx
      <3> QED
        BY <2>2, <3>1, <3>2, KeyCmdStep
    <2>12. CASE Handle
      BY <2>1, <2>2, <2>12, HandleStep
    <2> QED
      BY <2>3, <2>4, <2>5, <2>6, <2>7, <2>8, <2>9, <2>10, <2>11, <2>12
  <1> QED
    BY <1>1, <1>2

\* Once the queue is empty, every station of the access point that was given a
\* key has it in the entry of its MAC id (rtw_ap_set_pairwise_key, ap_free_sta,
\* set_stakey_hdl).
THEOREM PairwiseKept == KSpec => []PairwiseProgrammed
  <1>1. KeyInv => PairwiseProgrammed
    <2> SUFFICES ASSUME KeyInv, kRole = "ap", kQ = <<>>, NEW s \in KAddrs, HasKey(s)
                 PROVE  cam[rtw_get_camid(kSta[s].mac)] = Want(s)
      BY DEF PairwiseProgrammed, HasKey, Want
    <2>1. LastGives(s)
      BY DEF KeyInv
    <2> QED
      BY <2>1 DEF LastGives
  <1> QED
    BY <1>1, KeyInvInit, KeyInvStep, PTL DEF KSpec

-----------------------------------------------------------------------------
(***************************************************************************)
(* Radio.                                                                  *)
(*                                                                         *)
(* set_channel_bwmode and SelectChannel store a setting under setch_mutex  *)
(* and then run the callbacks that program it, so between the two the record*)
(* and the registers disagree.  The invariant says by how much: the thread *)
(* that holds the mutex has, in the steps it still has to do, the callback *)
(* for every part that does not agree; no other thread has callbacks to run.*)
(* When the mutex is free nothing is left to run, so everything agrees.    *)
(***************************************************************************)
\* The fields of rd the tuner and the MLME steer by.
RdFields ==
    {"chan", "bw", "sc40", "sc80", "bwInit", "band", "diff2", "diff5", "ofdm", "stopped",
     "hRfCh", "hFc", "hModAg", "hPower", "hBw", "hMode", "hRfBw", "hClk", "hSc", "hCckCheck",
     "hAgc", "hEnable", "hSwing", "curCh", "curBw", "curOff", "st", "idx"}

\* The record b differs from s, as far as the tuner is concerned, in the fields ch at most.
Kept(s, b, ch) == RdFields \subseteq DOMAIN b /\ \A f \in RdFields \ ch : b[f] = s[f]

\* What the channel callback, its switch of bands and the bandwidth callback write.
SwFields == {"band", "hCckCheck", "hAgc", "hEnable", "diff2", "diff5", "hSwing", "ofdm",
             "hRfCh", "hFc", "hModAg"}
BandFields == {"band", "hCckCheck", "hAgc", "hEnable", "diff2", "diff5", "hSwing", "ofdm"}
BwFields == {"hBw", "hSc", "hMode", "hClk", "hRfBw"}

\* The swing of a band by the card's EFUSE, and the difference the driver has on record for it.
SwingOf(b) == SwingOut(IF b = 2 THEN rdSet.sw.g2 ELSE rdSet.sw.g5)
DiffOf(s, b) == IF b = 2 THEN s.diff2 ELSE s.diff5
DiffsOK(s) == s.diff2 \in {0, SwingOf(2)} /\ s.diff5 \in {0, SwingOf(5)}

\* The registers of the band, and the swing, are those of the band on record.
BandAgrees(s) ==
    /\ s.band \in {2, 5} /\ s.hCckCheck = s.band /\ s.hAgc = s.band /\ s.hEnable = s.band
    /\ DiffOf(s, s.band) = SwingOf(s.band) /\ s.hSwing = SwingOf(s.band)
SwingAgrees(s) == s.ofdm = 24 + 2 * s.hSwing

\* The channel, the width and the power tables are those on record: what each of the three
\* steps of PHY_HandleSwChnlAndSetBW8812 makes true.
RfAgrees(s) ==
    s.hRfCh = s.chan /\ s.hFc = FcArea(s.chan) /\ s.hModAg = RfModAg(s.chan) /\ s.band = BandOf(s.chan)
BwAgrees(s) ==
    /\ s.hBw = s.bw /\ s.hMode = s.bw /\ s.hRfBw = s.bw /\ s.hClk = (s.bw = 80)
    /\ s.hSc = SecondaryChnl(s.bw, s.sc40, s.sc80)
PowerAgrees(s) == s.hPower = s.chan

\* The card and its EFUSE.
Sets == rdSet \in [chip : RdChips, sw : RdSwings]

\* The difference GetTxSwing keeps is the swing it programs, wherever it recognises the bits.
LEMMA Swings ==
  ASSUME Sets, NEW b \in {2, 5}
  PROVE  LET sw == IF b = 2 THEN rdSet.sw.g2 ELSE rdSet.sw.g5
         IN  /\ SwingOf(b) \in {0, -3} /\ SwingOf(b) = SwingOut(sw)
             /\ SwingBits(sw) \in {0, 1} => -3 * SwingBits(sw) = SwingOut(sw)
             /\ SwingBits(sw) \notin {0, 1} => SwingOut(sw) = 0
  BY DEF SwingOf, SwingOut

\* Switching the band programs its swing and moves the base index of the power tracking by the
\* difference, so an index that was right stays right (rtl8821au_phy_switch_wirelessband).
LEMMA BandSwitched ==
  ASSUME Sets, NEW s, RdFields \subseteq DOMAIN s, DiffsOK(s), NEW to \in {2, 5}
  PROVE  LET b == switch_wirelessband(s, to)
         IN  /\ Kept(s, b, BandFields) /\ DiffsOK(b) /\ BandAgrees(b) /\ b.band = to
             /\ BandAgrees(s) /\ SwingAgrees(s) => SwingAgrees(b)
  <1> DEFINE a == [s EXCEPT !.band = to, !.hCckCheck = to, !.hAgc = to, !.hEnable = to,
                            !.hPins = IF rdSet.chip = "8821" THEN to ELSE @]
             c == update_tx_basic_rate(a, to)
             e == GetTxSwing(c, to)
             b == SwingMove(e, s.band, to)
             other == IF to = 2 THEN 5 ELSE 2
  <1>1. /\ Kept(s, a, {"band", "hCckCheck", "hAgc", "hEnable"})
        /\ a.band = to /\ a.hCckCheck = to /\ a.hAgc = to /\ a.hEnable = to
    BY DEF Kept, RdFields
  <1> HIDE DEF a
  <1>2. Kept(a, c, {})
    <2> DEFINE d == [a EXCEPT !.rate = IF to = 2 /\ a.curCh <= 14 THEN "cck" ELSE "ofdm"]
               w == d.band = 2 \/ (to = 2 /\ a.curCh <= 14)
    <2>1. Kept(a, d, {})
      BY <1>1 DEF Kept, RdFields
    <2>2. c = [d EXCEPT !.hRrsr = w]
      BY DEF update_tx_basic_rate, BasicRate
    <2> HIDE DEF c, d, w
    <2> QED
      BY <2>1, <2>2 DEF Kept, RdFields
  <1> HIDE DEF c
  <1>3. Kept(s, c, {"band", "hCckCheck", "hAgc", "hEnable"})
        /\ c.band = to /\ c.hCckCheck = to /\ c.hAgc = to /\ c.hEnable = to
    BY <1>1, <1>2 DEF Kept, RdFields
  <1>4. /\ Kept(c, e, {"diff2", "diff5", "hSwing"})
        /\ DiffOf(e, to) = SwingOf(to) /\ e.hSwing = SwingOf(to) /\ DiffOf(e, other) = DiffOf(s, other)
    <2>1. c.diff2 = s.diff2 /\ c.diff5 = s.diff5
      BY <1>3 DEF Kept, RdFields
    <2>2. CASE to = 2
      <3> DEFINE n == SwingDiff(rdSet.sw.g2, c.diff2)
      <3>1. n = SwingOf(2)
        BY <2>1, Swings DEF DiffsOK, SwingDiff
      <3>2. e = [c EXCEPT !.diff2 = n, !.hSwing = SwingOut(rdSet.sw.g2)]
        BY <2>2 DEF GetTxSwing
      <3> DEFINE h == SwingOut(rdSet.sw.g2)
      <3>3. h = SwingOf(2)
        BY DEF SwingOf
      <3>4. e = [c EXCEPT !.diff2 = n, !.hSwing = h]
        BY <3>2
      <3> HIDE DEF n, e, h
      <3>5. /\ Kept(c, e, {"diff2", "diff5", "hSwing"})
            /\ e.diff2 = n /\ e.hSwing = h /\ e.diff5 = c.diff5
        BY <1>3, <3>4 DEF Kept, RdFields
      <3> QED
        BY <2>1, <2>2, <3>1, <3>3, <3>5 DEF DiffOf
    <2>3. CASE to = 5
      <3> DEFINE n == SwingDiff(rdSet.sw.g5, c.diff5)
      <3>1. n = SwingOf(5)
        BY <2>1, Swings DEF DiffsOK, SwingDiff
      <3>2. e = [c EXCEPT !.diff5 = n, !.hSwing = SwingOut(rdSet.sw.g5)]
        BY <2>3 DEF GetTxSwing
      <3> DEFINE h == SwingOut(rdSet.sw.g5)
      <3>3. h = SwingOf(5)
        BY DEF SwingOf
      <3>4. e = [c EXCEPT !.diff5 = n, !.hSwing = h]
        BY <3>2
      <3> HIDE DEF n, e, h
      <3>5. /\ Kept(c, e, {"diff2", "diff5", "hSwing"})
            /\ e.diff5 = n /\ e.hSwing = h /\ e.diff2 = c.diff2
        BY <1>3, <3>4 DEF Kept, RdFields
      <3> QED
        BY <2>1, <2>3, <3>1, <3>3, <3>5 DEF DiffOf
    <2> QED
      BY <2>2, <2>3
  <1> HIDE DEF e
  <1>5. /\ Kept(s, e, BandFields \ {"ofdm"}) /\ DiffsOK(e) /\ BandAgrees(e) /\ e.band = to
    BY <1>3, <1>4 DEF Kept, RdFields, BandFields, DiffsOK, DiffOf, BandAgrees
  <1>6. Kept(e, b, {"ofdm"})
    BY <1>5 DEF SwingMove, Kept, RdFields, BandFields
  <1>7. BandAgrees(s) /\ SwingAgrees(s) => SwingAgrees(b)
    <2> SUFFICES ASSUME BandAgrees(s), SwingAgrees(s) PROVE SwingAgrees(b)
      OBVIOUS
    <2>1. e.ofdm = 24 + 2 * SwingOf(s.band) /\ e.hSwing = SwingOf(to) /\ b.hSwing = e.hSwing
      BY <1>4, <1>5, <1>6 DEF Kept, RdFields, BandFields, BandAgrees, SwingAgrees
    <2>2. SwingOf(2) \in {0, -3} /\ SwingOf(5) \in {0, -3}
      BY Swings
    <2>3. CASE s.band = to
      BY <2>1, <2>3 DEF SwingMove, SwingAgrees
    <2>4. CASE s.band # to
      <3>1. s.band = other
        BY <2>4 DEF BandAgrees
      <3>2. DiffOf(e, s.band) = SwingOf(s.band) /\ DiffOf(e, to) = SwingOf(to)
        BY <1>4, <3>1 DEF BandAgrees
      <3>3. b.ofdm = e.ofdm + 2 * (DiffOf(e, to) - DiffOf(e, s.band))
        BY <1>5, <2>4, <3>1 DEF SwingMove, RdFields, DiffOf, Kept
      <3> QED
        BY <2>1, <2>2, <3>1, <3>2, <3>3 DEF SwingAgrees
    <2> QED
      BY <2>3, <2>4
  <1>8. b = switch_wirelessband(s, to)
    BY DEF switch_wirelessband, a, c, e
  <1> HIDE DEF b
  <1>9. Kept(s, b, BandFields) /\ DiffsOK(b) /\ BandAgrees(b) /\ b.band = to
    BY <1>5, <1>6 DEF Kept, RdFields, BandFields, DiffsOK, BandAgrees, DiffOf
  <1> QED
    BY <1>7, <1>8, <1>9

\* What every setting of the tuner has: the fields, and differences that are 0 or those of the card.
Tunable(s) == RdFields \subseteq DOMAIN s /\ DiffsOK(s)

\* Every channel is on one of the two bands.
LEMMA Bands == \A ch : BandOf(ch) \in {2, 5}
  BY DEF BandOf

\* The spur workaround touches the ADC clock only (rtl8812au_fixspur).
LEMMA Spur ==
  ASSUME NEW s, RdFields \subseteq DOMAIN s, NEW w, NEW ch
  PROVE  Kept(s, fixspur(s, w, ch), {})
  BY DEF fixspur, Kept, RdFields

\* The channel callback sets band and channel and leaves width and power (sw_chnl_callback).
LEMMA ChannelSwitched ==
  ASSUME Sets, NEW s, Tunable(s)
  PROVE  LET b == sw_chnl_callback(s)
         IN  /\ Kept(s, b, SwFields) /\ DiffsOK(b)
             /\ BandAgrees(s) => BandAgrees(b) /\ RfAgrees(b)
             /\ BandAgrees(s) /\ SwingAgrees(s) => SwingAgrees(b)
  <1> DEFINE p == phy_SwBand8812(s, s.chan)
             a == fixspur(p, s.bw, s.chan)
             b == sw_chnl_callback(s)
             to == BandOf(s.chan)
  <1>1. /\ Kept(s, p, BandFields) /\ DiffsOK(p)
        /\ BandAgrees(s) => BandAgrees(p) /\ p.band = to
        /\ BandAgrees(s) /\ SwingAgrees(s) => SwingAgrees(p)
    <2>1. CASE to = s.hCckCheck
      <3>1. p = s
        BY <2>1 DEF phy_SwBand8812
      <3> QED
        BY <2>1, <3>1 DEF Kept, Tunable, BandAgrees
    <2>2. CASE to # s.hCckCheck
      <3>1. p = switch_wirelessband(s, to)
        BY <2>2 DEF phy_SwBand8812
      <3> HIDE DEF p
      <3>2. to \in {2, 5}
        BY Bands
      <3> HIDE DEF to
      <3> QED
        BY <3>1, <3>2, BandSwitched DEF Tunable
    <2> QED
      BY <2>1, <2>2
  <1>2. b = [a EXCEPT !.hFc = FcArea(s.chan), !.hModAg = RfModAg(s.chan), !.hRfCh = s.chan]
    BY DEF sw_chnl_callback
  <1> HIDE DEF p, to
  <1>3. Kept(p, a, {})
    BY <1>1, Spur DEF Kept
  <1> HIDE DEF a, b
  <1>4. /\ Kept(a, b, {"hFc", "hModAg", "hRfCh"})
        /\ b.hFc = FcArea(s.chan) /\ b.hModAg = RfModAg(s.chan) /\ b.hRfCh = s.chan
    BY <1>2, <1>3 DEF Kept, RdFields
  <1>5. Kept(p, b, {"hFc", "hModAg", "hRfCh"})
    BY <1>3, <1>4 DEF Kept
  <1>6. Kept(s, b, SwFields) /\ b.chan = s.chan
    BY <1>1, <1>5 DEF Kept, RdFields, SwFields, BandFields
  <1>7. DiffsOK(b) /\ (BandAgrees(p) => BandAgrees(b)) /\ (SwingAgrees(p) => SwingAgrees(b))
        /\ b.band = p.band
    BY <1>1, <1>5 DEF Kept, RdFields, DiffsOK, BandAgrees, DiffOf, SwingAgrees
  <1>8. BandAgrees(s) => RfAgrees(b)
    BY <1>1, <1>4, <1>6, <1>7 DEF RfAgrees, to
  <1> QED
    BY <1>1, <1>6, <1>7, <1>8 DEF b

\* The bandwidth callback sets the width of the channel on record (set_bw_mode_callback).
LEMMA BandwidthSet ==
  ASSUME NEW s, RdFields \subseteq DOMAIN s
  PROVE  LET b == set_bw_mode_callback(s) IN Kept(s, b, BwFields) /\ BwAgrees(b)
  <1> DEFINE sc == SecondaryChnl(s.bw, s.sc40, s.sc80)
             sub == IF s.bw = 20 THEN s.hSub ELSE sc
             sys == IF s.bw = 40 THEN sc = 1 ELSE s.hCckSys
             wide == (s.bw = 80)
             a == [s EXCEPT !.hBw = s.bw, !.hSc = sc, !.hMode = s.bw, !.hAdc = 2,
                            !.hClk = wide, !.hRfBw = s.bw, !.hSub = sub, !.hCckSys = sys]
             b == fixspur(a, s.bw, s.chan)
  <1>1. b = set_bw_mode_callback(s)
    BY DEF set_bw_mode_callback
  <1>w. wide = (s.bw = 80)
    OBVIOUS
  <1>s. sc = SecondaryChnl(s.bw, s.sc40, s.sc80)
    OBVIOUS
  <1> HIDE DEF sc, sub, sys, wide
  <1>2. /\ Kept(s, a, BwFields) /\ a.hBw = s.bw /\ a.hSc = sc /\ a.hMode = s.bw /\ a.hClk = wide
        /\ a.hRfBw = s.bw
    BY DEF Kept, RdFields, BwFields
  <1> HIDE DEF a
  <1>3. Kept(a, b, {})
    BY <1>2, Spur DEF Kept
  <1> HIDE DEF b
  <1>4. Kept(s, b, BwFields)
    BY <1>2, <1>3 DEF Kept, RdFields
  <1>5. b.bw = s.bw /\ b.sc40 = s.sc40 /\ b.sc80 = s.sc80
    BY <1>4 DEF Kept, RdFields, BwFields
  <1>6. b.hBw = s.bw /\ b.hSc = sc /\ b.hMode = s.bw /\ b.hClk = wide /\ b.hRfBw = s.bw
    BY <1>2, <1>3 DEF Kept, RdFields
  <1>7. BwAgrees(b)
    BY <1>w, <1>s, <1>5, <1>6 DEF BwAgrees
  <1> QED
    BY <1>1, <1>4, <1>7

\* What a request stores before the callbacks run.
ChanFields == {"chan", "bw", "sc40", "sc80", "bwInit"}

\* Storing a request disagrees with the registers only in what it asks a callback for.
LEMMA SettingStored ==
  ASSUME NEW s, Tunable(s), NEW r
  PROVE  LET b == StoreSetting(s, r)
         IN  /\ Kept(s, b, ChanFields) /\ DiffsOK(b)
             /\ BandAgrees(s) => BandAgrees(b)
             /\ SwingAgrees(s) => SwingAgrees(b)
             /\ NeedsSw(s, r) => b.chan # 0
             /\ ~NeedsSw(s, r) => b.chan = s.chan
             /\ RfAgrees(s) /\ ~NeedsSw(s, r) => RfAgrees(b)
             /\ BwAgrees(s) /\ ~NeedsBw(s, r) => BwAgrees(b)
             /\ PowerAgrees(s) /\ ~NeedsSw(s, r) => PowerAgrees(b)
  <1> DEFINE a == IF NeedsSw(s, r) THEN [s EXCEPT !.chan = r.ch] ELSE s
             b == StoreSetting(s, r)
  <1>1. /\ Kept(s, a, {"chan"}) /\ (NeedsSw(s, r) => a.chan # 0)
        /\ (~NeedsSw(s, r) => a.chan = s.chan)
    BY DEF Tunable, Kept, RdFields, NeedsSw, HAL_IsLegalChannel
  <1>2. b = IF NeedsBw(s, r)
            THEN [a EXCEPT !.bw = r.w, !.sc40 = r.sc40, !.sc80 = r.sc80, !.bwInit = TRUE] ELSE a
    BY DEF StoreSetting
  <1> HIDE DEF a, b
  <1>3. /\ Kept(a, b, {"bw", "sc40", "sc80", "bwInit"})
        /\ (~NeedsBw(s, r) => b = a)
    BY <1>1, <1>2 DEF Kept, RdFields
  <1>4. Kept(s, b, ChanFields) /\ b.chan = a.chan
    BY <1>1, <1>3 DEF Kept, RdFields, ChanFields
  <1>5. DiffsOK(b) /\ (BandAgrees(s) => BandAgrees(b)) /\ (SwingAgrees(s) => SwingAgrees(b))
    BY <1>4 DEF Tunable, Kept, RdFields, ChanFields, DiffsOK, BandAgrees, DiffOf, SwingAgrees
  <1>6. ~NeedsSw(s, r) => (RfAgrees(s) => RfAgrees(b)) /\ (PowerAgrees(s) => PowerAgrees(b))
    BY <1>1, <1>4 DEF Kept, RdFields, ChanFields, RfAgrees, PowerAgrees
  <1>7. ~NeedsBw(s, r) => (BwAgrees(s) => BwAgrees(b))
    BY <1>1, <1>3 DEF Kept, RdFields, BwAgrees
  <1> QED
    BY <1>1, <1>4, <1>5, <1>6, <1>7 DEF b

\* The three together, and what a whole request may write.
AllAgree(s) == RfAgrees(s) /\ BwAgrees(s) /\ PowerAgrees(s)
TuneFields == SwFields \cup BwFields \cup ChanFields \cup {"hPower"}

\* Setting the power makes the tables agree with the channel.
LEMMA PowerSet ==
  ASSUME NEW s, RdFields \subseteq DOMAIN s
  PROVE  LET b == [s EXCEPT !.hPower = s.chan] IN Kept(s, b, {"hPower"}) /\ PowerAgrees(b)
  BY DEF Kept, RdFields, PowerAgrees

\* What leaves the band alone leaves the swing alone.
LEMMA KeptParts ==
  ASSUME NEW s, NEW b, Kept(s, b, BwFields \cup ChanFields \cup {"hPower"})
  PROVE  /\ DiffsOK(s) => DiffsOK(b)
         /\ BandAgrees(s) => BandAgrees(b)
         /\ SwingAgrees(s) => SwingAgrees(b)
  BY DEF Kept, RdFields, ChanFields, BwFields, DiffsOK, BandAgrees, DiffOf, SwingAgrees

\* A request carried out without interruption leaves the tuner set for what it has on record.
LEMMA Applied ==
  ASSUME Sets, NEW s, Tunable(s), NEW r
  PROVE  LET b == Apply(s, r)
         IN  /\ Kept(s, b, TuneFields) /\ DiffsOK(b)
             /\ s.chan # 0 => b.chan # 0
             /\ BandAgrees(s) => BandAgrees(b)
             /\ BandAgrees(s) /\ SwingAgrees(s) => SwingAgrees(b)
             /\ BandAgrees(s) /\ (AllAgree(s) \/ (NeedsSw(s, r) /\ NeedsBw(s, r))) => AllAgree(b)
             /\ NeedsSw(s, r) => b.chan # 0
  <1> DEFINE a == StoreSetting(s, r)
             c == IF NeedsSw(s, r) THEN sw_chnl_callback(a) ELSE a
             e == IF NeedsBw(s, r) THEN set_bw_mode_callback(c) ELSE c
             f == IF NeedsSw(s, r) \/ NeedsBw(s, r) THEN [e EXCEPT !.hPower = e.chan] ELSE e
             b == Apply(s, r)
  <1>1. CASE Refused(s, r)
    <2>1. b = s /\ ~NeedsSw(s, r)
      BY <1>1 DEF Apply, Refused, NeedsSw
    <2> HIDE DEF b
    <2> QED
      BY <2>1 DEF Tunable, Kept, b
  <1>2. CASE ~Refused(s, r)
    <2>0. b = f
      BY <1>2 DEF Apply
    <2> HIDE DEF b
    <2>1. /\ Kept(s, a, ChanFields) /\ DiffsOK(a)
          /\ BandAgrees(s) => BandAgrees(a)
          /\ SwingAgrees(s) => SwingAgrees(a)
          /\ NeedsSw(s, r) => a.chan # 0
          /\ ~NeedsSw(s, r) => a.chan = s.chan
          /\ RfAgrees(s) /\ ~NeedsSw(s, r) => RfAgrees(a)
          /\ BwAgrees(s) /\ ~NeedsBw(s, r) => BwAgrees(a)
          /\ PowerAgrees(s) /\ ~NeedsSw(s, r) => PowerAgrees(a)
      BY SettingStored
    <2> HIDE DEF a
    <2>2. /\ Kept(a, c, SwFields) /\ DiffsOK(c)
          /\ BandAgrees(a) => BandAgrees(c)
          /\ BandAgrees(a) /\ NeedsSw(s, r) => RfAgrees(c)
          /\ BandAgrees(a) /\ SwingAgrees(a) => SwingAgrees(c)
          /\ ~NeedsSw(s, r) => c = a
      <3>1. Tunable(a)
        BY <2>1 DEF Tunable, Kept
      <3>2. CASE NeedsSw(s, r)
        <4>1. c = sw_chnl_callback(a)
          BY <3>2
        <4> HIDE DEF c
        <4> QED
          BY <3>1, <3>2, <4>1, ChannelSwitched
      <3>3. CASE ~NeedsSw(s, r)
        <4>1. c = a
          BY <3>3
        <4> HIDE DEF c
        <4> QED
          BY <3>1, <3>3, <4>1 DEF Tunable, Kept
      <3> QED
        BY <3>2, <3>3
    <2> HIDE DEF c
    <2>3. /\ Kept(c, e, BwFields)
          /\ NeedsBw(s, r) => BwAgrees(e)
          /\ ~NeedsBw(s, r) => e = c
      <3>1. RdFields \subseteq DOMAIN c
        BY <2>2 DEF Kept
      <3>2. CASE NeedsBw(s, r)
        <4>1. e = set_bw_mode_callback(c)
          BY <3>2
        <4> HIDE DEF e
        <4> QED
          BY <3>1, <3>2, <4>1, BandwidthSet
      <3>3. CASE ~NeedsBw(s, r)
        <4>1. e = c
          BY <3>3
        <4> HIDE DEF e
        <4> QED
          BY <3>1, <3>3, <4>1 DEF Kept
      <3> QED
        BY <3>2, <3>3
    <2> HIDE DEF e
    <2>4. /\ Kept(e, f, {"hPower"})
          /\ NeedsSw(s, r) \/ NeedsBw(s, r) => PowerAgrees(f)
          /\ ~ (NeedsSw(s, r) \/ NeedsBw(s, r)) => f = e
      <3>1. RdFields \subseteq DOMAIN e
        BY <2>3 DEF Kept
      <3>2. CASE NeedsSw(s, r) \/ NeedsBw(s, r)
        <4>1. f = [e EXCEPT !.hPower = e.chan]
          BY <3>2
        <4> HIDE DEF f
        <4> QED
          BY <3>1, <3>2, <4>1, PowerSet
      <3>3. CASE ~ (NeedsSw(s, r) \/ NeedsBw(s, r))
        <4>1. f = e
          BY <3>3
        <4> HIDE DEF f
        <4> QED
          BY <3>1, <3>3, <4>1 DEF Kept
      <3> QED
        BY <3>2, <3>3
    <2> HIDE DEF f
    <2>5. Kept(c, f, BwFields \cup {"hPower"}) /\ Kept(a, f, SwFields \cup BwFields \cup {"hPower"})
          /\ Kept(s, f, TuneFields)
      BY <2>1, <2>2, <2>3, <2>4 DEF Kept, TuneFields
    <2>6. /\ DiffsOK(f) /\ f.chan = a.chan
          /\ BandAgrees(s) => BandAgrees(f)
          /\ BandAgrees(s) /\ SwingAgrees(s) => SwingAgrees(f)
      <3>1. Kept(c, f, BwFields \cup ChanFields \cup {"hPower"})
        BY <2>5 DEF Kept
      <3>2. f.chan = a.chan
        BY <2>5 DEF Kept, RdFields, SwFields, BwFields
      <3> QED
        BY <2>1, <2>2, <3>1, <3>2, KeptParts
    <2>7. ASSUME BandAgrees(s), AllAgree(s) \/ (NeedsSw(s, r) /\ NeedsBw(s, r)) PROVE RfAgrees(f)
      <3>1. RfAgrees(c)
        BY <2>1, <2>2, <2>7 DEF AllAgree
      <3> QED
        BY <2>5, <3>1 DEF RfAgrees, Kept, RdFields, BwFields
    <2>8. ASSUME BandAgrees(s), AllAgree(s) \/ (NeedsSw(s, r) /\ NeedsBw(s, r)) PROVE BwAgrees(f)
      <3>1. CASE NeedsBw(s, r)
        BY <2>3, <2>4, <3>1 DEF BwAgrees, Kept, RdFields
      <3>2. CASE ~NeedsBw(s, r)
        <4>1. BwAgrees(a)
          BY <2>1, <2>8, <3>2 DEF AllAgree
        <4>2. Kept(a, f, SwFields \cup {"hPower"})
          BY <2>2, <2>3, <2>4, <3>2 DEF Kept
        <4> QED
          BY <4>1, <4>2 DEF BwAgrees, Kept, RdFields, SwFields
      <3> QED
        BY <3>1, <3>2
    <2>9. ASSUME BandAgrees(s), AllAgree(s) \/ (NeedsSw(s, r) /\ NeedsBw(s, r)) PROVE PowerAgrees(f)
      <3>1. CASE NeedsSw(s, r) \/ NeedsBw(s, r)
        BY <2>4, <3>1
      <3>2. CASE ~ (NeedsSw(s, r) \/ NeedsBw(s, r))
        BY <2>1, <2>2, <2>3, <2>4, <2>9, <3>2 DEF AllAgree
      <3> QED
        BY <3>1, <3>2
    <2> QED
      BY <2>0, <2>1, <2>5, <2>6, <2>7, <2>8, <2>9 DEF AllAgree, b
  <1> QED
    BY <1>1, <1>2

\* A power cycle takes the registers and leaves what the driver has on record.
LEMMA BlankKeeps ==
  ASSUME NEW s, Tunable(s)
  PROVE  LET b == ForgetChannel(Blank(s))
         IN  /\ Tunable(b) /\ b.chan = 0
             /\ \A f \in {"bw", "sc40", "sc80", "bwInit", "diff2", "diff5", "stopped", "curCh",
                          "curBw", "curOff", "st", "idx"} : b[f] = s[f]
  <1> DEFINE a == Blank(s)
             b == ForgetChannel(a)
  <1>1. /\ RdFields \subseteq DOMAIN a
        /\ \A f \in {"bw", "sc40", "sc80", "bwInit", "diff2", "diff5", "stopped", "curCh",
                     "curBw", "curOff", "st", "idx"} : a[f] = s[f]
    <2>1. DOMAIN a = DOMAIN s
      BY DEF Blank
    <2>2. RdFields \subseteq DOMAIN s
      BY DEF Tunable
    <2>3. a.bw = s.bw /\ a.sc40 = s.sc40 /\ a.sc80 = s.sc80 /\ a.bwInit = s.bwInit
      BY <2>2 DEF Blank, RdFields
    <2>4. a.diff2 = s.diff2 /\ a.diff5 = s.diff5 /\ a.stopped = s.stopped /\ a.curCh = s.curCh
      BY <2>2 DEF Blank, RdFields
    <2>5. a.curBw = s.curBw /\ a.curOff = s.curOff /\ a.st = s.st /\ a.idx = s.idx
      BY <2>2 DEF Blank, RdFields
    <2> HIDE DEF a
    <2> QED
      BY <2>1, <2>2, <2>3, <2>4, <2>5
  <1> HIDE DEF a
  <1>2. /\ RdFields \subseteq DOMAIN b /\ b.chan = 0
        /\ \A f \in {"bw", "sc40", "sc80", "bwInit", "diff2", "diff5", "stopped", "curCh",
                     "curBw", "curOff", "st", "idx"} : b[f] = a[f]
    BY <1>1 DEF ForgetChannel, RdFields
  <1> HIDE DEF b
  <1>3. Tunable(b)
    BY <1>1, <1>2 DEF Tunable, DiffsOK
  <1> QED
    BY <1>1, <1>2, <1>3 DEF a, b

\* After rtl8821au_hw_init the tuner is set for what the driver has on record, and the base
\* index of the power tracking is that of the swing programmed.
LEMMA BroughtUp ==
  ASSUME Sets, NEW s, Tunable(s)
  PROVE  LET b == hw_init_tune(s)
         IN  /\ Tunable(b) /\ b.chan # 0 /\ BandAgrees(b) /\ SwingAgrees(b) /\ AllAgree(b)
             /\ \A f \in {"curCh", "curBw", "curOff", "st", "idx"} : b[f] = s[f]
  <1> DEFINE k == {"curCh", "curBw", "curOff", "st", "idx"}
             z == ForgetChannel(Blank(s))
             a == switch_wirelessband(z, BandOf(Registry))
             r == set_channel_bwmode(Registry, 0, 20)
             c == Apply(a, r)
             e == [c EXCEPT !.ofdm = 24 + 2 * c.hSwing, !.ig = 32]
             b == Apply(e, set_channel_bwmode(s.curCh, s.curOff, s.curBw))
  <1>1. Tunable(z) /\ z.chan = 0 /\ \A f \in k : z[f] = s[f]
    BY BlankKeeps
  <1> HIDE DEF z
  <1>2. Tunable(a) /\ BandAgrees(a) /\ a.chan = 0 /\ \A f \in k : a[f] = s[f]
    <2>1. BandOf(Registry) \in {2, 5}
      BY Bands
    <2>2. Kept(z, a, BandFields) /\ DiffsOK(a) /\ BandAgrees(a)
      BY <1>1, <2>1, BandSwitched DEF Tunable
    <2> HIDE DEF a
    <2> QED
      BY <1>1, <2>2 DEF Tunable, Kept, RdFields, BandFields
  <1> HIDE DEF a
  <1>3. NeedsSw(a, r) /\ NeedsBw(a, r)
    <2>1. r.op = "chan" /\ r.ch = Registry /\ Registry # 0
      BY RdAssumption DEF set_channel_bwmode, rtw_get_center_ch
    <2> HIDE DEF r
    <2> QED
      BY <1>2, <2>1 DEF NeedsSw, NeedsBw, HAL_IsLegalChannel
  <1> HIDE DEF r
  <1>4. Tunable(c) /\ BandAgrees(c) /\ c.chan # 0 /\ AllAgree(c) /\ \A f \in k : c[f] = s[f]
    <2>1. Kept(a, c, TuneFields) /\ DiffsOK(c) /\ BandAgrees(c) /\ c.chan # 0 /\ AllAgree(c)
      BY <1>2, <1>3, Applied
    <2> HIDE DEF c
    <2> QED
      BY <1>2, <2>1 DEF Tunable, Kept, RdFields, TuneFields, SwFields, BwFields, ChanFields
  <1> HIDE DEF c
  <1>5. Kept(c, e, {"ofdm"}) /\ e.ofdm = 24 + 2 * e.hSwing
    BY <1>4 DEF Tunable, Kept, RdFields
  <1> HIDE DEF e
  <1>6. Tunable(e) /\ BandAgrees(e) /\ e.chan # 0 /\ AllAgree(e) /\ SwingAgrees(e)
    BY <1>4, <1>5 DEF Tunable, DiffsOK, Kept, RdFields, BandAgrees, DiffOf, SwingAgrees, AllAgree,
       RfAgrees, BwAgrees, PowerAgrees
  <1>7. \A f \in k : e[f] = s[f]
    BY <1>4, <1>5 DEF Kept, RdFields
  <1>8. Kept(e, b, TuneFields) /\ DiffsOK(b) /\ BandAgrees(b) /\ SwingAgrees(b) /\ b.chan # 0 /\ AllAgree(b)
    BY <1>6, Applied
  <1>9. b = hw_init_tune(s)
    BY DEF hw_init_tune, z, a, c, e, r
  <1> HIDE DEF b
  <1>10. Tunable(b) /\ \A f \in k : b[f] = s[f]
    BY <1>7, <1>8 DEF Tunable, Kept, RdFields, TuneFields, SwFields, BwFields, ChanFields
  <1> QED
    BY <1>8, <1>9, <1>10

\* The steps of the threads: those any handler may leave to do (FreeStep), and those the mutex
\* covers (TuneStep, and its release).
StSet == {"null", "auth", "assoc", "sta", "ap"}
ChanStep == [op : {"chan"}, ch : Nat, w : Nat, sc40 : Nat, sc80 : Nat]
CurStep == [op : {"cur"}, ch : Nat, w : Nat, off : Nat]
FreeStep ==
    [op : {"disconnect", "surveyOn", "surveyOff", "bcnOff", "mode"}]
    \cup [op : {"join", "gain"}, v : Nat] \cup [op : {"msr", "nettype"}, v : {"none", "sta", "ap"}]
    \cup [op : {"state"}, v : StSet] \cup [op : {"rates"}, v : BOOLEAN]
    \cup CurStep \cup ChanStep \cup [op : {"sel"}, ch : Nat]
TuneStep == [op : {"sw", "bw", "power"}]
LockStep == TuneStep \cup [op : {"unlock"}]

\* The commands and events on the queue.
CmdSet ==
    [op : {"survey", "disconnect", "stadel"}] \cup [op : {"join"}, v : RdNets]
    \cup [op : {"joined"}, v : BOOLEAN] \cup [op : {"opmode"}, v : {"sta", "ap"}]

\* The MLME's part of rd.
MlmeFields == {"st", "curCh", "curBw", "curOff", "idx"}
MlmeOK(s) == /\ s.st \in StSet /\ s.curCh \in Nat /\ s.curBw \in Nat
             /\ s.curOff \in Nat /\ s.idx \in Nat \ {0}

\* Types; a card whose driver runs has been tuned.
RdTypeOK ==
    /\ Sets /\ Tunable(rd) /\ MlmeOK(rd) /\ rdTorn \in BOOLEAN
    /\ rdTodo \in [RdThreads -> Seq(FreeStep \cup LockStep)] /\ rdQ \in Seq(CmdSet)
    /\ rd.chan = 0 => rd.stopped

\* Whatever else is under way, the band and its swing agree: a switch of bands is one step.
BandOK == rd.chan # 0 => BandAgrees(rd) /\ SwingAgrees(rd)

\* The list of the thread that holds setch_mutex: callbacks, the release, and then steps that
\* need no mutex.
Holding(q) ==
    \E n \in 1 .. Len(q) :
        /\ q[n].op = "unlock" /\ \A i \in 1 .. n - 1 : q[i].op \in {"sw", "bw", "power"}
        /\ \A i \in n + 1 .. Len(q) : q[i] \in FreeStep

\* The holder of the mutex, by its list, has still to run the callback op.
Awaits(l, q, op) == \E t \in RdThreads : l = t /\ \E i \in 1 .. Len(q[t]) : q[t][i].op = op

\* What the mutex is for: only its holder has callbacks to run, and whatever does not agree with
\* the driver's record is among those the holder has still to run.
LockRight(s, l, q) ==
    /\ l \in RdThreads \cup {"free"}
    /\ \A t \in RdThreads : /\ l = t => Holding(q[t])
                            /\ l # t => q[t] \in Seq(FreeStep)
    /\ s.chan # 0 => /\ RfAgrees(s) \/ Awaits(l, q, "sw")
                     /\ BwAgrees(s) \/ Awaits(l, q, "bw")
                     /\ PowerAgrees(s) \/ Awaits(l, q, "power")

\* That, of the present state.
LockOK == LockRight(rd, rdLock, rdTodo)

\* The inductive invariant.  A process that went on without the mutex voids the account of the
\* mutex, not the band and its swing.
RdInv == RdTypeOK /\ BandOK /\ (~rdTorn => LockOK)

\* The MLME and the stop of the driver do not touch the tuner.
LEMMA Carried ==
  ASSUME NEW s, NEW b, Kept(s, b, MlmeFields \cup {"stopped"})
  PROVE  /\ Tunable(s) => Tunable(b)
         /\ b.chan = s.chan
         /\ BandAgrees(s) => BandAgrees(b)
         /\ SwingAgrees(s) => SwingAgrees(b)
         /\ RfAgrees(s) => RfAgrees(b)
         /\ BwAgrees(s) => BwAgrees(b)
         /\ PowerAgrees(s) => PowerAgrees(b)
  <1>1. /\ \A f \in {"chan", "bw", "sc40", "sc80", "bwInit", "band", "diff2", "diff5", "ofdm",
                     "hRfCh", "hFc", "hModAg", "hPower", "hBw", "hMode", "hRfBw", "hClk", "hSc",
                     "hCckCheck", "hAgc", "hEnable", "hSwing"} : b[f] = s[f]
        /\ RdFields \subseteq DOMAIN b
    BY DEF Kept, RdFields, MlmeFields
  <1>2. Tunable(s) => Tunable(b)
    BY <1>1 DEF Tunable, DiffsOK
  <1>3. (BandAgrees(s) => BandAgrees(b)) /\ (SwingAgrees(s) => SwingAgrees(b))
    BY <1>1 DEF BandAgrees, DiffOf, SwingAgrees
  <1>4. (RfAgrees(s) => RfAgrees(b)) /\ (PowerAgrees(s) => PowerAgrees(b))
    BY <1>1 DEF RfAgrees, PowerAgrees
  <1>5. BwAgrees(s) => BwAgrees(b)
    BY <1>1 DEF BwAgrees
  <1> QED
    BY <1>1, <1>2, <1>3, <1>4, <1>5

\* The requests are steps (set_channel_bwmode, SelectChannel).
LEMMA Centre ==
  ASSUME NEW ch \in Nat, NEW w \in Nat, NEW off \in Nat
  PROVE  set_channel_bwmode(ch, off, w) \in ChanStep /\ SelectChannel(ch) \in FreeStep
  <1>1. \A p \in Center80 : p[2] \in Nat
    BY DEF Center80
  <1>3. (\E p \in Center80 : ch \in p[1]) => (CHOOSE p \in Center80 : ch \in p[1]) \in Center80
    OBVIOUS
  <1>4. (ch + 254) % 256 \in Nat
    OBVIOUS
  <1>5. rtw_get_center_ch(ch, w, off) \in Nat
    BY <1>1, <1>3, <1>4 DEF rtw_get_center_ch
  <1>6. Offset80(ch, w, off) \in Nat
    BY DEF Offset80
  <1> QED
    BY <1>5, <1>6 DEF set_channel_bwmode, SelectChannel, ChanStep, FreeStep

\* A step outside the mutex writes the receive filters and the MLME's part only.
LEMMA FreeEffect ==
  ASSUME NEW s, RdFields \subseteq DOMAIN s, MlmeOK(s), NEW x \in FreeStep, x.op \notin {"chan", "sel"}
  PROVE  Kept(s, Effect(s, x), MlmeFields) /\ MlmeOK(Effect(s, x))
  <1> DEFINE b == Effect(s, x)
  <1>0. ASSUME NEW a, Kept(s, a, {}) PROVE Kept(s, a, MlmeFields) /\ MlmeOK(a)
    BY <1>0 DEF Kept, RdFields, MlmeFields, MlmeOK
  <1>1. CASE x.op = "join"
    <2>1. b = HwJoin(s, x.v)
      BY <1>1 DEF Effect
    <2>2. Kept(s, b, {})
      BY <2>1 DEF HwJoin, Kept, RdFields
    <2> QED
      BY <1>0, <2>2
  <1>2. CASE x.op = "disconnect"
    <2>1. b = HwDisconnect(s)
      BY <1>2 DEF Effect
    <2>2. Kept(s, b, {})
      BY <2>1 DEF HwDisconnect, Kept, RdFields
    <2> QED
      BY <1>0, <2>2
  <1>3. CASE x.op = "surveyOn"
    <2> DEFINE a == HwSurveyOn(s)
    <2>1. b = [a EXCEPT !.sv = "process"]
      BY <1>3 DEF Effect
    <2>2. Kept(s, a, {})
      BY DEF HwSurveyOn, Kept, RdFields
    <2> HIDE DEF a
    <2>3. Kept(s, b, {})
      BY <2>1, <2>2 DEF Kept, RdFields
    <2> QED
      BY <1>0, <2>3
  <1>4. CASE x.op = "surveyOff"
    <2> DEFINE a == HwSurveyOff(s)
    <2>1. b = [a EXCEPT !.sv = "disable", !.under = FALSE]
      BY <1>4 DEF Effect
    <2>2. Kept(s, a, {})
      BY DEF HwSurveyOff, Kept, RdFields
    <2> HIDE DEF a
    <2>3. Kept(s, b, {})
      BY <2>1, <2>2 DEF Kept, RdFields
    <2> QED
      BY <1>0, <2>3
  <1>5. CASE x.op = "gain"
    <2>1. b = HwGain(s, x.v)
      BY <1>5 DEF Effect
    <2>2. Kept(s, b, {})
      BY <2>1 DEF HwGain, Kept, RdFields
    <2> QED
      BY <1>0, <2>2
  <1>6. CASE x.op = "msr"
    <2>1. b = [s EXCEPT !.hMsr = x.v]
      BY <1>6 DEF Effect
    <2> QED
      BY <1>0, <2>1 DEF Kept, RdFields
  <1>7. CASE x.op = "nettype"
    <2>1. b = set_network_type(s, x.v)
      BY <1>7 DEF Effect
    <2>2. Kept(s, b, {})
      BY <2>1 DEF set_network_type, Kept, RdFields
    <2> QED
      BY <1>0, <2>2
  <1>8. CASE x.op = "bcnOff"
    <2>1. b = [s EXCEPT !.hBcn = FALSE]
      BY <1>8 DEF Effect
    <2> QED
      BY <1>0, <2>1 DEF Kept, RdFields
  <1>9. CASE x.op = "rates"
    <2>1. b = BasicRate(s, x.v)
      BY <1>9 DEF Effect
    <2>2. b = [s EXCEPT !.hRrsr = s.band = 2 \/ x.v]
      BY <2>1 DEF BasicRate
    <2> QED
      BY <1>0, <2>2 DEF Kept, RdFields
  <1>10. CASE x.op = "mode"
    <2>1. b = update_wireless_mode(s)
      BY <1>10 DEF Effect
    <2> QED
      BY <1>0, <2>1 DEF update_wireless_mode, Kept, RdFields
  <1>11. CASE x.op = "state"
    <2>1. b = [s EXCEPT !.st = x.v] /\ x.v \in StSet
      BY <1>11 DEF Effect, FreeStep, CurStep, ChanStep
    <2> QED
      BY <2>1 DEF Kept, RdFields, MlmeFields, MlmeOK
  <1>12. CASE x.op = "cur"
    <2>1. b = [s EXCEPT !.curCh = x.ch, !.curBw = x.w, !.curOff = x.off]
      BY <1>12 DEF Effect
    <2>2. x.ch \in Nat /\ x.w \in Nat /\ x.off \in Nat
      BY <1>12 DEF FreeStep, CurStep, ChanStep
    <2> QED
      BY <2>1, <2>2 DEF Kept, RdFields, MlmeFields, MlmeOK
  <1> QED
    BY <1>1, <1>2, <1>3, <1>4, <1>5, <1>6, <1>7, <1>8, <1>9, <1>10, <1>11, <1>12
       DEF FreeStep, CurStep, ChanStep

\* Two lists of such steps make one.
LEMMA Joined ==
  ASSUME NEW p \in Seq(FreeStep), NEW q \in Seq(FreeStep)
  PROVE  p \o q \in Seq(FreeStep)
  BY ConcatProperties

\* The steps the handlers are made of.
LEMMA SimpleSteps ==
  /\ \A op \in {"disconnect", "surveyOn", "surveyOff", "bcnOff", "mode"} : Step(op) \in FreeStep
  /\ \A v \in Nat : Val("join", v) \in FreeStep /\ Val("gain", v) \in FreeStep
  /\ \A v \in {"none", "sta", "ap"} : Val("msr", v) \in FreeStep /\ Val("nettype", v) \in FreeStep
  /\ \A v \in StSet : Val("state", v) \in FreeStep
  /\ \A v \in BOOLEAN : Val("rates", v) \in FreeStep
  /\ \A ch, w, off \in Nat : [op |-> "cur", ch |-> ch, w |-> w, off |-> off] \in FreeStep
  /\ \A ch, off, w \in Nat : set_channel_bwmode(ch, off, w) \in FreeStep
  /\ \A ch \in Nat : SelectChannel(ch) \in FreeStep
  <1>1. \A ch, off, w \in Nat : set_channel_bwmode(ch, off, w) \in FreeStep
    BY Centre DEF FreeStep
  <1>2. \A ch \in Nat : SelectChannel(ch) \in FreeStep
    BY DEF SelectChannel, FreeStep
  <1>3. \A v \in Nat : Val("join", v) \in FreeStep /\ Val("gain", v) \in FreeStep
    BY DEF Val, FreeStep
  <1>4. \A v \in {"none", "sta", "ap"} : Val("msr", v) \in FreeStep /\ Val("nettype", v) \in FreeStep
    BY DEF Val, FreeStep
  <1>5. (\A v \in StSet : Val("state", v) \in FreeStep) /\ (\A v \in BOOLEAN : Val("rates", v) \in FreeStep)
    BY DEF Val, FreeStep
  <1>6. \A ch, w, off \in Nat : [op |-> "cur", ch |-> ch, w |-> w, off |-> off] \in FreeStep
    BY DEF FreeStep, CurStep
  <1>7. \A op \in {"disconnect", "surveyOn", "surveyOff", "bcnOff", "mode"} : Step(op) \in FreeStep
    BY DEF Step, FreeStep
  <1> QED
    BY <1>1, <1>2, <1>3, <1>4, <1>5, <1>6, <1>7

\* What sitesurvey_cmd_hdl leaves to do.
LEMMA SurveySteps ==
  ASSUME NEW s, RdFields \subseteq DOMAIN s, MlmeOK(s)
  PROVE  sitesurvey_cmd_hdl(s) \in Seq(FreeStep)
  <1> DEFINE a == [s EXCEPT !.idx = IF s.sv = "disable" THEN 1 ELSE @]
             on == IF s.sv \in {"disable", "txnull"}
                   THEN <<Val("gain", 30), Val("msr", "none"), Step("surveyOn")>> ELSE <<>>
  <1>1. a.idx \in Nat \ {0} /\ a.st = s.st
    BY DEF MlmeOK, RdFields
  <1> HIDE DEF a
  <1>2. on \in Seq(FreeStep)
    BY SimpleSteps
  <1>3. site_survey(a) \in Seq(FreeStep)
    <2>1. CASE a.idx <= Len(RdScan)
      <3>1. RdScan[1] \in Nat /\ RdScan[a.idx] \in Nat
        <4>1. RdScan \in Seq(1 .. 177) /\ Len(RdScan) \in Nat
          BY RdAssumption
        <4>2. 1 \in 1 .. Len(RdScan) /\ a.idx \in 1 .. Len(RdScan)
          BY <1>1, <2>1, <4>1
        <4>3. RdScan[1] \in 1 .. 177 /\ RdScan[a.idx] \in 1 .. 177
          BY <4>1, <4>2, ElementOfSeq
        <4> QED
          BY <4>3
      <3>2. set_channel_bwmode(RdScan[1], 0, 20) \in FreeStep /\ SelectChannel(RdScan[a.idx]) \in FreeStep
        BY <3>1, SimpleSteps
      <3> QED
        BY <2>1, <3>2 DEF site_survey
    <2>2. CASE ~ (a.idx <= Len(RdScan))
      <3>1. MsrOf(a.st) \in {"none", "sta", "ap"}
        BY DEF MsrOf
      <3>2. Val("msr", MsrOf(a.st)) \in FreeStep /\ Val("gain", 255) \in FreeStep
            /\ Step("surveyOff") \in FreeStep
        BY <3>1, SimpleSteps
      <3> QED
        BY <2>2, <3>2 DEF site_survey
    <2> QED
      BY <2>1, <2>2
  <1> HIDE DEF on
  <1>4. on \o site_survey(a) \in Seq(FreeStep)
    BY <1>2, <1>3, Joined
  <1>5. sitesurvey_cmd_hdl(s) = IF s.sv = "disable" /\ s.st = "assoc" THEN <<>> ELSE on \o site_survey(a)
    BY DEF sitesurvey_cmd_hdl, on, a
  <1> QED
    BY <1>4, <1>5

\* What join_cmd_hdl leaves to do.
LEMMA JoinSteps ==
  ASSUME NEW s, MlmeOK(s), NEW n \in RdNets
  PROVE  join_cmd_hdl(s, n) \in Seq(FreeStep)
  <1> DEFINE w == JoinWidth(n)
             off == JoinOffset(n)
             drop == IF s.st = "assoc"
                     THEN <<Val("state", "null"), Val("msr", "sta"), Step("disconnect")>> ELSE <<>>
             go == <<[op |-> "cur", ch |-> s.curCh, w |-> w, off |-> off],
                     Val("join", 0),
                     [op |-> "cur", ch |-> n.ch, w |-> w, off |-> off],
                     set_channel_bwmode(n.ch, off, w),
                     Step("mode"), Val("msr", "sta"), Val("state", "auth")>>
  <1>1. join_cmd_hdl(s, n) = drop \o go
    BY DEF join_cmd_hdl
  <1>2. w \in Nat /\ off \in Nat /\ n.ch \in Nat /\ s.curCh \in Nat
    <2>1. n \in [ch : 1 .. 177, ht : -1 .. 2, vht : BOOLEAN]
      BY RdAssumption
    <2>2. n.ch \in Nat
      BY <2>1
    <2>3. w \in Nat /\ off \in Nat
      BY DEF JoinWidth, JoinOffset
    <2> QED
      BY <2>2, <2>3 DEF MlmeOK
  <1> HIDE DEF w, off
  <1>3. Val("state", "null") \in FreeStep /\ Val("state", "auth") \in FreeStep
        /\ Val("msr", "sta") \in FreeStep /\ Step("disconnect") \in FreeStep
        /\ Step("mode") \in FreeStep /\ Val("join", 0) \in FreeStep
    BY SimpleSteps DEF StSet
  <1>4. drop \in Seq(FreeStep)
    BY <1>3
  <1>5. go \in Seq(FreeStep)
    <2>1. [op |-> "cur", ch |-> s.curCh, w |-> w, off |-> off] \in FreeStep
          /\ [op |-> "cur", ch |-> n.ch, w |-> w, off |-> off] \in FreeStep
          /\ set_channel_bwmode(n.ch, off, w) \in FreeStep
      BY <1>2, SimpleSteps
    <2> QED
      BY <1>3, <2>1
  <1> HIDE DEF drop, go
  <1> QED
    BY <1>1, <1>4, <1>5, Joined

\* What disconnect_hdl and mlmeext_sta_del_event_callback leave to do.
LEMMA DisconnectSteps ==
  ASSUME NEW s, MlmeOK(s)
  PROVE  disconnect_hdl(s) \in Seq(FreeStep) /\ sta_del_event_callback(s) \in Seq(FreeStep)
  <1>1. Val("state", "null") \in FreeStep /\ Step("bcnOff") \in FreeStep
        /\ Val("msr", "sta") \in FreeStep /\ Step("disconnect") \in FreeStep
    BY SimpleSteps DEF StSet
  <1>2. [op |-> "cur", ch |-> s.curCh, w |-> 20, off |-> 0] \in FreeStep
        /\ set_channel_bwmode(s.curCh, 0, 20) \in FreeStep
    BY SimpleSteps DEF MlmeOK
  <1>3. sta_del_event_callback(s) \in Seq(FreeStep)
    BY <1>1, <1>2 DEF sta_del_event_callback
  <1> DEFINE off == IF s.st = "ap" THEN <<Step("bcnOff")>> ELSE <<>>
             go == <<Val("msr", "sta"), Val("state", "null"),
                     [op |-> "cur", ch |-> s.curCh, w |-> 20, off |-> 0],
                     set_channel_bwmode(s.curCh, 0, 20)>>
  <1>4. off \in Seq(FreeStep) /\ go \in Seq(FreeStep) /\ <<Step("disconnect")>> \in Seq(FreeStep)
    BY <1>1, <1>2
  <1>5. disconnect_hdl(s) = <<Step("disconnect")>> \o off \o go
    BY DEF disconnect_hdl
  <1> HIDE DEF off, go
  <1> QED
    BY <1>3, <1>4, <1>5, Joined

\* What any command or event leaves to do.
LEMMA HandlerSteps ==
  ASSUME RdFields \subseteq DOMAIN rd, MlmeOK(rd), NEW c \in CmdSet
  PROVE  Handler(c) \in Seq(FreeStep)
  <1>1. CASE c.op = "survey"
    BY <1>1, SurveySteps DEF Handler
  <1>2. CASE c.op = "join"
    <2>1. c.v \in RdNets
      BY <1>2 DEF CmdSet
    <2> QED
      BY <1>2, <2>1, JoinSteps DEF Handler
  <1>3. CASE c.op = "disconnect"
    BY <1>3, DisconnectSteps DEF Handler
  <1>4. CASE c.op = "stadel"
    BY <1>4, DisconnectSteps DEF Handler
  <1>5. CASE c.op = "joined"
    <2>1. Handler(c) = joinbss_event_callback(rd, c.v)
      BY <1>5 DEF Handler
    <2>2. Val("join", 2) \in FreeStep /\ Val("join", 1) \in FreeStep
      BY SimpleSteps
    <2> DEFINE cck == rd.curCh <= 14
    <2>3. Val("rates", cck) \in FreeStep
      <3>1. cck \in BOOLEAN
        OBVIOUS
      <3> HIDE DEF cck
      <3> QED
        BY <3>1, SimpleSteps
    <2> QED
      BY <2>1, <2>2, <2>3 DEF joinbss_event_callback
  <1>6. CASE c.op = "opmode"
    <2>1. Handler(c) = setopmode_hdl(rd, c.v) /\ c.v \in {"sta", "ap"}
      BY <1>6 DEF Handler, CmdSet
    <2> DEFINE st == IF c.v = "ap" THEN "ap" ELSE IF rd.st \in {"null", "ap", "sta"} THEN "sta" ELSE rd.st
    <2>2. st \in StSet
      BY DEF StSet, MlmeOK
    <2>3. Handler(c) = <<Val("state", st), Val("nettype", c.v)>>
      BY <2>1 DEF setopmode_hdl
    <2> HIDE DEF st
    <2> QED
      BY <2>1, <2>2, <2>3, SimpleSteps
  <1> QED
    BY <1>1, <1>2, <1>3, <1>4, <1>5, <1>6 DEF CmdSet

\* What start_bss_network leaves to do.
LEMMA BssSteps ==
  ASSUME NEW ch \in RdApCh, NEW n \in RdNets
  PROVE  start_bss_network(ch, n) \in Seq(FreeStep)
  <1> DEFINE w == IF n.vht THEN 80 ELSE IF n.ht = -1 THEN 20 ELSE 40
             off == JoinOffset(n)
  <1>1. w \in Nat /\ off \in Nat /\ ch \in Nat
    BY RdAssumption DEF JoinOffset
  <1>2. start_bss_network(ch, n) =
          <<Val("msr", "ap"), set_channel_bwmode(ch, off, w),
            [op |-> "cur", ch |-> ch, w |-> w, off |-> off],
            Step("mode"), Val("rates", ch <= 14)>>
    BY DEF start_bss_network
  <1> HIDE DEF w, off
  <1>3. set_channel_bwmode(ch, off, w) \in FreeStep
        /\ [op |-> "cur", ch |-> ch, w |-> w, off |-> off] \in FreeStep
    BY <1>1, SimpleSteps
  <1> DEFINE cck == ch <= 14
  <1>4. Val("msr", "ap") \in FreeStep /\ Step("mode") \in FreeStep /\ Val("rates", cck) \in FreeStep
    <2>1. cck \in BOOLEAN
      OBVIOUS
    <2> HIDE DEF cck
    <2> QED
      BY <2>1, SimpleSteps
  <1> QED
    BY <1>2, <1>3, <1>4

\* A sequence over a set is one over a larger set.
LEMMA Wider ==
  ASSUME NEW S, NEW T, NEW q \in Seq(S)
  PROVE  q \in Seq(S \cup T)
  <1>1. q \in [1 .. Len(q) -> S] /\ Len(q) \in Nat
    OBVIOUS
  <1>2. q \in [1 .. Len(q) -> S \cup T]
    BY <1>1
  <1> QED
    BY <1>1, <1>2

\* The holder of the mutex has something to do.
LEMMA HoldingFull == \A q : Holding(q) => q # <<>>
  BY DEF Holding

\* The account of the mutex, from its parts.
LEMMA LockMade ==
  ASSUME NEW s, NEW l \in RdThreads \cup {"free"}, NEW q,
         \A t \in RdThreads : l = t => Holding(q[t]),
         \A t \in RdThreads : l # t => q[t] \in Seq(FreeStep),
         s.chan # 0 => RfAgrees(s) \/ Awaits(l, q, "sw"),
         s.chan # 0 => BwAgrees(s) \/ Awaits(l, q, "bw"),
         s.chan # 0 => PowerAgrees(s) \/ Awaits(l, q, "power")
  PROVE  LockRight(s, l, q)
  BY DEF LockRight

\* A step of the MLME, or one that gives an idle thread steps outside the mutex, keeps the
\* invariant: the holder's list and the tuner are left alone.
LEMMA Elsewhere ==
  ASSUME RdInv, Kept(rd, rd', MlmeFields \cup {"stopped"}), MlmeOK(rd'),
         rd.chan = 0 => rd'.stopped, rdQ' \in Seq(CmdSet),
         rdTodo' \in [RdThreads -> Seq(FreeStep \cup LockStep)],
         \A t \in RdThreads : \/ rdTodo'[t] = rdTodo[t]
                              \/ rdTodo[t] = <<>> /\ rdTodo'[t] \in Seq(FreeStep),
         UNCHANGED <<rdSet, rdLock, rdTorn>>
  PROVE  RdInv'
  <1>1. /\ Tunable(rd') /\ rd'.chan = rd.chan
        /\ BandAgrees(rd) => BandAgrees(rd')
        /\ SwingAgrees(rd) => SwingAgrees(rd')
        /\ RfAgrees(rd) => RfAgrees(rd')
        /\ BwAgrees(rd) => BwAgrees(rd')
        /\ PowerAgrees(rd) => PowerAgrees(rd')
    BY Carried DEF RdInv, RdTypeOK
  <1>2. (Tunable(rd) => Tunable(rd)') /\ (BandAgrees(rd) => BandAgrees(rd)')
    BY <1>1 DEF Tunable, DiffsOK, SwingOf, BandAgrees, DiffOf
  <1>3. RdTypeOK'
    BY <1>1, <1>2 DEF RdInv, RdTypeOK, Sets, MlmeOK
  <1>4. BandOK'
    BY <1>1, <1>2 DEF RdInv, BandOK, SwingAgrees
  <1>5. ASSUME ~rdTorn PROVE LockOK'
    <2>1. LockOK /\ rdLock' = rdLock
      BY <1>5 DEF RdInv
    <2>2. \A t \in RdThreads : rdLock = t => Holding(rdTodo[t]) /\ rdTodo'[t] = rdTodo[t]
      BY <2>1, HoldingFull DEF LockOK, LockRight
    <2>3. \A t \in RdThreads : rdLock # t => rdTodo'[t] \in Seq(FreeStep)
      BY <2>1 DEF LockOK, LockRight
    <2>4. \A op : Awaits(rdLock, rdTodo, op) => Awaits(rdLock', rdTodo', op)
      BY <2>1, <2>2 DEF Awaits
    <2>5. \A t \in RdThreads : /\ rdLock' = t => Holding(rdTodo'[t])
                               /\ rdLock' # t => rdTodo'[t] \in Seq(FreeStep)
      BY <2>1, <2>2, <2>3
    <2>6. rd.chan # 0 => /\ RfAgrees(rd) \/ Awaits(rdLock, rdTodo, "sw")
                         /\ BwAgrees(rd) \/ Awaits(rdLock, rdTodo, "bw")
                         /\ PowerAgrees(rd) \/ Awaits(rdLock, rdTodo, "power")
      BY <2>1 DEF LockOK, LockRight
    <2>7. rd'.chan # 0 => /\ RfAgrees(rd') \/ Awaits(rdLock', rdTodo', "sw")
                          /\ BwAgrees(rd') \/ Awaits(rdLock', rdTodo', "bw")
                          /\ PowerAgrees(rd') \/ Awaits(rdLock', rdTodo', "power")
      BY <1>1, <2>4, <2>6
    <2>8. rdLock' \in RdThreads \cup {"free"}
      BY <2>1 DEF LockOK, LockRight
    <2>9. LockRight(rd', rdLock', rdTodo')
      BY <2>5, <2>7, <2>8, LockMade
    <2> QED
      BY <2>9 DEF LockOK
  <1> QED
    BY <1>3, <1>4, <1>5 DEF RdInv

\* Before the first bring-up nothing is on record.
LEMMA RdInvInit == RdInit => RdInv
  <1> SUFFICES ASSUME RdInit PROVE RdInv
    OBVIOUS
  <1>1. Sets /\ rd = FreshCard /\ rdTodo = [t \in RdThreads |-> <<>>] /\ rdQ = <<>>
        /\ rdLock = "free" /\ rdTorn = FALSE
    BY DEF RdInit, Sets
  <1>2. Tunable(rd) /\ MlmeOK(rd) /\ rd.chan = 0 /\ rd.stopped
    BY <1>1, RdAssumption DEF FreshCard, Tunable, DiffsOK, MlmeOK, RdFields, StSet
  <1>3. RdTypeOK
    <2>1. rdTodo \in [RdThreads -> Seq(FreeStep \cup LockStep)] /\ rdQ \in Seq(CmdSet)
      BY <1>1
    <2>2. Sets /\ rdTorn \in BOOLEAN
      BY <1>1
    <2> QED
      BY <1>2, <2>1, <2>2 DEF RdTypeOK
  <1>4. LockOK
    BY <1>1, <1>2 DEF LockOK, LockRight, RdThreads
  <1> QED
    BY <1>2, <1>3, <1>4 DEF RdInv, BandOK

\* The bring-up happens with no thread at work, so nobody holds the mutex (RdUp).
LEMMA UpStep ==
  ASSUME RdInv, RdUp
  PROVE  RdInv'
  <1> DEFINE u == hw_init_tune(rd)
  <1>1. /\ RdIdle /\ rd' = [u EXCEPT !.stopped = FALSE]
        /\ UNCHANGED <<rdSet, rdTodo, rdQ, rdLock, rdTorn>>
    BY DEF RdUp
  <1>2. /\ Tunable(u) /\ u.chan # 0 /\ BandAgrees(u) /\ SwingAgrees(u) /\ AllAgree(u)
        /\ \A f \in MlmeFields : u[f] = rd[f]
    BY BroughtUp DEF RdInv, RdTypeOK, MlmeFields
  <1> HIDE DEF u
  <1>3. Kept(u, rd', {"stopped"})
    BY <1>1, <1>2 DEF Tunable, Kept, RdFields
  <1>4. Kept(u, rd', MlmeFields \cup {"stopped"})
    BY <1>3 DEF Kept
  <1>5. /\ Tunable(rd') /\ rd'.chan # 0 /\ BandAgrees(rd') /\ SwingAgrees(rd')
        /\ RfAgrees(rd') /\ BwAgrees(rd') /\ PowerAgrees(rd')
    BY <1>2, <1>4, Carried DEF AllAgree
  <1>6. MlmeOK(rd')
    BY <1>2, <1>3 DEF RdInv, RdTypeOK, MlmeOK, MlmeFields, Kept, RdFields
  <1>7. RdTypeOK' /\ BandOK'
    BY <1>1, <1>5, <1>6 DEF RdInv, RdTypeOK, BandOK, Sets, Tunable, DiffsOK, SwingOf, BandAgrees,
       DiffOf, MlmeOK, SwingAgrees
  <1>8. ASSUME ~rdTorn PROVE LockOK'
    <2>1. \A t \in RdThreads : rdTodo[t] = <<>>
      BY <1>1 DEF RdIdle
    <2>2. LockOK
      BY <1>8 DEF RdInv
    <2>3. \A t \in RdThreads : rdLock # t
      BY <2>1, <2>2, HoldingFull DEF LockOK, LockRight
    <2>4. RfAgrees(rd') /\ BwAgrees(rd') /\ PowerAgrees(rd')
      BY <1>5
    <2>5. rdLock' = rdLock /\ rdTodo' = rdTodo
      BY <1>1
    <2> QED
      BY <2>2, <2>3, <2>4, <2>5 DEF LockOK, LockRight
  <1> QED
    BY <1>1, <1>7, <1>8 DEF RdInv

\* A request that only queues commands.
LEMMA RequestStep ==
  ASSUME RdInv, NEW cmds \in Seq(CmdSet), Request(cmds), Kept(rd, rd', {})
  PROVE  RdInv'
  <1>1. /\ RdTypeOK /\ rdQ' = rdQ \o cmds /\ UNCHANGED <<rdSet, rdTodo, rdLock, rdTorn>>
    BY DEF RdInv, Request
  <1>2. rdQ' \in Seq(CmdSet)
    BY <1>1, ConcatProperties DEF RdTypeOK
  <1>3. Kept(rd, rd', MlmeFields \cup {"stopped"}) /\ MlmeOK(rd')
        /\ (rd.chan = 0 => rd'.stopped)
    BY <1>1 DEF RdTypeOK, Kept, RdFields, MlmeOK
  <1> QED
    BY <1>1, <1>2, <1>3, Elsewhere DEF RdTypeOK

\* Surveys, joins, disconnections, modes and deauthentications.
LEMMA RequestSteps ==
  ASSUME RdInv,
         \/ ReqSurvey \/ ReqDisconnect \/ Deauth
         \/ \E n \in RdNets, d \in BOOLEAN : ReqJoin(n, d)
         \/ \E m \in {"sta", "ap"} : ReqMode(m)
  PROVE  RdInv'
  <1>1. RdFields \subseteq DOMAIN rd
    BY DEF RdInv, RdTypeOK, Tunable
  <1>2. /\ Step("survey") \in CmdSet /\ Step("disconnect") \in CmdSet /\ Step("stadel") \in CmdSet
        /\ \A n \in RdNets : Val("join", n) \in CmdSet
        /\ \A m \in {"sta", "ap"} : Val("opmode", m) \in CmdSet
    BY DEF Step, Val, CmdSet
  <1>3. CASE ReqSurvey
    <2>1. Request(<<Step("survey")>>) /\ rd' = [rd EXCEPT !.under = TRUE]
      BY <1>3 DEF ReqSurvey
    <2>2. Kept(rd, rd', {}) /\ <<Step("survey")>> \in Seq(CmdSet)
      BY <1>1, <1>2, <2>1 DEF Kept, RdFields
    <2> QED
      BY <2>1, <2>2, RequestStep
  <1>4. CASE ReqDisconnect
    <2>1. Request(<<Step("disconnect")>>) /\ rd' = [rd EXCEPT !.linked = FALSE]
      BY <1>4 DEF ReqDisconnect
    <2>2. Kept(rd, rd', {}) /\ <<Step("disconnect")>> \in Seq(CmdSet)
      BY <1>1, <1>2, <2>1 DEF Kept, RdFields
    <2> QED
      BY <2>1, <2>2, RequestStep
  <1>5. CASE Deauth
    <2>1. Request(<<Step("stadel")>>) /\ rd' = rd
      BY <1>5 DEF Deauth
    <2>2. Kept(rd, rd', {}) /\ <<Step("stadel")>> \in Seq(CmdSet)
      BY <1>1, <1>2, <2>1 DEF Kept
    <2> QED
      BY <2>1, <2>2, RequestStep
  <1>6. ASSUME NEW n \in RdNets, NEW d \in BOOLEAN, ReqJoin(n, d) PROVE RdInv'
    <2> DEFINE drop == IF rd.linked /\ ~d THEN <<Step("disconnect")>> ELSE <<>>
    <2>1. Request(drop \o <<Val("join", n)>>)
          /\ rd' = [rd EXCEPT !.linked = FALSE, !.linking = TRUE]
      BY <1>6 DEF ReqJoin
    <2>2. drop \in Seq(CmdSet) /\ <<Val("join", n)>> \in Seq(CmdSet)
      BY <1>2
    <2> HIDE DEF drop
    <2>3. drop \o <<Val("join", n)>> \in Seq(CmdSet)
      BY <2>2, ConcatProperties
    <2>4. Kept(rd, rd', {})
      BY <1>1, <2>1 DEF Kept, RdFields
    <2> QED
      BY <2>1, <2>3, <2>4, RequestStep
  <1>7. ASSUME NEW m \in {"sta", "ap"}, ReqMode(m) PROVE RdInv'
    <2> DEFINE drop == IF rd.linked THEN <<Step("disconnect")>> ELSE <<>>
               cut == rd.cut \/ rd.under \/ rd.linking
    <2>1. Request(drop \o <<Val("opmode", m)>>)
          /\ rd' = [rd EXCEPT !.linked = FALSE, !.linking = FALSE, !.under = FALSE, !.mode = m,
                              !.cut = cut]
      BY <1>7 DEF ReqMode
    <2>2. drop \in Seq(CmdSet) /\ <<Val("opmode", m)>> \in Seq(CmdSet)
      BY <1>2
    <2> HIDE DEF drop, cut
    <2>3. drop \o <<Val("opmode", m)>> \in Seq(CmdSet)
      BY <2>2, ConcatProperties
    <2>4. Kept(rd, rd', {})
      BY <1>1, <2>1 DEF Kept, RdFields
    <2> QED
      BY <2>1, <2>3, <2>4, RequestStep
  <1> QED
    BY <1>3, <1>4, <1>5, <1>6, <1>7

\* The interface is closed (RdDown).
LEMMA DownStep ==
  ASSUME RdInv, RdDown
  PROVE  RdInv'
  <1>1. RdTypeOK /\ rd' = [rd EXCEPT !.stopped = TRUE, !.st = "null"]
        /\ UNCHANGED <<rdSet, rdTodo, rdQ, rdLock, rdTorn>>
    BY DEF RdInv, RdDown
  <1>2. Kept(rd, rd', MlmeFields \cup {"stopped"}) /\ MlmeOK(rd') /\ rd'.stopped
    BY <1>1 DEF RdTypeOK, Tunable, Kept, RdFields, MlmeFields, MlmeOK, StSet
  <1> QED
    BY <1>1, <1>2, Elsewhere DEF RdTypeOK

\* The association ends (JoinEnds).
LEMMA JoinEndsStep ==
  ASSUME RdInv, NEW done \in BOOLEAN, JoinEnds(done)
  PROVE  RdInv'
  <1> DEFINE st == IF done THEN "assoc" ELSE "null"
  <1>1. RdTypeOK /\ rd' = [rd EXCEPT !.st = st, !.linked = done, !.linking = FALSE]
        /\ rdQ' = Append(rdQ, Val("joined", done))
        /\ UNCHANGED <<rdSet, rdTodo, rdLock, rdTorn>>
    BY DEF RdInv, JoinEnds
  <1>2. st \in StSet
    BY DEF StSet
  <1> HIDE DEF st
  <1>3. Kept(rd, rd', MlmeFields \cup {"stopped"}) /\ MlmeOK(rd')
        /\ (rd.chan = 0 => rd'.stopped)
    BY <1>1, <1>2 DEF RdTypeOK, Tunable, Kept, RdFields, MlmeFields, MlmeOK
  <1>4. rdQ' \in Seq(CmdSet)
    <2>1. Val("joined", done) \in CmdSet
      BY DEF Val, CmdSet
    <2> QED
      BY <1>1, <2>1, AppendProperties DEF RdTypeOK
  <1> QED
    BY <1>1, <1>3, <1>4, Elsewhere DEF RdTypeOK

\* The next channel of a survey (SurveyTimer).
LEMMA TimerStep ==
  ASSUME RdInv, SurveyTimer
  PROVE  RdInv'
  <1> DEFINE i == IF rd.sv = "process" THEN rd.idx + 1 ELSE rd.idx
  <1>1. RdTypeOK /\ rd' = [rd EXCEPT !.timer = FALSE, !.idx = i]
        /\ rdQ' = Append(rdQ, Step("survey"))
        /\ UNCHANGED <<rdSet, rdTodo, rdLock, rdTorn>>
    BY DEF RdInv, SurveyTimer
  <1>2. i \in Nat \ {0}
    BY <1>1 DEF RdTypeOK, MlmeOK
  <1> HIDE DEF i
  <1>3. Kept(rd, rd', MlmeFields \cup {"stopped"}) /\ MlmeOK(rd')
        /\ (rd.chan = 0 => rd'.stopped)
    BY <1>1, <1>2 DEF RdTypeOK, Tunable, Kept, RdFields, MlmeFields, MlmeOK
  <1>4. rdQ' \in Seq(CmdSet)
    <2>1. Step("survey") \in CmdSet
      BY DEF Step, CmdSet
    <2> QED
      BY <1>1, <2>1, AppendProperties DEF RdTypeOK
  <1> QED
    BY <1>1, <1>3, <1>4, Elsewhere DEF RdTypeOK

\* An idle thread gets its steps.
LEMMA Given ==
  ASSUME RdTypeOK, NEW t \in RdThreads, NEW q \in Seq(FreeStep),
         rdTodo[t] = <<>>, rdTodo' = [rdTodo EXCEPT ![t] = q]
  PROVE  /\ rdTodo' \in [RdThreads -> Seq(FreeStep \cup LockStep)]
         /\ \A u \in RdThreads : \/ rdTodo'[u] = rdTodo[u]
                                 \/ rdTodo[u] = <<>> /\ rdTodo'[u] \in Seq(FreeStep)
  <1>1. q \in Seq(FreeStep \cup LockStep)
    BY Wider
  <1> QED
    BY <1>1 DEF RdTypeOK

\* hostapd's process starts the access point (ReqAp).
LEMMA ApStep ==
  ASSUME RdInv, NEW ch \in RdApCh, NEW n \in RdNets, ReqAp(ch, n)
  PROVE  RdInv'
  <1>1. /\ RdTypeOK /\ rdTodo["ioctl"] = <<>>
        /\ rdTodo' = [rdTodo EXCEPT !["ioctl"] = start_bss_network(ch, n)]
        /\ UNCHANGED <<rdSet, rd, rdQ, rdLock, rdTorn>>
    BY DEF RdInv, ReqAp
  <1>2. "ioctl" \in RdThreads /\ start_bss_network(ch, n) \in Seq(FreeStep)
    BY BssSteps DEF RdThreads
  <1>3. Kept(rd, rd', MlmeFields \cup {"stopped"}) /\ MlmeOK(rd')
        /\ (rd.chan = 0 => rd'.stopped)
    BY <1>1 DEF RdTypeOK, Tunable, Kept
  <1> QED
    BY <1>1, <1>2, <1>3, Given, Elsewhere DEF RdTypeOK

\* The command thread takes a command or an event (RunCommand).
LEMMA CommandStep ==
  ASSUME RdInv, RunCommand
  PROVE  RdInv'
  <1> DEFINE c == Head(rdQ)
  <1>1. /\ RdTypeOK /\ rdTodo["cmd"] = <<>> /\ rdQ # <<>>
        /\ rdTodo' = [rdTodo EXCEPT !["cmd"] = Handler(c)] /\ rdQ' = Tail(rdQ)
        /\ UNCHANGED <<rdSet, rdLock, rdTorn>>
    BY DEF RdInv, RunCommand
  <1>2. c \in CmdSet /\ rdQ' \in Seq(CmdSet)
    BY <1>1, HeadTailProperties DEF RdTypeOK
  <1>3. "cmd" \in RdThreads /\ Handler(c) \in Seq(FreeStep)
    BY <1>1, <1>2, HandlerSteps DEF RdThreads, RdTypeOK, Tunable
  <1>4. Kept(rd, rd', {"idx"}) /\ rd'.idx \in Nat \ {0}
    <2>1. RdFields \subseteq DOMAIN rd /\ rd.idx \in Nat \ {0}
      BY <1>1 DEF RdTypeOK, Tunable, MlmeOK
    <2>2. CASE c.op = "survey"
      <3> DEFINE sv == IF rd.sv # "disable" THEN rd.sv ELSE IF rd.st = "assoc" THEN "txnull" ELSE "start"
                 i == IF rd.sv = "disable" THEN 1 ELSE rd.idx
                 a == SurveyState(rd)
                 more == (a.idx <= Len(RdScan))
      <3>1. a = [rd EXCEPT !.idx = i, !.sv = sv] /\ i \in Nat \ {0}
        BY <2>1 DEF SurveyState
      <3>2. rd' = [a EXCEPT !.timer = more]
        BY <2>2 DEF RunCommand
      <3> HIDE DEF a, i, sv, more
      <3>3. Kept(rd, a, {"idx"}) /\ a.idx = i
        BY <2>1, <3>1 DEF Kept, RdFields
      <3> HIDE DEF a
      <3>4. Kept(a, rd', {})
        BY <3>2, <3>3 DEF Kept, RdFields
      <3> QED
        BY <3>1, <3>3, <3>4 DEF Kept, RdFields
    <2>3. CASE c.op # "survey"
      <3>1. rd' = rd \/ rd' = [rd EXCEPT !.linked = FALSE]
        BY <2>3 DEF RunCommand
      <3> QED
        BY <2>1, <3>1 DEF Kept, RdFields
    <2> QED
      BY <2>2, <2>3
  <1>5. Kept(rd, rd', MlmeFields \cup {"stopped"}) /\ MlmeOK(rd')
        /\ (rd.chan = 0 => rd'.stopped)
    BY <1>1, <1>4 DEF RdTypeOK, Kept, RdFields, MlmeFields, MlmeOK
  <1> HIDE DEF c
  <1> QED
    BY <1>1, <1>2, <1>3, <1>5, Given, Elsewhere

\* No step outside the mutex is a callback or the release.
LEMMA FreeOps == \A x \in FreeStep : x.op \notin {"sw", "bw", "power", "unlock"}
  BY DEF FreeStep, CurStep, ChanStep

\* Head and tail of a sequence, by index.
LEMMA TailHeld ==
  ASSUME NEW S, NEW q \in Seq(S), q # <<>>
  PROVE  /\ Head(q) \in S /\ Head(q) = q[1] /\ Tail(q) \in Seq(S) /\ Len(q) \in Nat \ {0}
         /\ Len(Tail(q)) = Len(q) - 1 /\ 1 \in DOMAIN q
         /\ \A i \in 1 .. Len(q) - 1 : Tail(q)[i] = q[i + 1]
  <1>1. Head(q) \in S /\ Tail(q) \in Seq(S) /\ Len(Tail(q)) = Len(q) - 1
    BY HeadTailProperties
  <1>2. Len(q) \in Nat \ {0} /\ DOMAIN q = 1 .. Len(q)
    BY EmptySeq
  <1> QED
    BY <1>1, <1>2, HeadTailProperties

\* A concatenation, by index.
LEMMA InBoth ==
  ASSUME NEW S, NEW p \in Seq(S), NEW q \in Seq(S)
  PROVE  /\ p \o q \in Seq(S) /\ Len(p \o q) = Len(p) + Len(q)
         /\ \A i \in 1 .. Len(p) : i \in 1 .. Len(p \o q) /\ (p \o q)[i] = p[i]
         /\ \A i \in 1 .. Len(q) : i + Len(p) \in 1 .. Len(p \o q) /\ (p \o q)[i + Len(p)] = q[i]
         /\ \A i \in 1 .. Len(p \o q) : i > Len(p) => i - Len(p) \in 1 .. Len(q)
                                                      /\ (p \o q)[i] = q[i - Len(p)]
  <1>1. p \o q \in Seq(S) /\ Len(p \o q) = Len(p) + Len(q)
    BY ConcatProperties
  <1>2. Len(p) \in Nat /\ Len(q) \in Nat
    OBVIOUS
  <1>3. \A i \in 1 .. Len(p) + Len(q) : (p \o q)[i] = IF i <= Len(p) THEN p[i] ELSE q[i - Len(p)]
    BY ConcatProperties
  <1> QED
    BY <1>1, <1>2, <1>3

\* PHY_HandleSwChnlAndSetBW8812 runs the channel callback when the channel differs, the
\* bandwidth callback when the width, its side bands or the channel differ, and the power with either.
LEMMA StepsStored ==
  ASSUME NEW s, NEW r
  PROVE  LET h == HandleSwChnlAndSetBW(s, r)
             on == ~(Refused(s, r) \/ s.stopped)
         IN  /\ h \in Seq(TuneStep)
             /\ on /\ NeedsSw(s, r) => (\E i \in 1 .. Len(h) : h[i].op = "sw")
             /\ on /\ NeedsBw(s, r) => (\E i \in 1 .. Len(h) : h[i].op = "bw")
             /\ on /\ (NeedsSw(s, r) \/ NeedsBw(s, r)) => (\E i \in 1 .. Len(h) : h[i].op = "power")
  <1> DEFINE h == HandleSwChnlAndSetBW(s, r)
             on == ~(Refused(s, r) \/ s.stopped)
             p == IF NeedsSw(s, r) THEN <<[op |-> "sw"]>> ELSE <<>>
             q == IF NeedsBw(s, r) THEN <<[op |-> "bw"]>> ELSE <<>>
             z == IF NeedsSw(s, r) \/ NeedsBw(s, r) THEN <<[op |-> "power"]>> ELSE <<>>
  <1>1. h = IF Refused(s, r) \/ s.stopped THEN <<>> ELSE (p \o q) \o z
    BY DEF HandleSwChnlAndSetBW
  <1>2. p \in Seq(TuneStep) /\ q \in Seq(TuneStep) /\ z \in Seq(TuneStep)
    <2>1. \A op \in {"sw", "bw", "power"} : [op |-> op] \in TuneStep
      BY DEF TuneStep
    <2>2. [op |-> "sw"] \in TuneStep /\ [op |-> "bw"] \in TuneStep /\ [op |-> "power"] \in TuneStep
      BY <2>1
    <2> HIDE DEF h, on
    <2> QED
      BY <2>2
  <1>3. /\ NeedsSw(s, r) => 1 \in 1 .. Len(p) /\ p[1].op = "sw"
        /\ NeedsBw(s, r) => 1 \in 1 .. Len(q) /\ q[1].op = "bw"
        /\ NeedsSw(s, r) \/ NeedsBw(s, r) => 1 \in 1 .. Len(z) /\ z[1].op = "power"
    OBVIOUS
  <1> HIDE DEF p, q, z
  <1>4. p \o q \in Seq(TuneStep)
    BY <1>2, InBoth
  <1>5. /\ NeedsSw(s, r) => (\E i \in 1 .. Len(p \o q) : (p \o q)[i].op = "sw")
        /\ NeedsBw(s, r) => (\E i \in 1 .. Len(p \o q) : (p \o q)[i].op = "bw")
    <2>1. NeedsSw(s, r) => 1 \in 1 .. Len(p \o q) /\ (p \o q)[1].op = "sw"
      BY <1>2, <1>3, InBoth
    <2>2. NeedsBw(s, r) => 1 + Len(p) \in 1 .. Len(p \o q) /\ (p \o q)[1 + Len(p)].op = "bw"
      BY <1>2, <1>3, InBoth
    <2> QED
      BY <2>1, <2>2
  <1> DEFINE a == p \o q
  <1> HIDE DEF a
  <1>6. a \o z \in Seq(TuneStep)
    BY <1>2, <1>4, InBoth DEF a
  <1>7. /\ NeedsSw(s, r) => (\E i \in 1 .. Len(a \o z) : (a \o z)[i].op = "sw")
        /\ NeedsBw(s, r) => (\E i \in 1 .. Len(a \o z) : (a \o z)[i].op = "bw")
    <2>1. a \in Seq(TuneStep)
      BY <1>4 DEF a
    <2>2. \A i \in 1 .. Len(a) : i \in 1 .. Len(a \o z) /\ (a \o z)[i] = a[i]
      BY <1>2, <2>1, InBoth
    <2> QED
      BY <1>5, <2>2 DEF a
  <1>8. NeedsSw(s, r) \/ NeedsBw(s, r) => (\E i \in 1 .. Len(a \o z) : (a \o z)[i].op = "power")
    <2>1. a \in Seq(TuneStep)
      BY <1>4 DEF a
    <2>2. NeedsSw(s, r) \/ NeedsBw(s, r)
             => 1 + Len(a) \in 1 .. Len(a \o z) /\ (a \o z)[1 + Len(a)].op = "power"
      BY <1>2, <1>3, <2>1, InBoth
    <2> QED
      BY <2>2
  <1>9. h \in Seq(TuneStep)
    BY <1>1, <1>6 DEF a
  <1>10. ~(Refused(s, r) \/ s.stopped) => h = a \o z
    BY <1>1 DEF a
  <1> HIDE DEF h, a
  <1>11. /\ on /\ NeedsSw(s, r) => (\E i \in 1 .. Len(h) : h[i].op = "sw")
         /\ on /\ NeedsBw(s, r) => (\E i \in 1 .. Len(h) : h[i].op = "bw")
         /\ on /\ (NeedsSw(s, r) \/ NeedsBw(s, r)) => (\E i \in 1 .. Len(h) : h[i].op = "power")
    BY <1>7, <1>8, <1>10
  <1> QED
    BY <1>9, <1>11 DEF h

\* What a request leaves on record agrees with the registers but for the callbacks it will run.
LEMMA TuneRecord ==
  ASSUME RdTypeOK, BandOK, NEW t \in RdThreads, Tune(t)
  PROVE  LET r == Head(rdTodo[t])
             h == HandleSwChnlAndSetBW(rd, r)
         IN  /\ Kept(rd, rd', ChanFields) /\ Tunable(rd') /\ MlmeOK(rd')
             /\ rd'.chan = 0 => rd'.stopped
             /\ rd'.chan # 0 => rd.chan # 0 /\ BandAgrees(rd') /\ SwingAgrees(rd')
             /\ RfAgrees(rd) => RfAgrees(rd') \/ \E i \in 1 .. Len(h) : h[i].op = "sw"
             /\ BwAgrees(rd) => BwAgrees(rd') \/ \E i \in 1 .. Len(h) : h[i].op = "bw"
             /\ PowerAgrees(rd) => PowerAgrees(rd') \/ \E i \in 1 .. Len(h) : h[i].op = "power"
  <1> DEFINE r == Head(rdTodo[t])
             h == HandleSwChnlAndSetBW(rd, r)
             init == rd.bwInit \/ r.op = "chan"
  <1>1. rd' = IF Refused(rd, r) THEN rd
              ELSE IF rd.stopped THEN [rd EXCEPT !.bwInit = init] ELSE StoreSetting(rd, r)
    BY DEF Tune
  <1>2. Tunable(rd) /\ MlmeOK(rd) /\ (rd.chan = 0 => rd.stopped) /\ RdFields \subseteq DOMAIN rd
    BY DEF RdTypeOK, Tunable
  <1> HIDE DEF r, init
  <1>3. CASE Refused(rd, r) \/ rd.stopped
    <2>1. Kept(rd, rd', {"bwInit"})
      BY <1>1, <1>2, <1>3 DEF Kept, RdFields
    <2>2. Tunable(rd') /\ MlmeOK(rd') /\ rd'.chan = rd.chan /\ rd'.stopped = rd.stopped
      BY <1>2, <2>1 DEF Kept, RdFields, Tunable, DiffsOK, MlmeOK
    <2>3. /\ BandAgrees(rd) => BandAgrees(rd')
          /\ SwingAgrees(rd) => SwingAgrees(rd')
          /\ RfAgrees(rd) => RfAgrees(rd')
          /\ PowerAgrees(rd) => PowerAgrees(rd')
      BY <2>1 DEF Kept, RdFields, BandAgrees, DiffOf, SwingAgrees, RfAgrees, PowerAgrees
    <2>4. BwAgrees(rd) => BwAgrees(rd')
      BY <2>1 DEF Kept, RdFields, BwAgrees
    <2>5. Kept(rd, rd', ChanFields)
      BY <2>1 DEF Kept, ChanFields
    <2> QED
      BY <1>2, <2>2, <2>3, <2>4, <2>5 DEF BandOK, r
  <1>4. CASE ~(Refused(rd, r) \/ rd.stopped)
    <2> DEFINE b == StoreSetting(rd, r)
    <2>1. rd' = b /\ rd.chan # 0
      BY <1>1, <1>2, <1>4
    <2>2. /\ Kept(rd, b, ChanFields) /\ DiffsOK(b)
          /\ BandAgrees(rd) => BandAgrees(b)
          /\ SwingAgrees(rd) => SwingAgrees(b)
          /\ NeedsSw(rd, r) => b.chan # 0
          /\ ~NeedsSw(rd, r) => b.chan = rd.chan
          /\ RfAgrees(rd) /\ ~NeedsSw(rd, r) => RfAgrees(b)
          /\ BwAgrees(rd) /\ ~NeedsBw(rd, r) => BwAgrees(b)
          /\ PowerAgrees(rd) /\ ~NeedsSw(rd, r) => PowerAgrees(b)
      BY <1>2, SettingStored
    <2>3. /\ NeedsSw(rd, r) => (\E i \in 1 .. Len(h) : h[i].op = "sw")
          /\ NeedsBw(rd, r) => (\E i \in 1 .. Len(h) : h[i].op = "bw")
          /\ NeedsSw(rd, r) => (\E i \in 1 .. Len(h) : h[i].op = "power")
      BY <1>4, StepsStored
    <2> HIDE DEF b, h
    <2>4. Tunable(b) /\ MlmeOK(b)
      BY <1>2, <2>2 DEF Kept, RdFields, ChanFields, Tunable, MlmeOK
    <2> QED
      BY <2>1, <2>2, <2>3, <2>4 DEF BandOK, r, h
  <1> QED
    BY <1>3, <1>4

\* The thread that took a request has its callbacks, the release, and then what it had to do before.
LEMMA TuneTodo ==
  ASSUME RdTypeOK, NEW t \in RdThreads, Tunes(t), Tune(t)
  PROVE  LET h == HandleSwChnlAndSetBW(rd, Head(rdTodo[t]))
             q == rdTodo'[t]
         IN  /\ rdTodo' \in [RdThreads -> Seq(FreeStep \cup LockStep)]
             /\ \A u \in RdThreads \ {t} : rdTodo'[u] = rdTodo[u]
             /\ rdTodo[t] \in Seq(FreeStep) => Holding(q)
             /\ \A i \in 1 .. Len(h) : i \in 1 .. Len(q) /\ q[i] = h[i]
  <1> DEFINE h == HandleSwChnlAndSetBW(rd, Head(rdTodo[t]))
             z == Tail(rdTodo[t])
             v == Step("unlock")
             S == FreeStep \cup LockStep
  <1>1. rdTodo' = [rdTodo EXCEPT ![t] = (h \o <<v>>) \o z]
    BY DEF Tune
  <1>2. rdTodo[t] \in Seq(S) /\ rdTodo[t] # <<>>
    BY DEF RdTypeOK, Tunes
  <1>3. z \in Seq(S) /\ (rdTodo[t] \in Seq(FreeStep) => z \in Seq(FreeStep))
    BY <1>2, TailHeld
  <1>4. h \in Seq(TuneStep) /\ v \in LockStep /\ v.op = "unlock"
    <2>1. v \in LockStep /\ v.op = "unlock"
      BY DEF Step, LockStep
    <2> QED
      BY <2>1, StepsStored
  <1> HIDE DEF h, z, v
  <1>5. h \in Seq(LockStep) /\ <<v>> \in Seq(LockStep) /\ Len(<<v>>) = 1 /\ <<v>>[1] = v
    <2>1. h \in Seq(LockStep)
      BY <1>4, Wider DEF LockStep
    <2> QED
      BY <1>4, <2>1
  <1> DEFINE a == h \o <<v>>
             q == a \o z
  <1>6. a \in Seq(LockStep) /\ Len(a) = Len(h) + 1 /\ a[Len(a)] = v
        /\ \A i \in 1 .. Len(h) : a[i] = h[i]
    BY <1>5, InBoth
  <1> HIDE DEF a
  <1>7. a \in Seq(S)
    <2>1. a \in Seq(LockStep \cup FreeStep) /\ LockStep \cup FreeStep = S
      BY <1>6, Wider
    <2> QED
      BY <2>1
  <1>8. /\ q \in Seq(S) /\ Len(q) = Len(a) + Len(z)
        /\ \A i \in 1 .. Len(a) : i \in 1 .. Len(q) /\ q[i] = a[i]
        /\ \A i \in 1 .. Len(q) : i > Len(a) => i - Len(a) \in 1 .. Len(z) /\ q[i] = z[i - Len(a)]
    <2> HIDE DEF q, S
    <2>1. q = a \o z
      BY DEF q
    <2> QED
      BY <1>3, <1>7, <2>1, InBoth
  <1>9. Len(a) \in Nat \ {0} /\ Len(h) \in Nat
    BY <1>5, <1>6
  <1>10. rdTodo' = [rdTodo EXCEPT ![t] = q]
    BY <1>1 DEF a
  <1> HIDE DEF q
  <1>11. rdTodo'[t] = q /\ rdTodo' \in [RdThreads -> Seq(S)]
         /\ \A u \in RdThreads \ {t} : rdTodo'[u] = rdTodo[u]
    BY <1>8, <1>10 DEF RdTypeOK
  <1>12. \A i \in 1 .. Len(h) : i \in 1 .. Len(q) /\ q[i] = h[i]
    BY <1>6, <1>8, <1>9
  <1>13. ASSUME rdTodo[t] \in Seq(FreeStep) PROVE Holding(q)
    <2> DEFINE n == Len(a)
    <2>1. n \in 1 .. Len(q) /\ q[n].op = "unlock"
      BY <1>4, <1>6, <1>8, <1>9
    <2>2. \A i \in 1 .. n - 1 : q[i].op \in {"sw", "bw", "power"}
      <3>1. \A i \in 1 .. Len(h) : h[i] \in TuneStep
        BY <1>4
      <3> QED
        BY <1>6, <1>12, <3>1 DEF TuneStep
    <2>3. \A i \in n + 1 .. Len(q) : q[i] \in FreeStep
      <3>1. z \in Seq(FreeStep)
        BY <1>3, <1>13
      <3>2. \A i \in 1 .. Len(z) : z[i] \in FreeStep
        BY <3>1
      <3>3. \A i \in n + 1 .. Len(q) : i \in 1 .. Len(q) /\ i > Len(a)
        BY <1>9
      <3> QED
        BY <1>8, <3>2, <3>3
    <2> QED
      BY <2>1, <2>2, <2>3 DEF Holding
  <1> QED
    BY <1>11, <1>12, <1>13 DEF h

\* Types and the band after a request, with the mutex or without.
LEMMA TypesAfterTune ==
  ASSUME RdTypeOK, BandOK, NEW t \in RdThreads, Tunes(t), Tune(t), UNCHANGED <<rdSet, rdQ>>,
         rdTorn' \in BOOLEAN
  PROVE  RdTypeOK' /\ BandOK'
  <1>1. /\ Tunable(rd') /\ MlmeOK(rd')
        /\ rd'.chan = 0 => rd'.stopped
        /\ rd'.chan # 0 => rd.chan # 0 /\ BandAgrees(rd') /\ SwingAgrees(rd')
    BY TuneRecord
  <1>2. rdTodo' \in [RdThreads -> Seq(FreeStep \cup LockStep)]
    BY TuneTodo
  <1>3. (Tunable(rd') => Tunable(rd)') /\ (BandAgrees(rd') => BandAgrees(rd)')
    BY DEF Tunable, DiffsOK, SwingOf, BandAgrees, DiffOf
  <1>4. RdTypeOK'
    BY <1>1, <1>2, <1>3 DEF RdTypeOK, Sets, MlmeOK
  <1>5. BandOK'
    BY <1>1, <1>3 DEF BandOK, SwingAgrees
  <1> QED
    BY <1>4, <1>5

\* A request under the mutex (TakeSetch): nothing was pending, what is now is in the list.
LEMMA TakeStep ==
  ASSUME RdInv, NEW t \in RdThreads, TakeSetch(t)
  PROVE  RdInv'
  <1> DEFINE h == HandleSwChnlAndSetBW(rd, Head(rdTodo[t]))
  <1>1. /\ RdTypeOK /\ BandOK /\ Tunes(t) /\ Tune(t) /\ rdLock = "free" /\ rdLock' = t
        /\ UNCHANGED <<rdSet, rdQ, rdTorn>>
    BY DEF RdInv, TakeSetch, SetchLocked
  <1>2. RdTypeOK' /\ BandOK'
    BY <1>1, TypesAfterTune DEF RdTypeOK
  <1>3. ASSUME ~rdTorn PROVE LockOK'
    <2>1. LockRight(rd, "free", rdTodo)
      BY <1>1, <1>3 DEF RdInv, LockOK
    <2>2. "free" \notin RdThreads
      BY DEF RdThreads
    <2>3. \A u \in RdThreads : rdTodo[u] \in Seq(FreeStep)
      BY <2>1, <2>2 DEF LockRight
    <2>4. rd.chan # 0 => RfAgrees(rd) /\ BwAgrees(rd) /\ PowerAgrees(rd)
      BY <2>1, <2>2 DEF LockRight, Awaits
    <2>5. /\ rd'.chan # 0 => rd.chan # 0
          /\ RfAgrees(rd) => RfAgrees(rd') \/ \E i \in 1 .. Len(h) : h[i].op = "sw"
          /\ BwAgrees(rd) => BwAgrees(rd') \/ \E i \in 1 .. Len(h) : h[i].op = "bw"
          /\ PowerAgrees(rd) => PowerAgrees(rd') \/ \E i \in 1 .. Len(h) : h[i].op = "power"
      BY <1>1, TuneRecord
    <2>6. /\ \A u \in RdThreads \ {t} : rdTodo'[u] = rdTodo[u]
          /\ Holding(rdTodo'[t])
          /\ \A i \in 1 .. Len(h) : i \in 1 .. Len(rdTodo'[t]) /\ rdTodo'[t][i] = h[i]
      BY <1>1, <2>3, TuneTodo
    <2> HIDE DEF h
    <2>7. \A op : (\E i \in 1 .. Len(h) : h[i].op = op) => Awaits(t, rdTodo', op)
      BY <2>6 DEF Awaits
    <2>8. LockRight(rd', t, rdTodo')
      <3>1. t \in RdThreads \cup {"free"}
        OBVIOUS
      <3>2. \A u \in RdThreads : t = u => Holding(rdTodo'[u])
        BY <2>6
      <3>3. \A u \in RdThreads : t # u => rdTodo'[u] \in Seq(FreeStep)
        BY <2>3, <2>6
      <3>4. /\ rd'.chan # 0 => RfAgrees(rd') \/ Awaits(t, rdTodo', "sw")
            /\ rd'.chan # 0 => BwAgrees(rd') \/ Awaits(t, rdTodo', "bw")
            /\ rd'.chan # 0 => PowerAgrees(rd') \/ Awaits(t, rdTodo', "power")
        BY <2>4, <2>5, <2>7
      <3> QED
        BY <3>1, <3>2, <3>3, <3>4, LockMade
    <2> QED
      BY <1>1, <2>8 DEF LockOK
  <1> QED
    BY <1>1, <1>2, <1>3 DEF RdInv

\* A request whose process did not wait for the mutex (SignalPending).
LEMMA SignalStep ==
  ASSUME RdInv, SignalPending
  PROVE  RdInv'
  <1>1. /\ RdTypeOK /\ BandOK /\ Tunes("ioctl") /\ Tune("ioctl") /\ rdTorn' = TRUE
        /\ UNCHANGED <<rdSet, rdQ>>
    BY DEF RdInv, SignalPending
  <1>2. RdTypeOK' /\ BandOK'
    BY <1>1, TypesAfterTune DEF RdThreads
  <1> QED
    BY <1>1, <1>2 DEF RdInv

\* A thread has done the first of its steps.
LEMMA Popped ==
  ASSUME RdTypeOK, NEW t \in RdThreads, rdTodo[t] # <<>>, rdTodo' = [rdTodo EXCEPT ![t] = Tail(@)]
  PROVE  /\ rdTodo' \in [RdThreads -> Seq(FreeStep \cup LockStep)]
         /\ Head(rdTodo[t]) \in FreeStep \cup LockStep
         /\ rdTodo'[t] = Tail(rdTodo[t])
         /\ \A u \in RdThreads \ {t} : rdTodo'[u] = rdTodo[u]
  <1>1. rdTodo[t] \in Seq(FreeStep \cup LockStep)
    BY DEF RdTypeOK
  <1>2. Tail(rdTodo[t]) \in Seq(FreeStep \cup LockStep) /\ Head(rdTodo[t]) \in FreeStep \cup LockStep
    BY <1>1, TailHeld
  <1> QED
    BY <1>2 DEF RdTypeOK

\* Only the holder has a release in its list, and its callbacks come before it (ReleaseSetch).
LEMMA ReleaseStep ==
  ASSUME RdInv, NEW t \in RdThreads, ReleaseSetch(t)
  PROVE  RdInv'
  <1> DEFINE q == rdTodo[t]
  <1>1. /\ RdTypeOK /\ BandOK /\ rdTodo[t] # <<>> /\ Head(rdTodo[t]).op = "unlock" /\ rdLock' = "free"
        /\ rdTodo' = [rdTodo EXCEPT ![t] = Tail(@)]
        /\ rd' = rd /\ rdQ' = rdQ /\ rdSet' = rdSet /\ rdTorn' = rdTorn
    BY DEF RdInv, ReleaseSetch
  <1>2. /\ rdTodo' \in [RdThreads -> Seq(FreeStep \cup LockStep)]
        /\ rdTodo'[t] = Tail(rdTodo[t])
        /\ \A u \in RdThreads \ {t} : rdTodo'[u] = rdTodo[u]
    BY <1>1, Popped
  <1>3. RdTypeOK'
    BY <1>1, <1>2 DEF RdTypeOK, Sets, Tunable, DiffsOK, SwingOf, MlmeOK
  <1>4. BandOK'
    BY <1>1 DEF BandOK, BandAgrees, DiffOf, SwingOf, SwingAgrees
  <1>5. ASSUME ~rdTorn PROVE LockOK'
    <2>1. LockRight(rd, rdLock, rdTodo)
      BY <1>5 DEF RdInv, LockOK
    <2>2. q \in Seq(FreeStep \cup LockStep) /\ q # <<>>
      BY <1>1 DEF RdTypeOK
    <2>3. /\ Head(q) = q[1] /\ Len(q) \in Nat \ {0} /\ Tail(q) \in Seq(FreeStep \cup LockStep)
          /\ Len(Tail(q)) = Len(q) - 1
          /\ \A i \in 1 .. Len(q) - 1 : Tail(q)[i] = q[i + 1]
      BY <2>2, TailHeld
    <2>4. rdLock = t
      <3>1. ASSUME rdLock # t PROVE FALSE
        <4>1. q \in Seq(FreeStep)
          BY <2>1, <3>1 DEF LockRight
        <4>2. Head(q) \in FreeStep
          BY <2>2, <4>1, TailHeld
        <4> QED
          BY <1>1, <4>2, FreeOps
      <3> QED
        BY <3>1
    <2>5. \A i \in 2 .. Len(q) : q[i] \in FreeStep
      <3>1. Holding(q)
        BY <2>1, <2>4 DEF LockRight
      <3>2. PICK n \in 1 .. Len(q) :
               /\ q[n].op = "unlock" /\ \A i \in 1 .. n - 1 : q[i].op \in {"sw", "bw", "power"}
               /\ \A i \in n + 1 .. Len(q) : q[i] \in FreeStep
        BY <3>1 DEF Holding
      <3>3. n = 1
        <4>1. q[1].op = "unlock"
          BY <1>1, <2>3
        <4>2. n > 1 => 1 \in 1 .. n - 1
          BY <2>3
        <4> QED
          BY <2>3, <3>2, <4>1, <4>2
      <3> QED
        BY <3>2, <3>3
    <2> HIDE DEF q
    <2>6. Tail(q) \in Seq(FreeStep)
      <3>1. \A i \in 1 .. Len(Tail(q)) : Tail(q)[i] \in FreeStep
        BY <2>3, <2>5
      <3> DEFINE z == Tail(q)
      <3> HIDE DEF z
      <3>2. z \in Seq(FreeStep \cup LockStep) /\ \A i \in 1 .. Len(z) : z[i] \in FreeStep
        BY <2>3, <3>1 DEF z
      <3>3. z \in [1 .. Len(z) -> FreeStep \cup LockStep] /\ Len(z) \in Nat
        BY <3>2
      <3>4. z \in [1 .. Len(z) -> FreeStep]
        BY <3>2, <3>3
      <3>5. z \in Seq(FreeStep)
        BY <3>3, <3>4
      <3> QED
        BY <3>5 DEF z
    <2>7. \A u \in RdThreads : rdTodo'[u] \in Seq(FreeStep)
      <3>1. rdTodo'[t] \in Seq(FreeStep)
        BY <1>2, <2>6 DEF q
      <3>2. \A u \in RdThreads \ {t} : rdTodo[u] \in Seq(FreeStep)
        BY <2>1, <2>4 DEF LockRight
      <3> QED
        BY <1>2, <3>1, <3>2
    <2>8. rd.chan # 0 => RfAgrees(rd) /\ BwAgrees(rd) /\ PowerAgrees(rd)
      <3>1. \A op \in {"sw", "bw", "power"} : ~Awaits(rdLock, rdTodo, op)
        <4>1. \A i \in 1 .. Len(q) : q[i].op \notin {"sw", "bw", "power"}
          <5>1. q[1].op = "unlock"
            BY <1>1, <2>3 DEF q
          <5>2. \A i \in 1 .. Len(q) : i = 1 \/ i \in 2 .. Len(q)
            BY <2>3
          <5> QED
            BY <2>5, <5>1, <5>2, FreeOps
        <4> QED
          BY <2>4, <4>1 DEF Awaits, q
      <3> QED
        BY <2>1, <3>1 DEF LockRight
    <2>9. LockRight(rd', "free", rdTodo')
      <3>1. "free" \notin RdThreads
        BY DEF RdThreads
      <3> QED
        BY <1>1, <2>7, <2>8, <3>1 DEF LockRight
    <2> QED
      BY <1>1, <2>9 DEF LockOK
  <1> QED
    BY <1>1, <1>3, <1>4, <1>5 DEF RdInv

\* Each callback makes its part agree and takes nothing from the others.
LEMMA TuneEffect ==
  ASSUME Sets, NEW s, Tunable(s), NEW x \in TuneStep
  PROVE  LET b == Effect(s, x)
         IN  /\ Kept(s, b, SwFields \cup BwFields \cup {"hPower"}) /\ DiffsOK(b)
             /\ BandAgrees(s) => BandAgrees(b)
             /\ BandAgrees(s) /\ SwingAgrees(s) => SwingAgrees(b)
             /\ BandAgrees(s) /\ (RfAgrees(s) \/ x.op = "sw") => RfAgrees(b)
             /\ BwAgrees(s) \/ x.op = "bw" => BwAgrees(b)
             /\ PowerAgrees(s) \/ x.op = "power" => PowerAgrees(b)
  <1> DEFINE b == Effect(s, x)
  <1>1. CASE x.op = "sw"
    <2>1. b = sw_chnl_callback(s)
      BY <1>1 DEF Effect
    <2>2. /\ Kept(s, b, SwFields) /\ DiffsOK(b)
          /\ BandAgrees(s) => BandAgrees(b) /\ RfAgrees(b)
          /\ BandAgrees(s) /\ SwingAgrees(s) => SwingAgrees(b)
      BY <2>1, ChannelSwitched
    <2> HIDE DEF b
    <2>3. /\ BwAgrees(s) => BwAgrees(b)
          /\ PowerAgrees(s) => PowerAgrees(b)
      BY <2>2 DEF Kept, RdFields, SwFields, BwAgrees, PowerAgrees
    <2>4. Kept(s, b, SwFields \cup BwFields \cup {"hPower"})
      BY <2>2 DEF Kept
    <2> QED
      BY <1>1, <2>2, <2>3, <2>4 DEF b
  <1>2. CASE x.op = "bw"
    <2>1. b = set_bw_mode_callback(s)
      BY <1>2 DEF Effect
    <2>2. Kept(s, b, BwFields) /\ BwAgrees(b)
      BY <2>1, BandwidthSet DEF Tunable
    <2> HIDE DEF b
    <2>3. /\ RfAgrees(s) => RfAgrees(b)
          /\ PowerAgrees(s) => PowerAgrees(b)
      BY <2>2 DEF Kept, RdFields, BwFields, RfAgrees, PowerAgrees
    <2>4. Kept(s, b, BwFields \cup ChanFields \cup {"hPower"})
          /\ Kept(s, b, SwFields \cup BwFields \cup {"hPower"})
      BY <2>2 DEF Kept
    <2> QED
      BY <1>2, <2>2, <2>3, <2>4, KeptParts DEF b, Tunable
  <1>3. CASE x.op = "power"
    <2>1. b = [s EXCEPT !.hPower = s.chan]
      BY <1>3 DEF Effect
    <2>2. Kept(s, b, {"hPower"}) /\ PowerAgrees(b)
      BY <2>1, PowerSet DEF Tunable
    <2> HIDE DEF b
    <2>3. /\ RfAgrees(s) => RfAgrees(b)
          /\ BwAgrees(s) => BwAgrees(b)
      BY <2>2 DEF Kept, RdFields, RfAgrees, BwAgrees
    <2>4. Kept(s, b, BwFields \cup ChanFields \cup {"hPower"})
          /\ Kept(s, b, SwFields \cup BwFields \cup {"hPower"})
      BY <2>2 DEF Kept
    <2> QED
      BY <1>3, <2>2, <2>3, <2>4, KeptParts DEF b, Tunable
  <1> QED
    BY <1>1, <1>2, <1>3 DEF TuneStep

\* A step outside the mutex is not one of the holder, whose list begins with a callback or the release.
LEMMA FreeRun ==
  ASSUME RdInv, NEW t \in RdThreads, RunStep(t), Head(rdTodo[t]) \in FreeStep
  PROVE  RdInv'
  <1> DEFINE x == Head(rdTodo[t])
  <1>1. /\ RdTypeOK /\ BandOK /\ rdTodo[t] # <<>> /\ x.op \notin {"chan", "sel", "unlock"}
        /\ rd' = Effect(rd, x) /\ rdTodo' = [rdTodo EXCEPT ![t] = Tail(@)]
        /\ UNCHANGED <<rdSet, rdQ, rdLock, rdTorn>>
    BY DEF RdInv, RunStep
  <1>2. /\ rdTodo' \in [RdThreads -> Seq(FreeStep \cup LockStep)]
        /\ rdTodo'[t] = Tail(rdTodo[t])
        /\ \A u \in RdThreads \ {t} : rdTodo'[u] = rdTodo[u]
    BY <1>1, Popped
  <1>3. Kept(rd, rd', MlmeFields) /\ MlmeOK(rd')
    <2> HIDE DEF x
    <2>1. x \in FreeStep
      BY DEF x
    <2> QED
      BY <1>1, <2>1, FreeEffect DEF RdTypeOK, Tunable
  <1>4. Kept(rd, rd', MlmeFields \cup {"stopped"}) /\ (rd.chan = 0 => rd'.stopped)
    BY <1>1, <1>3 DEF RdTypeOK, Kept, RdFields, MlmeFields
  <1>5. /\ Tunable(rd') /\ rd'.chan = rd.chan
        /\ BandAgrees(rd) => BandAgrees(rd')
        /\ SwingAgrees(rd) => SwingAgrees(rd')
        /\ RfAgrees(rd) => RfAgrees(rd')
        /\ BwAgrees(rd) => BwAgrees(rd')
        /\ PowerAgrees(rd) => PowerAgrees(rd')
    BY <1>1, <1>4, Carried DEF RdTypeOK
  <1>6. (Tunable(rd') => Tunable(rd)') /\ (BandAgrees(rd') => BandAgrees(rd)')
    BY <1>1 DEF Tunable, DiffsOK, SwingOf, BandAgrees, DiffOf
  <1>7. RdTypeOK'
    BY <1>1, <1>2, <1>3, <1>4, <1>5, <1>6 DEF RdTypeOK, Sets, MlmeOK
  <1>8. BandOK'
    BY <1>1, <1>5, <1>6 DEF BandOK, SwingAgrees
  <1>9. ASSUME ~rdTorn PROVE LockOK'
    <2>1. LockRight(rd, rdLock, rdTodo)
      BY <1>9 DEF RdInv, LockOK
    <2>2. x.op \notin {"sw", "bw", "power", "unlock"}
      BY FreeOps
    <2>3. rdLock # t
      <3>1. ASSUME rdLock = t PROVE FALSE
        <4>1. Holding(rdTodo[t])
          BY <2>1, <3>1 DEF LockRight
        <4>2. rdTodo[t][1].op \in {"sw", "bw", "power", "unlock"}
          <5>1. PICK n \in 1 .. Len(rdTodo[t]) :
                   /\ rdTodo[t][n].op = "unlock"
                   /\ \A i \in 1 .. n - 1 : rdTodo[t][i].op \in {"sw", "bw", "power"}
            BY <4>1 DEF Holding
          <5>2. n = 1 \/ 1 \in 1 .. n - 1
            BY <5>1
          <5> QED
            BY <5>1, <5>2
        <4>3. x = rdTodo[t][1]
          BY <1>1, TailHeld DEF RdTypeOK
        <4> QED
          BY <2>2, <4>2, <4>3
      <3> QED
        BY <3>1
    <2>4. rdTodo'[t] \in Seq(FreeStep)
      <3>1. rdTodo[t] \in Seq(FreeStep)
        BY <2>1, <2>3 DEF LockRight
      <3> QED
        BY <1>1, <1>2, <3>1, TailHeld
    <2>5. \A u \in RdThreads : rdLock = u => rdTodo'[u] = rdTodo[u]
      BY <1>2, <2>3
    <2>6. \A u \in RdThreads : rdLock = u => Holding(rdTodo'[u])
      BY <2>1, <2>5 DEF LockRight
    <2>7. \A u \in RdThreads : rdLock # u => rdTodo'[u] \in Seq(FreeStep)
      BY <1>2, <2>1, <2>4 DEF LockRight
    <2>8. \A op : Awaits(rdLock, rdTodo, op) => Awaits(rdLock, rdTodo', op)
      BY <2>5 DEF Awaits
    <2>9. /\ rd'.chan # 0 => RfAgrees(rd') \/ Awaits(rdLock, rdTodo', "sw")
          /\ rd'.chan # 0 => BwAgrees(rd') \/ Awaits(rdLock, rdTodo', "bw")
          /\ rd'.chan # 0 => PowerAgrees(rd') \/ Awaits(rdLock, rdTodo', "power")
      BY <1>5, <2>1, <2>8 DEF LockRight
    <2>10. rdLock \in RdThreads \cup {"free"}
      BY <2>1 DEF LockRight
    <2>11. LockRight(rd', rdLock, rdTodo')
      BY <2>6, <2>7, <2>9, <2>10, LockMade
    <2> QED
      BY <1>1, <2>11 DEF LockOK
  <1> QED
    BY <1>1, <1>7, <1>8, <1>9 DEF RdInv

\* A callback is run by the holder; the callbacks left are those of the rest of its list.
LEMMA TuneRun ==
  ASSUME RdInv, NEW t \in RdThreads, RunStep(t), Head(rdTodo[t]) \in TuneStep
  PROVE  RdInv'
  <1> DEFINE x == Head(rdTodo[t])
             q == rdTodo[t]
  <1>1. /\ RdTypeOK /\ BandOK /\ q # <<>>
        /\ rd' = Effect(rd, x) /\ rdTodo' = [rdTodo EXCEPT ![t] = Tail(@)]
        /\ UNCHANGED <<rdSet, rdQ, rdLock, rdTorn>>
    BY DEF RdInv, RunStep
  <1>2. /\ rdTodo' \in [RdThreads -> Seq(FreeStep \cup LockStep)]
        /\ rdTodo'[t] = Tail(q)
        /\ \A u \in RdThreads \ {t} : rdTodo'[u] = rdTodo[u]
    BY <1>1, Popped
  <1>3. /\ Kept(rd, rd', SwFields \cup BwFields \cup {"hPower"}) /\ DiffsOK(rd')
        /\ BandAgrees(rd) => BandAgrees(rd')
        /\ BandAgrees(rd) /\ SwingAgrees(rd) => SwingAgrees(rd')
        /\ BandAgrees(rd) /\ (RfAgrees(rd) \/ x.op = "sw") => RfAgrees(rd')
        /\ BwAgrees(rd) \/ x.op = "bw" => BwAgrees(rd')
        /\ PowerAgrees(rd) \/ x.op = "power" => PowerAgrees(rd')
    <2> HIDE DEF x
    <2>1. x \in TuneStep /\ Sets /\ Tunable(rd)
      BY <1>1 DEF x, RdTypeOK
    <2> QED
      BY <1>1, <2>1, TuneEffect
  <1>4. Tunable(rd') /\ MlmeOK(rd') /\ rd'.chan = rd.chan /\ rd'.stopped = rd.stopped
    BY <1>1, <1>3 DEF RdTypeOK, Tunable, MlmeOK, Kept, RdFields, SwFields, BwFields
  <1>5. (Tunable(rd') => Tunable(rd)') /\ (BandAgrees(rd') => BandAgrees(rd)')
    BY <1>1 DEF Tunable, DiffsOK, SwingOf, BandAgrees, DiffOf
  <1>6. RdTypeOK'
    BY <1>1, <1>2, <1>4, <1>5 DEF RdTypeOK, Sets, MlmeOK
  <1>7. BandOK'
    BY <1>1, <1>3, <1>4, <1>5 DEF BandOK, SwingAgrees
  <1>8. ASSUME ~rdTorn PROVE LockOK'
    <2>1. LockRight(rd, rdLock, rdTodo)
      BY <1>8 DEF RdInv, LockOK
    <2>2. x.op \in {"sw", "bw", "power"}
      BY DEF TuneStep
    <2>3. /\ x = q[1] /\ Len(q) \in Nat \ {0} /\ Tail(q) \in Seq(FreeStep \cup LockStep)
          /\ Len(Tail(q)) = Len(q) - 1
          /\ \A i \in 1 .. Len(q) - 1 : Tail(q)[i] = q[i + 1]
      BY <1>1, TailHeld DEF RdTypeOK
    <2>4. rdLock = t
      <3>1. ASSUME rdLock # t PROVE FALSE
        <4>1. q \in Seq(FreeStep)
          BY <2>1, <3>1 DEF LockRight
        <4>2. x \in FreeStep
          BY <1>1, <4>1, TailHeld
        <4> QED
          BY <2>2, <4>2, FreeOps
      <3> QED
        BY <3>1
    <2> HIDE DEF x, q
    <2>5. Holding(Tail(q))
      <3>1. Holding(q)
        BY <2>1, <2>4 DEF LockRight, q
      <3>2. PICK n \in 1 .. Len(q) :
               /\ q[n].op = "unlock" /\ \A i \in 1 .. n - 1 : q[i].op \in {"sw", "bw", "power"}
               /\ \A i \in n + 1 .. Len(q) : q[i] \in FreeStep
        BY <3>1 DEF Holding
      <3>3. n # 1
        BY <2>2, <2>3, <3>2
      <3> DEFINE z == Tail(q)
                 m == n - 1
      <3>4. m \in 1 .. Len(z) /\ z[m].op = "unlock"
        BY <2>3, <3>2, <3>3
      <3>5. \A i \in 1 .. m - 1 : z[i].op \in {"sw", "bw", "power"}
        <4>1. \A i \in 1 .. m - 1 : i + 1 \in 1 .. n - 1 /\ i \in 1 .. Len(q) - 1
          BY <2>3, <3>2
        <4> QED
          BY <2>3, <3>2, <4>1
      <3>6. \A i \in m + 1 .. Len(z) : z[i] \in FreeStep
        <4>1. \A i \in m + 1 .. Len(z) : i + 1 \in n + 1 .. Len(q) /\ i \in 1 .. Len(q) - 1
          BY <2>3, <3>2, <3>4
        <4> QED
          BY <2>3, <3>2, <4>1
      <3> QED
        BY <3>4, <3>5, <3>6 DEF Holding
    <2>6. \A op : Awaits(rdLock, rdTodo, op) => op = x.op \/ Awaits(rdLock, rdTodo', op)
      <3> TAKE op
      <3> HAVE Awaits(rdLock, rdTodo, op)
      <3>1. PICK i \in 1 .. Len(q) : q[i].op = op
        BY <2>4 DEF Awaits, q
      <3>2. CASE i = 1
        BY <2>3, <3>1, <3>2
      <3>3. CASE i # 1
        <4>1. i - 1 \in 1 .. Len(Tail(q)) /\ Tail(q)[i - 1] = q[i]
          BY <2>3, <3>3
        <4>2. i - 1 \in 1 .. Len(rdTodo'[t]) /\ rdTodo'[t][i - 1].op = op
          BY <1>2, <3>1, <4>1
        <4> QED
          BY <2>4, <4>2 DEF Awaits
      <3> QED
        BY <3>2, <3>3
    <2>7. rd'.chan # 0 => BandAgrees(rd)
      BY <1>1, <1>4 DEF BandOK
    <2>8. /\ rd'.chan # 0 => RfAgrees(rd') \/ Awaits(rdLock, rdTodo', "sw")
          /\ rd'.chan # 0 => BwAgrees(rd') \/ Awaits(rdLock, rdTodo', "bw")
          /\ rd'.chan # 0 => PowerAgrees(rd') \/ Awaits(rdLock, rdTodo', "power")
      BY <1>3, <1>4, <2>1, <2>6, <2>7 DEF LockRight
    <2>9. \A u \in RdThreads : rdLock = u => Holding(rdTodo'[u])
      BY <1>2, <2>4, <2>5
    <2>10. \A u \in RdThreads : rdLock # u => rdTodo'[u] \in Seq(FreeStep)
      BY <1>2, <2>1, <2>4 DEF LockRight
    <2>11. LockRight(rd', rdLock, rdTodo')
      BY <2>4, <2>8, <2>9, <2>10, LockMade
    <2> QED
      BY <1>1, <2>11 DEF LockOK
  <1> QED
    BY <1>1, <1>6, <1>7, <1>8 DEF RdInv

\* Every step keeps the invariant.
LEMMA RdInvStep == RdInv /\ [RdNext]_rdVars => RdInv'
  <1> SUFFICES ASSUME RdInv, [RdNext]_rdVars PROVE RdInv'
    OBVIOUS
  <1>1. CASE RdUp
    BY <1>1, UpStep
  <1>2. CASE RdDown
    BY <1>2, DownStep
  <1>3. CASE SignalPending
    BY <1>3, SignalStep
  <1>4. CASE RunCommand
    BY <1>4, CommandStep
  <1>5. CASE SurveyTimer
    BY <1>5, TimerStep
  <1>6. ASSUME NEW t \in RdThreads, TakeSetch(t) PROVE RdInv'
    BY <1>6, TakeStep
  <1>7. ASSUME NEW t \in RdThreads, RunStep(t) PROVE RdInv'
    <2>1. rdTodo[t] # <<>> /\ Head(rdTodo[t]).op # "unlock"
          /\ rdTodo[t] \in Seq(FreeStep \cup LockStep)
      BY <1>7 DEF RunStep, RdInv, RdTypeOK
    <2>2. Head(rdTodo[t]) \in FreeStep \cup LockStep
      BY <2>1, TailHeld
    <2>3. Head(rdTodo[t]) \in FreeStep \/ Head(rdTodo[t]) \in TuneStep
      BY <2>1, <2>2 DEF LockStep
    <2> QED
      BY <1>7, <2>3, FreeRun, TuneRun
  <1>8. ASSUME NEW t \in RdThreads, ReleaseSetch(t) PROVE RdInv'
    BY <1>8, ReleaseStep
  <1>9. CASE \/ ReqSurvey \/ ReqDisconnect \/ Deauth
             \/ \E n \in RdNets, d \in BOOLEAN : ReqJoin(n, d)
             \/ \E m \in {"sta", "ap"} : ReqMode(m)
    BY <1>9, RequestSteps
  <1>10. ASSUME NEW ch \in RdApCh, NEW n \in RdNets, ReqAp(ch, n) PROVE RdInv'
    BY <1>10, ApStep
  <1>11. ASSUME NEW done \in BOOLEAN, JoinEnds(done) PROVE RdInv'
    BY <1>11, JoinEndsStep
  <1>12. CASE UNCHANGED rdVars
    <2>1. UNCHANGED <<rdSet, rd, rdTodo, rdQ, rdLock, rdTorn>>
      BY <1>12 DEF rdVars
    <2> QED
      BY <2>1 DEF RdInv, RdTypeOK, BandOK, LockOK, Sets, Tunable, DiffsOK, SwingOf, MlmeOK,
         BandAgrees, DiffOf, SwingAgrees
  <1> QED
    BY <1>1, <1>2, <1>3, <1>4, <1>5, <1>6, <1>7, <1>8, <1>9, <1>10, <1>11, <1>12 DEF RdNext

\* The invariant holds throughout.
LEMMA RdInvAlways == RdSpec => []RdInv
  BY RdInvInit, RdInvStep, PTL DEF RdSpec

\* For every set of chips, EFUSE swings, networks, survey lists and access point channels: when
\* nobody holds setch_mutex and no pending signal made a process go on without it, the baseband,
\* the RF chip and the power tables are set for what PHY_HandleSwChnlAndSetBW8812 has on record,
\* so a request it skips as already set was indeed set.
THEOREM TunerAgrees == RdSpec => []ChannelAgrees
  <1>1. RdInv => ChannelAgrees
    <2> SUFFICES ASSUME RdInv, rdLock = "free", ~rdTorn, rd.chan # 0 PROVE Tuned(rd)
      BY DEF ChannelAgrees
    <2>1. LockRight(rd, "free", rdTodo) /\ BandAgrees(rd)
      BY DEF RdInv, LockOK, BandOK
    <2>2. "free" \notin RdThreads
      BY DEF RdThreads
    <2>3. RfAgrees(rd) /\ BwAgrees(rd) /\ PowerAgrees(rd)
      BY <2>1, <2>2 DEF LockRight, Awaits
    <2> QED
      BY <2>1, <2>3 DEF Tuned, RfAgrees, BwAgrees, PowerAgrees, BandAgrees
  <1> QED
    BY <1>1, RdInvAlways, PTL

\* However often the bands change, and however requests interleave, the base index of the power
\* tracking is that of the swing programmed (rtl8821au_phy_switch_wirelessband).
THEOREM SwingKept == RdSpec => []SwingTracks
  <1>1. RdInv => SwingTracks
    BY DEF RdInv, BandOK, SwingAgrees, SwingTracks
  <1> QED
    BY <1>1, RdInvAlways, PTL

=============================================================================
