--------------------------------- MODULE Fw ---------------------------------
(***************************************************************************)
(* The firmware of the chip, rtl8821au/fw.c: its download at every         *)
(* bring-up, the four mailboxes through which the driver commands it (H2C),*)
(* and the report of a new link, which loads frames into the pages of the  *)
(* transmit buffer reserved for the firmware.                              *)
(*                                                                         *)
(* The report also sets the AID and switches beaconing off around the      *)
(* download (REG_CR, REG_BCN_CTRL, REG_FWHW_TXQ_CTRL).  These registers are*)
(* not part of the model: their other writers (the modes, joins and        *)
(* disconnects of hw.c) are not either.                                    *)
(*                                                                         *)
(* The firmware itself is external: it empties the mailboxes in turn,      *)
(* starting with box 0 after a download, takes a command when its main     *)
(* word was written and reads the extension word with it.                  *)
(***************************************************************************)
EXTENDS Integers, Sequences, FiniteSets

CONSTANTS FwChips,      \* subset of {"8812", "8821"}
          FwSizes,      \* image sizes in bytes, without the header
          BcnNets,      \* networks of the links reported: bssid, lengths of ssid and rates
          H2cThreads,   \* threads that send commands, "cmd" among them
          MaxH2c,       \* bound: commands, reports and power cycles begun (none once torn)
          MaxDl         \* bound: reserved-page downloads of one report

ASSUME FwAssumption ==
    /\ "cmd" \in H2cThreads /\ "free" \notin H2cThreads
    /\ FwSizes \subseteq Nat \ {0} /\ \A n \in BcnNets : n.ssid \in Nat /\ n.rates \in Nat
    /\ FwChips \subseteq {"8812", "8821"} /\ MaxH2c \in Nat /\ MaxDl \in Nat

VARIABLES
    fwChip,     \* the chip
    fwHal,      \* ready: fw_ready, last: last_hmeboxnum
    fwDl,       \* download: place, image size, next page, what each page holds
    fwPages,    \* the reserved pages: the network whose frames they hold (a set), BCN_VALID,
                \* the network of the frames on their way there
    fwBox,      \* box -> [full, main, ext]: HMEBOX, HMEBOX_EXT and its bit of HMETFR
    fwMcu,      \* the firmware's next box
    fwSent,     \* commands written into a box and not taken yet, the oldest first
    h2cOwner,   \* h2c_fwcmd_mutex
    h2cAt,      \* thread -> its place in _rtl8821au_fill_h2c_cmd
    fwJr,       \* the latest report: place, downloads, its network (a set), bcn_valid
    fwTorn,     \* a signal ended a wait for the mutex, or a download found a writer
    fwOps

fwVars == <<fwChip, fwHal, fwDl, fwPages, fwBox, fwMcu, fwSent, h2cOwner, h2cAt, fwJr, fwTorn, fwOps>>
mailVars == <<fwHal, fwBox, fwMcu, fwSent, h2cOwner, h2cAt>>

Boxes == 0..3                   \* RTL8812_MAX_H2C_BOX_NUMS
NoCmd == [id |-> "none", len |-> 0, arg |-> <<>>, no |-> 0]
OutOfH2c == [at |-> "out", cmd |-> NoCmd, box |-> 0]
EmptyBox == [full |-> FALSE, main |-> NoCmd, ext |-> NoCmd]
NoReport == [at |-> "none", dl |-> 0, of |-> {}, valid |-> FALSE]
NoPages == [held |-> {}, valid |-> FALSE, air |-> {}]

FwInit ==
    /\ fwChip \in FwChips
    /\ fwHal = [ready |-> FALSE, last |-> 0]
    /\ fwDl = [at |-> "off", size |-> 0, page |-> 0, ram |-> <<>>]
    /\ fwPages = NoPages
    /\ fwBox = [b \in Boxes |-> EmptyBox]
    /\ fwMcu = 0 /\ fwSent = <<>>
    /\ h2cOwner = "free" /\ h2cAt = [t \in H2cThreads |-> OutOfH2c]
    /\ fwJr = NoReport /\ fwTorn = FALSE /\ fwOps = 0

FwOp == fwOps < MaxH2c /\ ~fwTorn /\ fwOps' = fwOps + 1

-----------------------------------------------------------------------------
(* Download.  A run <<start, block, count>> stands for count writes of     *)
(* block bytes, from start on in the page and from the same place in the   *)
(* buffer.                                                                 *)

\* _BlockWrite_8812 with the second phase counted from the whole buffer.
_BlockWrite_8812_Whole(n) ==
    LET c1 == n \div 196
        c2 == n \div 8
        r2 == (n % 196) % 8
    IN <<<<0, 196, c1>>, <<c1 * 196, 8, c2>>, <<c1 * 196 + c2 * 8, 1, r2>>>>

\* Blocks of MAX_REG_BOLCK_SIZE bytes, then of 8, then single bytes.
_BlockWrite_8812(n) ==
    LET c1 == n \div 196
        c2 == (n % 196) \div 8
        r2 == (n % 196) % 8
    IN <<<<0, 196, c1>>, <<c1 * 196, 8, c2>>, <<c1 * 196 + c2 * 8, 1, r2>>>>

MAX_DLFW_PAGE_SIZE == 4096

\* rtl8821au_download_fw as far as the first page: a file that is missing or a
\* buffer that cannot be had leaves fw_ready false and hw_init goes on; 8051
\* code still running in RAM is reset, the download is enabled.
DownloadBegin ==
    /\ fwDl.at = "off"
    /\ \/ \E n \in FwSizes : fwDl' = [at |-> "write", size |-> n, page |-> 0, ram |-> <<>>]
       \/ fwDl' = [fwDl EXCEPT !.at = "done"]
    /\ fwHal' = [fwHal EXCEPT !.ready = FALSE, !.last = 0]
    /\ UNCHANGED <<fwChip, fwPages, fwBox, fwMcu, fwSent, h2cOwner, h2cAt, fwJr, fwTorn, fwOps>>

\* _PageWrite_8812, called by _WriteFW_8812 for each full page and the rest.
_PageWrite_8812 ==
    /\ fwDl.at = "write" /\ fwDl.page * MAX_DLFW_PAGE_SIZE < fwDl.size
    /\ LET left == fwDl.size - fwDl.page * MAX_DLFW_PAGE_SIZE
           n == IF left > MAX_DLFW_PAGE_SIZE THEN MAX_DLFW_PAGE_SIZE ELSE left
       IN fwDl' = [fwDl EXCEPT !.page = @ + 1, !.ram = Append(@, _BlockWrite_8812(n))]
    /\ UNCHANGED <<fwChip, fwPages, fwJr, fwTorn, fwOps, mailVars>>

\* _rtl8821au_fw_free_to_go: the checksum is reported, the 8051 started, and it
\* says WINTINI_RDY; either wait may be in vain.
_rtl8821au_fw_free_to_go ==
    /\ fwDl.at = "write" /\ fwDl.page * MAX_DLFW_PAGE_SIZE >= fwDl.size
    /\ \/ fwDl' = [fwDl EXCEPT !.at = "ready"]
       \/ fwDl' = [fwDl EXCEPT !.at = "done"]
    /\ UNCHANGED <<fwChip, fwPages, fwJr, fwTorn, fwOps, mailVars>>

\* hw_init after the download: fw_ready, and InitializeFirmwareVars8812 starts
\* again with box 0, where the new firmware starts too.
DownloadEnd ==
    /\ fwDl.at = "ready"
    /\ fwDl' = [at |-> "done", size |-> 0, page |-> 0, ram |-> <<>>]
    /\ fwHal' = [fwHal EXCEPT !.ready = TRUE, !.last = 0]
    /\ fwBox' = [b \in Boxes |-> EmptyBox]
    /\ fwMcu' = 0 /\ fwSent' = <<>>
    /\ fwTorn' = (fwTorn \/ \E t \in H2cThreads : h2cAt[t].at # "out")
    /\ UNCHANGED <<fwChip, fwPages, h2cOwner, h2cAt, fwJr, fwOps>>

\* Inactive power save or a closed interface: the chip is off, to come back
\* with a new download.  fw_ready keeps its value until then.
PowerCycle ==
    /\ fwDl.at = "done" /\ fwJr.at = "none" /\ FwOp
    /\ fwDl' = [at |-> "off", size |-> 0, page |-> 0, ram |-> <<>>]
    /\ fwPages' = NoPages /\ fwJr' = NoReport
    /\ fwBox' = [b \in Boxes |-> EmptyBox] /\ fwMcu' = 0 /\ fwSent' = <<>>
    /\ fwTorn' = (fwTorn \/ \E t \in H2cThreads : h2cAt[t].at # "out")
    /\ UNCHANGED <<fwChip, fwHal, h2cOwner, h2cAt>>

-----------------------------------------------------------------------------
(* Mailboxes.                                                              *)

\* The boxes are taken to be empty.
_is_fw_read_cmd_down_Never(b) == TRUE
_is_fw_read_cmd_down(b) == ~fwBox[b].full

H2cTo(t, p) == h2cAt' = [h2cAt EXCEPT ![t].at = p]

\* rtl8821au_fill_h2c_cmd: without firmware it returns at once.
H2cCall(t, id, len, arg) ==
    IF fwHal.ready
    THEN h2cAt' = [h2cAt EXCEPT ![t] = [at |-> "lock", cmd |-> [id |-> id, len |-> len, arg |-> arg, no |-> fwOps + 1], box |-> 0]]
    ELSE UNCHANGED h2cAt

\* The rate mask of a station (7 bytes), only with rate control in the firmware
\* (fw_ractrl, set with fw_ready) and if the MAC id has a station.
rtl8812_set_raid_cmd(t) == H2cCall(t, "raid", 7, <<>>)

\* A MAC id gains or loses its link (3 bytes).
rtl8812_set_FwMediaStatus_cmd(t) == H2cCall(t, "msrrpt", 3, <<>>)

rtl8821au_fill_h2c_cmd(t) ==
    /\ h2cAt[t].at = "out" /\ (t = "cmd" => fwJr.at = "none")
    /\ fwDl.at = "done" /\ FwOp
    /\ rtl8812_set_raid_cmd(t) \/ rtl8812_set_FwMediaStatus_cmd(t)
    /\ UNCHANGED <<fwChip, fwHal, fwDl, fwPages, fwBox, fwMcu, fwSent, h2cOwner, fwJr, fwTorn>>

\* mutex_lock_interruptible; its answer is not looked at, so that a signal
\* lets the thread on without the mutex.
H2cLock(t) ==
    /\ h2cAt[t].at = "lock"
    /\ \/ h2cOwner = "free" /\ h2cOwner' = t /\ UNCHANGED fwTorn
       \/ h2cOwner # "free" /\ fwTorn' = TRUE /\ UNCHANGED h2cOwner
    /\ H2cTo(t, "poll")
    /\ UNCHANGED <<fwChip, fwHal, fwDl, fwPages, fwBox, fwMcu, fwSent, fwJr, fwOps>>

\* The next box is free, or 101 reads of HMETFR were in vain and the command
\* is dropped.
H2cPoll(t) ==
    /\ h2cAt[t].at = "poll"
    /\ IF _is_fw_read_cmd_down(fwHal.last)
       THEN h2cAt' = [h2cAt EXCEPT ![t].at = "ext", ![t].box = fwHal.last]
       ELSE H2cTo(t, "unlock")
    /\ UNCHANGED <<fwChip, fwHal, fwDl, fwPages, fwBox, fwMcu, fwSent, h2cOwner, fwJr, fwTorn, fwOps>>

\* Bytes 4 to 7 of a longer command, before the main word.
H2cExt(t) ==
    /\ h2cAt[t].at = "ext"
    /\ fwBox' = [fwBox EXCEPT ![h2cAt[t].box].ext = IF h2cAt[t].cmd.len > 3 THEN h2cAt[t].cmd ELSE @]
    /\ H2cTo(t, "main")
    /\ UNCHANGED <<fwChip, fwHal, fwDl, fwPages, fwMcu, fwSent, h2cOwner, fwJr, fwTorn, fwOps>>

\* The main word; the next command goes to the next box.
H2cMain(t) ==
    /\ h2cAt[t].at = "main"
    /\ fwBox' = [fwBox EXCEPT ![h2cAt[t].box].full = TRUE, ![h2cAt[t].box].main = h2cAt[t].cmd]
    /\ fwSent' = Append(fwSent, h2cAt[t].cmd)
    /\ fwHal' = [fwHal EXCEPT !.last = (h2cAt[t].box + 1) % 4]
    /\ H2cTo(t, "unlock")
    /\ UNCHANGED <<fwChip, fwDl, fwPages, fwMcu, h2cOwner, fwJr, fwTorn, fwOps>>

\* mutex_unlock, whoever holds it.
H2cUnlock(t) ==
    /\ h2cAt[t].at = "unlock"
    /\ h2cOwner' = "free"
    /\ h2cAt' = [h2cAt EXCEPT ![t] = OutOfH2c]
    /\ UNCHANGED <<fwChip, fwHal, fwDl, fwPages, fwBox, fwMcu, fwSent, fwJr, fwTorn, fwOps>>

\* External: the firmware takes the command of its next box (whose words nobody
\* reads again).
FirmwareTakes ==
    /\ fwDl.at = "done" /\ fwBox[fwMcu].full
    /\ fwMcu' = (fwMcu + 1) % 4
    /\ fwBox' = [fwBox EXCEPT ![fwMcu] = EmptyBox]
    /\ fwSent' = IF fwSent = <<>> THEN <<>> ELSE Tail(fwSent)
    /\ UNCHANGED <<fwChip, fwHal, fwDl, fwPages, h2cOwner, h2cAt, fwJr, fwTorn, fwOps>>

-----------------------------------------------------------------------------
(* The report of a new link (rtl8821au_set_fw_joinbss_report_cmd) on the   *)
(* command thread.                                                         *)

PageSize == IF fwChip = "8812" THEN 512 ELSE 256
TXDESC_SIZE == 40

\* Pages left out of the transmit queues: 256 - TX_PAGE_BOUNDARY.
GetTxBufferRsvdPageNum8812 == IF fwChip = "8812" THEN 256 - 249 ELSE 256 - 248

PageNum(len, size) == (len \div size) + (IF len % size # 0 THEN 1 ELSE 0)

\* Length of the beacon built for a station's link: header and fixed fields,
\* SSID, rates (the ninth and later ones in an element of their own), channel.
ConstructBeacon(ies) ==
    24 + 8 + 2 + 2 + 2 + ies.ssid + 2 + (IF ies.rates > 8 THEN 8 + 2 + ies.rates - 8 ELSE ies.rates) + 3

PSPollLength == 16
NullFunctionDataLength == 24
QosNullLength == 26

\* SetFwRsvdPagePkt_8812: beacon, PS-Poll, null data, QoS null data, each from
\* a new page on; the pages where the last three begin are told the firmware.
RsvdPageLoc(ies) ==
    LET p1 == PageNum(ConstructBeacon(ies) + TXDESC_SIZE, PageSize)
        p2 == p1 + PageNum(PSPollLength + TXDESC_SIZE, PageSize)
        p3 == p2 + PageNum(NullFunctionDataLength + TXDESC_SIZE, PageSize)
    IN [pspoll |-> p1, null |-> p2, qosnull |-> p3,
        total |-> p3 + PageNum(QosNullLength + TXDESC_SIZE, PageSize)]

\* HW_VAR_BCN_VALID left as it is.
BcnValidCleared_Not(p) == p
\* HW_VAR_BCN_VALID: a one is written to the valid bit.
BcnValidCleared(p) == [p EXCEPT !.valid = FALSE]

\* The valid bit is cleared.  Frames of an earlier report do not outlast the
\* time between two links.
ReportBegin ==
    /\ fwJr.at = "none" /\ h2cAt["cmd"].at = "out" /\ fwDl.at = "done" /\ FwOp
    /\ \E n \in BcnNets : fwJr' = [at |-> "load", dl |-> 0, of |-> {n}, valid |-> FALSE]
    /\ fwPages' = [BcnValidCleared(fwPages) EXCEPT !.air = {}]
    /\ UNCHANGED <<fwChip, fwHal, fwDl, fwBox, fwMcu, fwSent, h2cOwner, h2cAt, fwTorn>>

\* SetFwRsvdPagePkt_8812 up to the wait of dump_mgntframe_and_wait: no frame or
\* too long a packet, or the packet is sent, or refused.
SetFwRsvdPagePkt_8812 ==
    /\ fwJr.at = "load"
    /\ \/ fwJr' = [fwJr EXCEPT !.at = "poll", !.dl = @ + 1] /\ UNCHANGED fwPages
       \/ /\ \A n \in fwJr.of : RsvdPageLoc(n).total * PageSize <= GetTxBufferRsvdPageNum8812 * PageSize
          /\ fwJr' = [fwJr EXCEPT !.at = "wait", !.dl = @ + 1]
          /\ \E sent \in BOOLEAN : fwPages' = [fwPages EXCEPT !.air = IF sent THEN fwJr.of ELSE @]
    /\ UNCHANGED <<fwChip, fwHal, fwDl, fwBox, fwMcu, fwSent, h2cOwner, h2cAt, fwTorn, fwOps>>

\* External: the chip puts the frames into the reserved pages, in time for the
\* wait, for a later poll, or after the report has given up.
RsvdPagesArrive ==
    /\ fwPages.air # {}
    /\ fwPages' = [held |-> fwPages.air, valid |-> TRUE, air |-> {}]
    /\ UNCHANGED <<fwChip, fwDl, fwJr, fwTorn, fwOps, mailVars>>

\* The wait ends, with or without completion, and the locations follow through
\* a mailbox.
RsvdPagesTell ==
    /\ fwJr.at = "wait"
    /\ \E n \in fwJr.of : H2cCall("cmd", "rsvdpage", 5, RsvdPageLoc(n))
    /\ fwJr' = [fwJr EXCEPT !.at = "poll"]
    /\ UNCHANGED <<fwChip, fwHal, fwDl, fwPages, fwBox, fwMcu, fwSent, h2cOwner, fwTorn, fwOps>>

\* Ten reads of the valid bit; again, 101 times at most (MaxDl + 1), or until
\* the driver is stopped or the device gone.
ReportPoll ==
    /\ fwJr.at = "poll" /\ h2cAt["cmd"].at = "out"
    /\ \E next \in IF fwPages.valid \/ fwJr.dl > MaxDl THEN {"end"} ELSE {"load", "end"} :
          fwJr' = [fwJr EXCEPT !.valid = fwPages.valid, !.at = next]
    /\ UNCHANGED <<fwChip, fwHal, fwDl, fwPages, fwBox, fwMcu, fwSent, h2cOwner, h2cAt, fwTorn, fwOps>>

\* The valid bit is cleared if it was seen; if not, frames that come now leave
\* it set.
ReportEnd ==
    /\ fwJr.at = "end"
    /\ fwPages' = IF fwJr.valid THEN BcnValidCleared(fwPages) ELSE fwPages
    /\ fwJr' = [fwJr EXCEPT !.at = "none"]
    /\ UNCHANGED <<fwChip, fwHal, fwDl, fwBox, fwMcu, fwSent, h2cOwner, h2cAt, fwTorn, fwOps>>

-----------------------------------------------------------------------------
FwNext ==
    \/ DownloadBegin \/ _PageWrite_8812 \/ _rtl8821au_fw_free_to_go \/ DownloadEnd \/ PowerCycle
    \/ FirmwareTakes
    \/ ReportBegin \/ SetFwRsvdPagePkt_8812 \/ RsvdPagesArrive \/ RsvdPagesTell \/ ReportPoll \/ ReportEnd
    \/ \E t \in H2cThreads :
          rtl8821au_fill_h2c_cmd(t) \/ H2cLock(t) \/ H2cPoll(t) \/ H2cExt(t) \/ H2cMain(t) \/ H2cUnlock(t)

FwSpec == FwInit /\ [][FwNext]_fwVars

-----------------------------------------------------------------------------
\* When the 8051 reports ready, its RAM holds the image: the pages cover it,
\* and in each the runs of writes follow one another without gap or overlap
\* (_WriteFW_8812, _PageWrite_8812, _BlockWrite_8812).
ImageWhole ==
    fwDl.at = "ready" =>
        LET End(run) == run[1] + run[2] * run[3]
            Held(p) == LET w == fwDl.ram[p] IN IF w[1][1] = 0 /\ w[2][1] = End(w[1]) /\ w[3][1] = End(w[2]) THEN End(w[3]) ELSE -1
            n == Len(fwDl.ram)
        IN /\ \A p \in 1..(n - 1) : Held(p) = MAX_DLFW_PAGE_SIZE
           /\ Held(n) = fwDl.size - (n - 1) * MAX_DLFW_PAGE_SIZE

\* The boxes hold, from the firmware's next one on, the commands not taken yet
\* in the order in which they were written, each whole: no box is written before it was read, no two threads write into
\* one box, and the extension word belongs to the main word
\* (_rtl8821au_fill_h2c_cmd).  Excepted is what follows a wait for the mutex
\* that a signal ended, or a download in the middle of a command.
MailInOrder ==
    fwTorn \/ /\ Len(fwSent) = Cardinality({b \in Boxes : fwBox[b].full})
              /\ \A i \in 1..Len(fwSent) :
                    LET b == fwBox[(fwMcu + i - 1) % 4]
                    IN b.main = fwSent[i] /\ (b.main.len > 3 => b.ext = fwSent[i])

\* What a report takes for its success is the arrival of its own frames: the
\* pages then hold the frames of the link reported, not those that an earlier
\* report had given up or a retry has sent late (HW_VAR_BCN_VALID,
\* rtl8821au_set_fw_joinbss_report_cmd).
PagesOfLink == fwJr.valid => fwPages.held = fwJr.of

\* The pages told the firmware hold the frames they are told for: the frames
\* do not overlap and end inside the reserved pages (SetFwRsvdPagePkt_8812).
PagesTold ==
    \A b \in Boxes :
        LET l == fwBox[b].main.arg
        IN fwBox[b].main.id = "rsvdpage" =>
              /\ 0 < l.pspoll
              /\ l.pspoll * PageSize + PSPollLength + TXDESC_SIZE <= l.null * PageSize
              /\ l.null * PageSize + NullFunctionDataLength + TXDESC_SIZE <= l.qosnull * PageSize
              /\ l.qosnull * PageSize + QosNullLength + TXDESC_SIZE <= GetTxBufferRsvdPageNum8812 * PageSize

\* A report that succeeds has loaded the frames of its own link, and the
\* locations it tells the firmware are those of whole frames
\* (rtl8821au_set_fw_joinbss_report_cmd, SetFwRsvdPagePkt_8812).
ReportRight == PagesOfLink /\ PagesTold
=============================================================================
