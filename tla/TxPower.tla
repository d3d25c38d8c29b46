------------------------------ MODULE TxPower ------------------------------
(***************************************************************************)
(* Transmit power: the calibration the driver reads from the EFUSE map     *)
(* (rtl8821au/hw.c), the power-by-rate and power-limit tables it loads at  *)
(* initialisation and the power index it writes for every rate when the    *)
(* channel is set (rtl8821au/phy.c).                                       *)
(*                                                                         *)
(* The tables are arrays of struct rtl_phy that are indexed past the       *)
(* declared length of their rows (wifi.h), so an element is modelled by    *)
(* its position in the whole array: two index tuples with one position are *)
(* one element, as in the memory of every build.                           *)
(***************************************************************************)
EXTENDS Integers, Sequences, FiniteSets, SequencesExt

CONSTANTS Proms,        \* EFUSE maps: records [fail, map, board] (see MCChip)
          PgRows,       \* chip -> rows of its PHY_REG_PG array
          LmtRows,      \* chip -> rows of its TXPWR_LMT array
          TpChannels,   \* pairs <<channel, bandwidth>> that are tuned
          Remnants      \* values of the remnants of power tracking

ASSUME TpAssumption == \A c \in TpChannels : c[1] \in 1..177 /\ c[2] \in {20, 40, 80}

VARIABLES tpChip,       \* [type, paths, normal]: 8812 or 8821, RF paths, no test chip
          tpProm,       \* the EFUSE map
          tpStage,      \* "off" | "ready"
          byRate,       \* tx_power_by_rate_offset, by position
          limit24,      \* txpwr_limit_2_4g: position -> value of the elements stored
          limit5,       \* txpwr_limit_5g
          agc,          \* <<register, byte>> -> power index written
          train,        \* RF path -> the three bytes of the training register
          tuned         \* <<channel, bandwidth, remnant>> of the last setting

tpVars == <<tpChip, tpProm, tpStage, byRate, limit24, limit5, agc, train, tuned>>

MAX_POWER_INDEX == 63
U8(x) == x % 256
S8(x) == ((x + 128) % 256) - 128

---------------------------------------------------------------------------
\* Rates (enum MGN_RATE) and channels

CckRates == {2, 4, 11, 22}
OfdmRates == {12, 18, 24, 36, 48, 72, 96, 108}
Ht(s) == (128 + 8*(s-1)) .. (128 + 8*s - 1)
Vht(s) == (160 + 10*(s-1)) .. (160 + 10*s - 1)
MGN == [cck |-> <<2, 4, 11, 22>>, ofdm |-> <<12, 18, 24, 36, 48, 72, 96, 108>>]

channel5G == [i \in 1..15 |-> 34 + 2*i] \o [i \in 1..23 |-> 98 + 2*i]
               \o <<149, 151, 153, 155, 157, 159, 161, 163, 165, 167, 168,
                    169, 171, 173, 175, 177>>
In24G(ch) == ch <= 14

\* The range of channels of each group.
Groups24 == <<1..2, 3..5, 6..8, 9..11, 12..14>>
Groups5 == <<36..42, 44..48, 50..58, 60..64, 100..106, 108..114, 116..122,
             124..130, 132..138, 140..144, 149..155, 157..161, 165..171, 173..177>>
GroupIn(groups, ch, none) ==
    LET at == {g \in DOMAIN groups : ch \in groups[g]}
    IN  IF at = {} THEN none ELSE (CHOOSE g \in at : TRUE) - 1

\* The group under which the limit table is stored.
phy_GetChannelGroup(ch) ==
    GroupIn(IF In24G(ch) THEN Groups24 ELSE Groups5, ch, -1)
\* The group whose calibration a channel takes: 0 for a channel without one.
_rtl8821au_get_chnl_group(ch) ==
    GroupIn(IF In24G(ch) THEN Groups24 ELSE Groups5, ch, 0)

\* The position of a channel in its band's limits: -1 when it is not listed.
_rtl8821au_get_chnl_idx_of_txpwr_limit(ch) ==
    IF In24G(ch) THEN ch - 1
    ELSE IF \E i \in DOMAIN channel5G : channel5G[i] = ch
         THEN (CHOOSE i \in DOMAIN channel5G : channel5G[i] = ch) - 1
         ELSE -1

---------------------------------------------------------------------------
\* Calibration: the EFUSE map holds one block of 42 bytes for each RF path

EEPROM_TX_PWR_INX_8812 == 16
DefaultIndex == 42
DefaultDiff == 254
Byte(p, path, off) == p.map[EEPROM_TX_PWR_INX_8812 + 42*path + off]
UseDefault(p) == p.fail \/ p.map[EEPROM_TX_PWR_INX_8812 + 1] = 255
Or255(v, d) == IF v = 255 THEN d ELSE v
\* A signed difference of four bits, extended to the eight of the field.
Nibble(v) == IF v >= 8 THEN v + 240 ELSE v
Hi(b) == Nibble(b \div 16)
Lo(b) == Nibble(b % 16)

\* _rtl8821au_read_power_value_fromprom, 2.4 GHz part
cck_base(p, path, g) == IF UseDefault(p) THEN DefaultIndex
                        ELSE Or255(Byte(p, path, g), DefaultIndex)
bw40_base24(p, path, g) == IF UseDefault(p) THEN DefaultIndex
                           ELSE Or255(Byte(p, path, 6 + g), DefaultIndex)
diff24(p, path, kind, tx) ==
    IF UseDefault(p)
    THEN IF tx > 0 THEN DefaultDiff
         ELSE IF kind = "bw20" THEN 2 ELSE IF kind = "ofdm" THEN 4 ELSE 0
    ELSE IF tx = 0
         THEN IF kind = "bw20" THEN Hi(Byte(p, path, 11))
              ELSE IF kind = "ofdm" THEN Lo(Byte(p, path, 11)) ELSE 0
         ELSE IF kind = "bw40" THEN Hi(Byte(p, path, 10 + 2*tx))
              ELSE IF kind = "bw20" THEN Lo(Byte(p, path, 10 + 2*tx))
              ELSE Hi(Byte(p, path, 11 + 2*tx))
\* _rtl8821au_read_power_value_fromprom, 5 GHz part: a blank base becomes the
\* default of a difference.
bw40_base5(p, path, g) == IF UseDefault(p) THEN DefaultIndex
                          ELSE Or255(Byte(p, path, 18 + g), DefaultDiff)
diff5(p, path, kind, tx) ==
    IF UseDefault(p)
    THEN IF tx > 0 \/ kind = "bw80" THEN DefaultDiff
         ELSE IF kind = "ofdm" THEN 4 ELSE 0
    ELSE IF kind = "bw80" THEN Hi(Byte(p, path, 38 + tx))
    ELSE IF tx = 0
         THEN IF kind = "bw20" THEN Hi(Byte(p, path, 32))
              ELSE IF kind = "ofdm" THEN Lo(Byte(p, path, 32)) ELSE 0
         ELSE IF kind = "bw40" THEN Hi(Byte(p, path, 32 + tx))
              ELSE IF kind = "bw20" THEN Lo(Byte(p, path, 32 + tx))
              ELSE IF tx = 1 THEN Hi(Byte(p, path, 36))
              ELSE IF tx = 2 THEN Lo(Byte(p, path, 36)) ELSE Lo(Byte(p, path, 37))

\* _rtl88au_read_txpower_info_from_hwpg: the bases of each channel.
txpwrlevel_cck(p, path, ch) ==
    cck_base(p, path, IF ch = 14 THEN 5 ELSE _rtl8821au_get_chnl_group(ch))
txpwrlevel_ht40_1s(p, path, ch) == bw40_base24(p, path, _rtl8821au_get_chnl_group(ch))
txpwr_5g_bw40base(p, path, ch) == bw40_base5(p, path, _rtl8821au_get_chnl_group(ch))
txpwr_5g_bw80base(p, path, ch) ==
    LET g == _rtl8821au_get_chnl_group(ch)
    IN  (bw40_base5(p, path, g) + bw40_base5(p, path, g + 1)) \div 2
eeprom_regulatory(p) == IF p.fail THEN 0 ELSE Or255(p.board, 0) % 8

---------------------------------------------------------------------------
\* Power by rate

\* The position of the first rate that equals r, counted from 0.
PosIn(rates, r) == (CHOOSE i \in DOMAIN rates : rates[i] = r) - 1
LegacyIndex(r) == IF r \in CckRates THEN PosIn(MGN.cck, r) ELSE 4 + PosIn(MGN.ofdm, r)
HtIndex(r) == 12 + (r - 128)
VhtIndex(r) == 44 + (r - 160)
PHY_GetRateIndexOfTxPowerByRate(r) ==
    IF r \in CckRates \cup OfdmRates THEN LegacyIndex(r)
    ELSE IF r \in 128..159 THEN HtIndex(r)
    ELSE IF r \in 160..199 THEN VhtIndex(r) ELSE 0

\* The rates whose values the bytes of a register of the table hold: the
\* registers of older chips, the legacy and HT registers, the VHT ones.
OldRates(reg) ==
    IF reg \in {\he00, \h830} THEN SubSeq(MGN.ofdm, 1, 4)
    ELSE IF reg \in {\he04, \h834} THEN SubSeq(MGN.ofdm, 5, 8)
    ELSE IF reg \in {\he10, \h83c} THEN [i \in 1..4 |-> 127 + i]
    ELSE IF reg \in {\he14, \h848} THEN [i \in 1..4 |-> 131 + i]
    ELSE IF reg \in {\he18, \h84c} THEN [i \in 1..4 |-> 135 + i]
    ELSE IF reg \in {\he1c, \h868} THEN [i \in 1..4 |-> 139 + i]
    ELSE <<>>
\* The new registers lie at one offset from the base of each of four paths.
PathBase == {\hc00, \he00, \h1800, \h1a00}
LegacyHtRates(reg) ==
    LET off == reg % \h200
    IN  IF reg - off \notin PathBase THEN <<>>
        ELSE IF off = \h20 THEN MGN.cck
        ELSE IF off = \h24 THEN SubSeq(MGN.ofdm, 1, 4)
        ELSE IF off = \h28 THEN SubSeq(MGN.ofdm, 5, 8)
        ELSE IF off \in {\h2c, \h30, \h34, \h38} THEN [i \in 1..4 |-> 127 + (off - \h2c) + i]
        ELSE <<>>
VhtRates(reg) ==
    LET off == reg % \h200
    IN  IF reg - off \notin PathBase THEN <<>>
        ELSE IF off \in {\h3c, \h40, \h44, \h48, \h4c}
        THEN [i \in 1..4 |-> 159 + (off - \h3c) + i]
        ELSE IF off \in {\hd8, \hdc} THEN [i \in 1..4 |-> 143 + (off - \hd8) + i]
        ELSE IF off \in {\he0, \he4} THEN [i \in 1..4 |-> 179 + (off - \he0) + i]
        ELSE <<>>
\* _rtl8821au_get_values_of_txpwr_by_rate for the registers of the tables.
RatesOf(reg) == IF OldRates(reg) # <<>> THEN OldRates(reg)
                ELSE LegacyHtRates(reg) \o VhtRates(reg)
\* Two decimal digits, one in each half of the byte.
Bcd(v, i) == LET b == (v \div 256^i) % 256 IN (b \div 16) * 10 + (b % 16)

\* tx_power_by_rate_offset has 12 elements for each number of streams.
ByRateAt(band, path, tx, idx) == ((band * 4 + path) * 4 + tx) * 12 + idx
\* _rtl8821au_store_tx_power_by_rate: the rates of two streams of a register
\* that also holds rates of one go to RF_2TX, and so do those after them.
StoreRow(mem, row) ==
    LET rates == RatesOf(row.reg)
        two == {PHY_GetRateIndexOfTxPowerByRate(r) : r \in {170, 171}}
        idx(i) == PHY_GetRateIndexOfTxPowerByRate(rates[i])
        tx(i) == IF \E j \in 1..i : idx(j) \in two THEN 1 ELSE row.tx
        at == [i \in DOMAIN rates |-> ByRateAt(row.band, row.path, tx(i), idx(i))]
    IN  [a \in DOMAIN mem |-> IF \E i \in DOMAIN at : at[i] = a
                              THEN Bcd(row.val, PosIn(at, a)) ELSE mem[a]]
\* _rtl8821au_phy_config_bb_with_pgheaderfile
LoadPg(rows) == FoldLeft(StoreRow, [a \in 0..383 |-> 0], rows)

phy_GetCurrentTxNum_8812A(r) == IF r \in Ht(2) \cup Vht(2) THEN 1 ELSE 0
_rtl8821au_phy_get_txpower_by_rate(band, path, tx, r) ==
    S8(byRate[ByRateAt(band, path, tx, PHY_GetRateIndexOfTxPowerByRate(r))])

---------------------------------------------------------------------------
\* Power limits

\* Positions in txpwr_limit_2_4g [3][2][6][14][2] and txpwr_limit_5g
\* [3][4][6][54][2]; the sections 6 to 9 of VHT lie behind the row.
At24(reg, bw, sec, ch, path) == (((reg * 2 + bw) * 6 + sec) * 14 + ch) * 2 + path
At5(reg, bw, sec, ch, path) == (((reg * 4 + bw) * 6 + sec) * 54 + ch) * 2 + path
\* _rtl8821au_phy_init_txpower_limit: the sections and channels it counts to;
\* the others keep the zero of the allocation.
Start24(a, paths) == LET rest == a \div 2
                     IN  IF rest % 14 < 5 /\ (rest \div 14) % 6 < 3 /\ a % 2 < paths
                         THEN MAX_POWER_INDEX ELSE 0
Start5(a, paths) == LET rest == a \div 2
                    IN  IF rest % 54 < 14 /\ (rest \div 54) % 6 < 4 /\ a % 2 < paths
                        THEN MAX_POWER_INDEX ELSE 0
Get24(mem, a) == IF a \in DOMAIN mem THEN mem[a] ELSE Start24(a, tpChip.paths)
Get5(mem, a) == IF a \in DOMAIN mem THEN mem[a] ELSE Start5(a, tpChip.paths)

\* _rtl8821au_phy_set_txpower_limit: the indexes of a row of the table.
RegulationOf(s) == IF s = "MKK" THEN 1 ELSE IF s = "ETSI" THEN 2 ELSE 0
SectionOf(rate, nt) == IF rate = "CCK" THEN 0 ELSE IF rate = "OFDM" THEN 1
                       ELSE (IF rate = "HT" THEN 1 ELSE 3) + nt
BwOf(bw) == IF bw = 40 THEN 1 ELSE IF bw = 80 THEN 2 ELSE 0
RowAt(row) ==
    LET g == phy_GetChannelGroup(row.ch)
        at(At(_, _, _, _, _)) == At(RegulationOf(row.reg), BwOf(row.bw),
                                    SectionOf(row.rate, row.nt), g, 0)
    IN  IF In24G(row.ch) THEN at(At24) ELSE at(At5)
MinOf(a, b) == IF a < b THEN a ELSE b
_rtl8821au_phy_set_txpower_limit(mem, row) ==
    (RowAt(row) :> MinOf(row.val, MAX_POWER_INDEX)) @@ mem
LoadLmt(rows, in24) ==
    FoldLeft(_rtl8821au_phy_set_txpower_limit, <<>>,
             SelectSeq(rows, LAMBDA row : In24G(row.ch) = in24))

\* _rtl8812au_phy_cross_reference_ht_and_vht_txpower_limit: an HT section of
\* 20 and 40 MHz that is not limited takes the limit four sections on.
Cross(mem) ==
    LET open == {<<reg, bw, sec, ch>> \in (0..2) \X (0..1) \X (2..5) \X (0..13) :
                   Get5(mem, At5(reg, bw, sec, ch, 0)) = MAX_POWER_INDEX}
        to == {At5(o[1], o[2], o[3], o[4], 0) : o \in open}
        back(a) == Get5(mem, a + 4 * 54 * 2)
    IN  [a \in DOMAIN mem \cup {x \in to : back(x) # Get5(mem, x)} |->
           IF a \in to THEN back(a) ELSE mem[a]]
\* _rtl8821au_phy_convert_txpower_limit_to_power_index: no code stores the
\* bases it subtracts, they are zero, so that what remains is the copy of
\* path A's limits to path B.
Convert(mem) ==
    [a \in DOMAIN mem \cup {b + 1 : b \in {x \in DOMAIN mem : x % 2 = 0 /\ mem[x] # MAX_POWER_INDEX}} |->
       IF a % 2 = 1 /\ a - 1 \in DOMAIN mem /\ mem[a-1] # MAX_POWER_INDEX
       THEN S8(mem[a-1] - 0) ELSE mem[a]]

\* The section of a rate in _rtl8821au_phy_get_txpower_limit.
RateSection(r) ==
    IF r \in CckRates THEN 0 ELSE IF r \in OfdmRates THEN 1
    ELSE IF r \in 128..159 THEN 2 + (r - 128) \div 8
    ELSE IF r \in 160..199 THEN 6 + (r - 160) \div 10 ELSE -1
\* The row of a bandwidth: CCK and OFDM exist at 20 MHz only, HT at 80 MHz
\* takes the limits of 40 MHz.
LimitBw(in24, bw, sec) ==
    IF sec \in {0, 1} THEN 0
    ELSE IF sec \in {2, 3} /\ ~in24 /\ bw = 80 THEN 1 ELSE BwOf(bw)
phy_GetWorldWideLimit(limits) == CHOOSE m \in limits : \A l \in limits : m <= l
_rtl8821au_phy_get_txpower_limit(bw, path, r, ch) ==
    LET sec == RateSection(r)
        idx == _rtl8821au_get_chnl_idx_of_txpwr_limit(ch)
        b == LimitBw(In24G(ch), bw, sec)
    IN  IF eeprom_regulatory(tpProm) = 2 \/ sec = -1 \/ idx = -1 THEN MAX_POWER_INDEX
        ELSE phy_GetWorldWideLimit(
               {IF In24G(ch) THEN Get24(limit24, At24(reg, b, sec, idx, path))
                ELSE Get5(limit5, At5(reg, b, sec, idx, path)) : reg \in 0..2})

---------------------------------------------------------------------------
\* The power index of a rate

\* The differences of the streams of a rate, added up to its own.
HtStreams(r) == IF r \in 128..159 THEN 1 + (r - 128) \div 8
                ELSE IF r \in 160..199 THEN 1 + (r - 160) \div 10 ELSE 0
SumTo(n, d) == (IF n >= 1 THEN d[0] ELSE 0) + (IF n >= 2 THEN d[1] ELSE 0)
               + (IF n >= 3 THEN d[2] ELSE 0) + (IF n >= 4 THEN d[3] ELSE 0)
_rtl8821au_get_txpower_index_base(path, r, bw, ch) ==
    LET p == tpProm
        ofdm(d) == IF r \in OfdmRates THEN d ELSE 0
        base24 == IF r \in CckRates THEN txpwrlevel_cck(p, path, ch)
                  ELSE txpwrlevel_ht40_1s(p, path, ch)
        kind24 == IF bw = 20 THEN "bw20" ELSE "bw40"
        d24 == [tx \in 0..3 |-> diff24(p, path, kind24, tx)]
        kind5 == IF bw = 20 THEN "bw20" ELSE IF bw = 40 THEN "bw40" ELSE "bw80"
        d5 == [tx \in 0..3 |-> diff5(p, path, kind5, tx)]
    IN  IF In24G(ch)
        THEN U8(base24 + ofdm(diff24(p, path, "ofdm", 0)) + SumTo(HtStreams(r), d24))
        ELSE IF bw = 80
        THEN U8(txpwr_5g_bw80base(p, path, ch)
                + SumTo(IF r = 151 THEN 4 ELSE HtStreams(r), d5))
        ELSE U8(txpwr_5g_bw40base(p, path, ch) + ofdm(diff5(p, path, "ofdm", 0))
                + SumTo(HtStreams(r), d5))

\* The correction power tracking left over; the remnant is an input.
_rtl8821au_phy_get_txpower_tracking_offset(remnant) == remnant

\* An odd index is lowered by one on a test chip.
EvenOnTestChip(x) == IF x > 0 /\ x % 2 = 1 /\ ~tpChip.normal THEN x - 1 ELSE x
\* A slip: the correction of power tracking added after the index was capped.
_rtl8821au_get_txpower_index_Late(path, r, bw, ch, remnant) ==
    LET base == S8(_rtl8821au_get_txpower_index_base(path, r, bw, ch))
        by == _rtl8821au_phy_get_txpower_by_rate(
                IF In24G(ch) THEN 0 ELSE 1, path, phy_GetCurrentTxNum_8812A(r), r)
        lim == _rtl8821au_phy_get_txpower_limit(bw, path, r, ch)
        sum == MinOf(S8(base + MinOf(by, lim)), MAX_POWER_INDEX)
    IN  U8(EvenOnTestChip(sum + _rtl8821au_phy_get_txpower_tracking_offset(remnant)))
_rtl8821au_get_txpower_index(path, r, bw, ch, remnant) ==
    LET base == S8(_rtl8821au_get_txpower_index_base(path, r, bw, ch))
        by == _rtl8821au_phy_get_txpower_by_rate(
                IF In24G(ch) THEN 0 ELSE 1, path, phy_GetCurrentTxNum_8812A(r), r)
        lim == _rtl8821au_phy_get_txpower_limit(bw, path, r, ch)
        sum == S8(S8(base + MinOf(by, lim))
                  + _rtl8821au_phy_get_txpower_tracking_offset(remnant))
    IN  U8(EvenOnTestChip(MinOf(sum, MAX_POWER_INDEX)))

\* _rtl8821au_phy_set_txpower_index: the byte of a register that holds the
\* index of a rate, for path A and for path B.
Slot(first, pos) == <<first + 4 * (pos \div 4), pos % 4>>
TxAgcA(r) ==
    IF r \in CckRates THEN Slot(\hc20, PosIn(MGN.cck, r))
    ELSE IF r \in OfdmRates THEN Slot(\hc24, PosIn(MGN.ofdm, r))
    ELSE IF r \in Ht(1) \cup Ht(2) THEN Slot(\hc2c, r - 128)
    ELSE Slot(\hc3c, r - 160)
\* A slip in the table of path B: the first OFDM register taken twice.
TxAgcB_Twice(r) ==
    IF r \in CckRates THEN Slot(\he20, PosIn(MGN.cck, r))
    ELSE IF r \in OfdmRates THEN <<\he24, PosIn(MGN.ofdm, r) % 4>>
    ELSE IF r \in Ht(1) \cup Ht(2) THEN Slot(\he2c, r - 128)
    ELSE Slot(\he3c, r - 160)
TxAgcB(r) ==
    IF r \in CckRates THEN Slot(\he20, PosIn(MGN.cck, r))
    ELSE IF r \in OfdmRates THEN Slot(\he24, PosIn(MGN.ofdm, r))
    ELSE IF r \in Ht(1) \cup Ht(2) THEN Slot(\he2c, r - 128)
    ELSE Slot(\he3c, r - 160)
TxAgc(path, r) == IF path = 0 THEN TxAgcA(r) ELSE TxAgcB(r)

\* _rtl8821au_phy_txpower_training_by_path: three levels below the index of
\* MCS7, each below the one before, in 32 bits without a sign.
\* A level that fell below zero is ORed into the bytes above its own too.
Level(x, below) == IF below THEN 255 ELSE IF x \in 0..2 THEN 2 ELSE U8(x)
_rtl8821au_phy_txpower_training_by_path(index) ==
    <<Level(index - 10, FALSE), Level(index - 18, index < 10), Level(index - 24, index < 18)>>

\* The rates rtl8821au_phy_set_txpower_level_by_path goes through.
RatesSet(ch) == (IF In24G(ch) THEN CckRates ELSE {}) \cup OfdmRates \cup Ht(1) \cup Vht(1)
                  \cup (IF tpChip.paths >= 2 THEN Ht(2) \cup Vht(2) ELSE {})

---------------------------------------------------------------------------
TpChips == {[type |-> 8812, paths |-> 2, normal |-> n] : n \in BOOLEAN}
             \cup {[type |-> 8821, paths |-> 1, normal |-> TRUE]}

TpInit ==
    /\ tpChip \in TpChips
    /\ tpProm \in Proms
    /\ tpStage = "off"
    /\ byRate = [a \in 0..383 |-> 0]
    /\ limit24 = <<>> /\ limit5 = <<>>
    /\ agc = <<>> /\ train = <<>>
    /\ tuned = <<0, 20, 0>>

\* _rtl8821au_phy_bb_with_headerfile: limits for regulatory 1 only, power by
\* rate unless the EFUSE could not be loaded.
TpConfig ==
    /\ tpStage = "off"
    /\ tpStage' = "ready"
    /\ LET one == eeprom_regulatory(tpProm) = 1
           rows == LmtRows[tpChip.type]
       IN  /\ limit24' = IF one THEN Convert(LoadLmt(rows, TRUE)) ELSE <<>>
           /\ limit5' = IF one THEN Convert(Cross(LoadLmt(rows, FALSE))) ELSE <<>>
    /\ byRate' = IF tpProm.fail THEN byRate ELSE LoadPg(PgRows[tpChip.type])
    /\ UNCHANGED <<tpChip, tpProm, agc, train, tuned>>

\* PHY_SetTxPowerLevel8812 for a channel, at the current bandwidth.
PHY_SetTxPowerLevel8812(ch, bw, remnant) ==
    /\ tpStage = "ready"
    /\ LET paths == 0 .. tpChip.paths - 1
           index(path, r) == _rtl8821au_get_txpower_index(path, r, bw, ch, remnant)
       IN  \E writes \in {{<<TxAgc(path, r), EvenOnTestChip(index(path, r))>> :
                            path \in paths, r \in RatesSet(ch)}} :
             /\ agc' = [s \in {w[1] : w \in writes} |-> (CHOOSE w \in writes : w[1] = s)[2]] @@ agc
             /\ train' = [path \in paths |->
                            _rtl8821au_phy_txpower_training_by_path(index(path, 135))]
    /\ tuned' = <<ch, bw, remnant>>
    /\ UNCHANGED <<tpChip, tpProm, tpStage, byRate, limit24, limit5>>

TpNext ==
    \/ TpConfig
    \/ \E c \in TpChannels, rem \in Remnants : PHY_SetTxPowerLevel8812(c[1], c[2], rem)

TpSpec == TpInit /\ [][TpNext]_tpVars

---------------------------------------------------------------------------
\* Properties

\* What MAX_POWER_INDEX and the training levels are for
\* (_rtl8821au_get_txpower_index, _rtl8821au_phy_txpower_training_by_path):
\* whatever the calibration, the tables, the limits and the rate add up to in
\* eight bits, no index above the greatest the chip has is written, a test
\* chip gets no odd one, and the training levels lie below the index of the
\* rate they are derived from.
PowerInRange ==
    tuned[1] # 0 =>
      /\ \A s \in DOMAIN agc : agc[s] \in 0..MAX_POWER_INDEX
      /\ ~tpChip.normal => \A s \in DOMAIN agc : agc[s] % 2 = 0
      /\ \A path \in DOMAIN train, i \in 1..3 :
            train[path][i] < _rtl8821au_get_txpower_index(path, 135, tuned[2], tuned[1], tuned[3])

\* The two switch statements that name the registers of the rates,
\* _rtl8821au_get_values_of_txpwr_by_rate for the tables and
\* _rtl8821au_phy_set_txpower_index for the chip, agree: the byte a rate's
\* index is written to is the byte its value was read from, and no two rates
\* of a path share one.
RegistersAgree ==
    tuned[1] # 0 =>
      LET rates == (0 .. tpChip.paths - 1) \X RatesSet(tuned[1])
          slots == {TxAgc(w[1], w[2]) : w \in rates}
      IN  /\ Cardinality(slots) = Cardinality(rates)
          /\ \A w \in rates : LET s == TxAgc(w[1], w[2]) IN RatesOf(s[1])[s[2] + 1] = w[2]
=============================================================================
