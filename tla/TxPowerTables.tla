--------------------------- MODULE TxPowerTables ---------------------------
(***************************************************************************)
(* The data of rtl8821au/table.c that transmit power is checked with: the  *)
(* whole power-by-rate tables of both chips and rows of the limit tables   *)
(* for one channel of several groups, in every section that has rows.      *)
(***************************************************************************)
EXTENDS Integers, Sequences, SequencesExt

\* A row of PHY_REG_PG: band, RF path, number of streams less one, register,
\* and four values of two decimal digits; the bit mask is not used for the
\* registers that occur.
PgRow(band, path, base, r) ==
    [band |-> band, path |-> path, tx |-> r[1], reg |-> base + r[2], val |-> r[3]]

\* The rows of one path of the 8812: CCK, OFDM, HT and VHT registers.
Pg8812Cck == <<0, \h20, \h34363840>>
Pg8812Rest(ofdm54) ==
    << <<0, \h24, \h42424444>>, <<0, \h28, ofdm54>>, <<0, \h2c, \h40424444>>,
       <<0, \h30, \h28303236>>, <<1, \h34, \h38404242>>, <<1, \h38, \h26283034>>,
       <<0, \h3c, \h40424444>>, <<0, \h40, \h28303236>>, <<0, \h44, \h42422426>>,
       <<1, \h48, \h30343840>>, <<1, \h4c, \h22242628>> >>
PgPath(band, path, base, rows) ==
    [i \in DOMAIN rows |-> PgRow(band, path, base, rows[i])]
RTL8812AU_PHY_REG_PG_ARRAY ==
    LET low == <<Pg8812Cck>> \o Pg8812Rest(\h30323638)
        high == Pg8812Rest(\h30323640)
    IN  PgPath(0, 0, \hc00, low) \o PgPath(0, 1, \he00, low)
          \o PgPath(1, 0, \hc00, high) \o PgPath(1, 1, \he00, high)

RTL8821AU_PHY_REG_PG_ARRAY ==
    PgPath(0, 0, \hc00,
      << <<0, \h20, \h32343638>>, <<0, \h24, \h36363838>>, <<0, \h28, \h28303234>>,
         <<0, \h2c, \h34363838>>, <<0, \h30, \h26283032>>, <<0, \h3c, \h32343636>>,
         <<0, \h40, \h24262830>>, <<0, \h44, \h00002022>> >>)
    \o PgPath(1, 0, \hc00,
      << <<0, \h24, \h34343636>>, <<0, \h28, \h26283032>>, <<0, \h2c, \h32343636>>,
         <<0, \h30, \h24262830>>, <<0, \h3c, \h32343636>>, <<0, \h40, \h24262830>>,
         <<0, \h44, \h00002022>> >>)

\* Three rows of TXPWR_LMT: the limits of one channel for the three
\* regulations.
LmtRows3(rate, nt, bw, ch, fcc, etsi, mkk) ==
    LET row(reg, v) == [reg |-> reg, rate |-> rate, nt |-> nt, bw |-> bw, ch |-> ch, val |-> v]
    IN  <<row("FCC", fcc), row("ETSI", etsi), row("MKK", mkk)>>
\* The rows both chips have alike.
LmtCommon ==
    LmtRows3("HT", 2, 40, 3, 30, 30, 30)
    \o LmtRows3("OFDM", 1, 20, 36, 30, 32, 32) \o LmtRows3("HT", 1, 20, 36, 30, 32, 32)
    \o LmtRows3("HT", 2, 20, 149, 34, 30, 63) \o LmtRows3("HT", 1, 40, 38, 30, 32, 32)
    \o LmtRows3("HT", 2, 40, 151, 34, 30, 63) \o LmtRows3("VHT", 1, 80, 42, 30, 32, 32)
    \o LmtRows3("VHT", 2, 80, 155, 34, 30, 63)
RTL8812AU_TXPWR_LMT ==
    LmtRows3("CCK", 1, 20, 1, 36, 32, 32) \o LmtRows3("CCK", 1, 20, 11, 36, 32, 32)
    \o LmtRows3("OFDM", 1, 20, 1, 34, 32, 32) \o LmtRows3("HT", 1, 20, 6, 36, 32, 32)
    \o LmtRows3("HT", 2, 20, 1, 32, 32, 32) \o LmtCommon
RTL8821AU_TXPWR_LMT ==
    LmtRows3("CCK", 1, 20, 1, 34, 32, 32) \o LmtRows3("CCK", 1, 20, 11, 34, 32, 32)
    \o LmtRows3("OFDM", 1, 20, 1, 32, 32, 32) \o LmtRows3("HT", 1, 20, 6, 34, 32, 32)
    \o LmtRows3("HT", 2, 20, 1, 30, 32, 32) \o LmtCommon

PgTables == [c \in {8812, 8821} |-> IF c = 8812 THEN RTL8812AU_PHY_REG_PG_ARRAY
                                    ELSE RTL8821AU_PHY_REG_PG_ARRAY]
LmtTables == [c \in {8812, 8821} |-> IF c = 8812 THEN RTL8812AU_TXPWR_LMT
                                     ELSE RTL8821AU_TXPWR_LMT]
=============================================================================
