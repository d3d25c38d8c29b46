------------------------------- MODULE MCChip -------------------------------
(***************************************************************************)
(* What the driver programs into the chip, for TLC: bring-up, parameter    *)
(* tables, transmit power, IQ calibration, channel and filters, firmware   *)
(* and its mailboxes, and the security CAM.  In a behaviour only the       *)
(* component `who` takes steps, so that one state graph holds the graphs   *)
(* of all; what the others would hold is left out (Off) where it is large. *)
(***************************************************************************)
EXTENDS Iqk, TxPower, TxPowerTables, TableConf, HwInit, Radio, Fw, Keys

VARIABLE who

\* Devices: both chips, one to four bulk-out pipes, the speeds of USB.
MCHwSetups ==
    {[chip |-> "8812", pipes |-> 2, usb |-> "high", ldo |-> FALSE],
     [chip |-> "8812", pipes |-> 3, usb |-> "super", ldo |-> FALSE],
     [chip |-> "8812", pipes |-> 4, usb |-> "high", ldo |-> FALSE],
     [chip |-> "8821", pipes |-> 1, usb |-> "high", ldo |-> TRUE],
     [chip |-> "8821", pipes |-> 3, usb |-> "full", ldo |-> FALSE],
     [chip |-> "8821", pipes |-> 4, usb |-> "high", ldo |-> FALSE]}

\* EFUSE maps: one base for all groups but a blank one, one nibble in every
\* difference.
PromMap(base, blank, nib) ==
    [a \in 16..183 |->
        LET o == (a - 16) % 42
        IN  IF o <= 10 \/ o \in 18..31 THEN (IF o = blank THEN 255 ELSE base)
            ELSE 16 * nib + nib]
MCProms ==
    {[fail |-> f, map |-> PromMap(255, 0, 15), board |-> 255] : f \in BOOLEAN}
    \cup {[fail |-> FALSE, map |-> PromMap(c[1], 3, c[2]), board |-> r] :
             c \in {<<40, 12>>, <<63, 7>>}, r \in {0, 1, 2}}
MCTpChannels == {<<1, 20>>, <<6, 20>>, <<6, 40>>, <<14, 20>>, <<36, 20>>, <<42, 80>>,
                 <<163, 20>>, <<155, 80>>, <<159, 40>>}
MCRemnants == {-2, 3}

\* EFUSE swings of the two bands, networks, and the channels of a survey.
MCSwings == {[g2 |-> <<0, 0>>, g5 |-> <<0, 1>>], [g2 |-> <<1, 1>>, g5 |-> <<2, 3>>]}
MCRdNets == {[ch |-> 36, ht |-> 1, vht |-> TRUE], [ch |-> 6, ht |-> 2, vht |-> FALSE],
             [ch |-> 2, ht |-> 0, vht |-> FALSE]}
MCRdScan == <<13, 44>>

MCBcnNets == {[bssid |-> "x", ssid |-> 32, rates |-> 12], [bssid |-> "y", ssid |-> 1, rates |-> 8]}
MCKChanges == {"wpa", "any", "drop", "open", "shared", "wpawep", "wpanone", "disable"}

TpOff == /\ tpChip = 0 /\ tpProm = 0 /\ tpStage = "off" /\ byRate = 0 /\ limit24 = 0
         /\ limit5 = 0 /\ agc = 0 /\ train = 0 /\ tuned = <<0, 20, 0>>
HwOff == /\ hwSet = 0 /\ hwReg = 0 /\ hwStage = 0 /\ hwDone = FALSE /\ hwFw = FALSE
         /\ hwStuck = FALSE /\ hwUps = 0

ChipInit ==
    /\ who \in {"iqk", "power", "tables", "hw", "radio", "fw", "keys"}
    /\ IF who = "power" THEN TpInit ELSE TpOff
    /\ IF who = "hw" THEN HwInit ELSE HwOff
    /\ IqkInit /\ (who # "iqk" => chip = "8812")
    /\ TcInit /\ (who # "tables" => tcChip = "8812" /\ tcBoard = 0 /\ tcPaths = 2)
    /\ RdInit /\ (who # "radio" => rdSet.chip = "8812" /\ rdSet.sw.g5 = <<0, 1>>)
    /\ FwInit /\ (who # "fw" => fwChip = "8812")
    /\ KInit /\ (who # "keys" => kRole = "ap")

ChipNext ==
    \/ /\ who = "iqk" /\ IqkNext
       /\ UNCHANGED <<who, tpVars, tcVars, hwVars, rdVars, fwVars, kVars>>
    \/ /\ who = "power" /\ TpNext
       /\ UNCHANGED <<who, iqVars, tcVars, hwVars, rdVars, fwVars, kVars>>
    \/ /\ who = "tables" /\ TcNext
       /\ UNCHANGED <<who, iqVars, tpVars, hwVars, rdVars, fwVars, kVars>>
    \/ /\ who = "hw" /\ HwNext
       /\ UNCHANGED <<who, iqVars, tpVars, tcVars, rdVars, fwVars, kVars>>
    \/ /\ who = "radio" /\ RdNext
       /\ UNCHANGED <<who, iqVars, tpVars, tcVars, hwVars, fwVars, kVars>>
    \/ /\ who = "fw" /\ FwNext
       /\ UNCHANGED <<who, iqVars, tpVars, tcVars, hwVars, rdVars, kVars>>
    \/ /\ who = "keys" /\ KNext
       /\ UNCHANGED <<who, iqVars, tpVars, tcVars, hwVars, rdVars, fwVars>>

ChipSpec ==
    ChipInit
    /\ [][ChipNext]_<<who, iqVars, tpVars, tcVars, hwVars, rdVars, fwVars, kVars>>
-----------------------------------------------------------------------------
\* Whatever the EFUSE, the tables, the limits and the rate add up to in eight
\* bits, the power index written is one the chip has, and it is written to the
\* byte of its rate (_rtl8821au_get_txpower_index,
\* _rtl8821au_phy_set_txpower_index).
PowerRight == who = "power" => PowerInRange /\ RegistersAgree

\* The walks of phy.c through the parameter tables program exactly the rows
\* the board's branches hold, and read nothing past an array
\* (phy_config_bb_with_headerfile and its like).
TablesRight == who = "tables" => TablesApplied

\* A bring-up that completes leaves the MAC registers as a first one would,
\* whatever failed before, and the queues, the pipes and the pages of the
\* transmit buffer fit each other (rtl8812au_hw_init,
\* _rtl8821au_poweroff_adapter).
HwRight == who = "hw" => SameEveryTime /\ QueuesAgree

\* Baseband, RF chip, power tracking and receive filters are what the driver
\* has on record, whatever order surveys, joins and the access point's start
\* come in (PHY_HandleSwChnlAndSetBW8812, rtl8821au_phy_switch_wirelessband,
\* HW_VAR_MLME_SITESURVEY).
RadioRight == who = "radio" => ChannelAgrees /\ SwingTracks /\ FiltersFollow
=============================================================================
