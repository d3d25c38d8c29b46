----------------------------- MODULE TableConf -----------------------------
(***************************************************************************)
(* Programming the chip from its register tables (rtl8821au/table.c).      *)
(*                                                                         *)
(* A table is a C array of pairs.  A pair is a register row, or a marker:  *)
(* IF c / ELIF c / ELSE / END, where c names a board and an interface.     *)
(* Five loops of rtl8821au/phy.c walk such arrays (MAC, PHY_REG, AGC_TAB,  *)
(* RadioA, RadioB); they are the same loop with another register write.    *)
(*                                                                         *)
(* Here a table is written as it is meant: a sequence of blocks, each n    *)
(* unconditional rows, or a choice with n rows in each of its branches.    *)
(* Flat lays it out as the array the code walks; what the walk programs is *)
(* compared with the meaning of the blocks.  The registers and the values  *)
(* of the rows are left out: a row is its place <<block, branch, number>>. *)
(***************************************************************************)
EXTENDS Integers, Sequences, FiniteSets
LOCAL INSTANCE SequencesExt
LOCAL INSTANCE FiniteSetsExt

CONSTANTS TcChips,     \* subset of {"8812", "8821"}
          Boards,      \* the board types tried (rtlhal->board_type)
          Paths        \* the numbers of RF paths tried

ASSUME TcAssumption == /\ TcChips \subseteq {"8812", "8821"}
                       /\ Boards \subseteq 0..255
                       /\ Paths \subseteq {1, 2}

VARIABLES tcChip, tcBoard, tcPaths,
          todo,        \* the tables still to be loaded, the first one in hand
          at,          \* place in the array in hand; 0: not begun
          done         \* per loaded table, the rows programmed
tcVars == <<tcChip, tcBoard, tcPaths, todo, at, done>>

(***************************************************************************)
(* The tables.  Cond(i, b): interface i (7: any), board b.                 *)
(***************************************************************************)
Cond(i, b) == [intf |-> i, board |-> b]
Board(bs) == [j \in 1..Len(bs) |-> Cond(7, bs[j])]
Rows(n) == [conds |-> <<>>, n |-> n]
Pick(cs, n) == [conds |-> cs, n |-> n]

C1 == Board(<<\h40, \hC0, \hD8>>)
C2 == Board(<<\hD8>>)
C8 == Board(<<\h80, \hC0, \hD8>>)
C7 == <<Cond(1, \h04), Cond(2, \h04), Cond(4, \h04)>>
C6 == <<Cond(2, \hC0)>>
C5 == <<Cond(2, \h00), Cond(2, \hC0)>>
C4 == C7 \o C6
C3 == C7 \o C5

RADIOA_8812_1 == <<Rows(6), Pick(C1, 1), Rows(15), Pick(C2, 11), Rows(92)>>
RADIOA_8812_2 == <<Pick(C1, 11), Pick(C1, 11), Pick(C1, 11)>>
RADIOA_8812_3 == <<Rows(1), Pick(C1, 11), Rows(1), Pick(C1, 14)>>
RADIOA_8812_4 == <<Rows(2), Pick(C1, 3), Rows(5), Pick(C1, 5), Rows(10)>>
RADIOA_8812 == RADIOA_8812_1 \o RADIOA_8812_2 \o RADIOA_8812_3 \o RADIOA_8812_4
RADIOB_8812_1 == <<Rows(3), Pick(C1, 1), Rows(11), Pick(C2, 11), Rows(92)>>
RADIOB_8812_2 == <<Pick(C1, 11), Pick(C1, 11), Pick(C1, 11)>>
RADIOB_8812_3 == <<Rows(1), Pick(C1, 12), Pick(C1, 14)>>
RADIOB_8812_4 == <<Rows(2), Pick(C1, 3), Rows(4), Pick(C1, 5), Rows(1)>>
RADIOB_8812 == RADIOB_8812_1 \o RADIOB_8812_2 \o RADIOB_8812_3 \o RADIOB_8812_4
RADIOA_8821_1 == <<Rows(98), Pick(C3, 2)>>
RADIOA_8821_2 == <<Pick(C4, 9), Pick(C5, 1), Pick(C3, 1), Pick(C4, 9), Pick(C6, 4)>>
RADIOA_8821_3 == <<Pick(C4, 7), Rows(3), Pick(C7, 9), Rows(3), Pick(C7, 12)>>
RADIOA_8821_4 == <<Rows(2), Pick(C7, 2), Pick(C4, 1), Rows(3), Pick(C7, 1), Rows(3), Pick(C7,
    2), Pick(C7, 2), Pick(C3, 1), Pick(C7, 1), Pick(C5, 1)>>
RADIOA_8821_5 == <<Rows(112)>>
RADIOA_8821 == RADIOA_8821_1 \o RADIOA_8821_2 \o RADIOA_8821_3 \o RADIOA_8821_4 \o RADIOA_8821_5
MAC_REG_8812 == <<Rows(99)>>
MAC_REG_8821 == <<Rows(96)>>
AGC_TAB_8812_1 == <<Pick(C2, 64)>>
AGC_TAB_8812_2 == <<Pick(C8, 64), Rows(4)>>
AGC_TAB_8812 == AGC_TAB_8812_1 \o AGC_TAB_8812_2
PHY_REG_8812_1 == <<Rows(49), Pick(C2, 1), Rows(115)>>
PHY_REG_8812_2 == <<Pick(C1, 1), Rows(41), Pick(C1, 1), Rows(2)>>
PHY_REG_8812 == PHY_REG_8812_1 \o PHY_REG_8812_2
AGC_TAB_8821_1 == <<Rows(64)>>
AGC_TAB_8821_2 == <<Pick(C6, 58), Rows(8)>>
AGC_TAB_8821 == AGC_TAB_8821_1 \o AGC_TAB_8821_2
PHY_REG_8821 == <<Rows(167)>>

\* named by table and chip
Table == [mac12 |-> MAC_REG_8812, phy12 |-> PHY_REG_8812, agc12 |-> AGC_TAB_8812,
          rfA12 |-> RADIOA_8812, rfB12 |-> RADIOB_8812,
          mac21 |-> MAC_REG_8821, phy21 |-> PHY_REG_8821, agc21 |-> AGC_TAB_8821,
          rfA21 |-> RADIOA_8821]
Tables == DOMAIN Table

(***************************************************************************)
(* The layout of a block in the array.                                     *)
(***************************************************************************)
RowPairs(b, br, n) == [j \in 1..n |-> [k |-> "row", row |-> <<b, br, j>>]]
Mark(k, c) == [k |-> k, cond |-> c, row |-> <<k>>]
Branches(b, blk) == [j \in 1..(Len(blk.conds) + 1) |->
    (IF j > Len(blk.conds) THEN <<Mark("else", Cond(0, 0))>>
     ELSE <<Mark(IF j = 1 THEN "if" ELSE "elif", blk.conds[j])>>)
    \o RowPairs(b, j, blk.n)]
Laid(b, blk) == IF blk.conds = <<>> THEN RowPairs(b, 0, blk.n)
                ELSE FlattenSeq(Branches(b, blk)) \o <<Mark("end", blk.conds[1])>>
Flat(tb) == FlattenSeq([b \in 1..Len(tb) |-> Laid(b, tb[b])])
Array == [mac12 |-> Flat(Table.mac12), phy12 |-> Flat(Table.phy12), agc12 |-> Flat(Table.agc12),
          rfA12 |-> Flat(Table.rfA12), rfB12 |-> Flat(Table.rfB12),
          mac21 |-> Flat(Table.mac21), phy21 |-> Flat(Table.phy21), agc21 |-> Flat(Table.agc21),
          rfA21 |-> Flat(Table.rfA21)]

(***************************************************************************)
(* The walk.  hex is made of the board, RTW_USB (2) and ODM_CE; every      *)
(* condition of the tables takes any platform.                             *)
(***************************************************************************)
Bit(n, i) == (n \div i) % 2 = 1
CheckCondition(m, board) ==
    \/ m.k = "else"
    \/ /\ m.cond.board = board \/ m.cond.board = \hFF
       /\ Bit(m.cond.intf, 2) \/ m.cond.intf = 7

\* READ_NEXT_PAIR until a pair of the kinds ks: a loop that stops at the last pair
ReadUntil(a, p, ks) ==
    LET last == IF p + 1 > Len(a) THEN p + 1 ELSE Len(a)
    IN  Min({q \in (p + 1)..last : q = last \/ a[q].k \in ks})
Branch == {"end", "elif", "else"}

Programs(rows) == done' = [done EXCEPT ![todo[1]] = @ \cup rows]
T == Array[todo[1]]

\* iterations of the loop over pairs that are rows, up to the next marker
ConfigRows ==
    /\ todo # <<>> /\ at \in 1..Len(T) /\ T[at].k = "row"
    /\ \E q \in {Min({j \in (at + 1)..(Len(T) + 1) : j > Len(T) \/ T[j].k # "row"})} :
         /\ Programs({T[j].row : j \in at..(q - 1)})
         /\ at' = q
    /\ UNCHANGED <<tcChip, tcBoard, tcPaths, todo>>

DiscardBranch ==
    /\ todo # <<>> /\ at \in 1..Len(T) /\ T[at].k # "row"
    /\ ~CheckCondition(T[at], tcBoard)
    /\ at' = ReadUntil(T, at, Branch)
    /\ UNCHANGED <<tcChip, tcBoard, tcPaths, todo, done>>

SkipToEnd_Not(q) == q - 1
\* after the matched rows, on to the end of the choice
SkipToEnd(q) == IF T[q].k = "end" THEN q ELSE ReadUntil(T, q, {"end"})
ConfigBranch ==
    /\ todo # <<>> /\ at \in 1..Len(T) /\ T[at].k # "row"
    /\ CheckCondition(T[at], tcBoard)
    /\ \E q \in {ReadUntil(T, at, Branch)} :
         /\ Programs({T[j].row : j \in (at + 1)..(q - 1)})
         /\ at' = SkipToEnd(q) + 1
    /\ UNCHANGED <<tcChip, tcBoard, tcPaths, todo>>

Walk == ConfigRows \/ DiscardBranch \/ ConfigBranch
InHand(ts) == todo # <<>> /\ todo[1] \in ts
phy_config_mac_with_headerfile == InHand({"mac12", "mac21"}) /\ Walk
phy_config_bb_with_headerfile == InHand({"phy12", "agc12", "phy21", "agc21"}) /\ Walk
rtl8812au_phy_config_rf_with_headerfile == InHand({"rfA12", "rfB12"}) /\ Walk
rtl8821au_phy_config_rf_with_headerfile == InHand({"rfA21"}) /\ Walk

(***************************************************************************)
(* The order of loading in rtl8812au_hw_init: the MAC table, PHY_REG and   *)
(* AGC_TAB in rtl8821au_phy_bb_config, one radio table per RF path.  With  *)
(* two paths an 8821 would load RadioA twice; it always has one.           *)
(***************************************************************************)
config_mac(c) == IF c = "8812" THEN <<"mac12">> ELSE <<"mac21">>
phy_bb_with_headerfile(c) == IF c = "8812" THEN <<"phy12", "agc12">> ELSE <<"phy21", "agc21">>
rf6052_config_parafile(c, n) ==
    IF c = "8812" THEN SubSeq(<<"rfA12", "rfB12">>, 1, n)
                  ELSE SubSeq(<<"rfA21", "rfA21">>, 1, n)
Loads == config_mac(tcChip) \o phy_bb_with_headerfile(tcChip)
         \o rf6052_config_parafile(tcChip, tcPaths)

NextTable ==
    /\ todo # <<>>
    /\ IF at = 0 THEN at' = 1 /\ UNCHANGED todo
       ELSE /\ at > Len(T) /\ todo' = Tail(todo) /\ at' = 0
    /\ UNCHANGED <<tcChip, tcBoard, tcPaths, done>>

TcInit == /\ tcChip \in TcChips /\ tcBoard \in Boards
          /\ tcPaths \in (IF tcChip = "8812" THEN Paths ELSE {1})
          /\ todo = Loads
          /\ at = 0
          /\ done = [t \in Tables |-> {}]
TcNext == \/ phy_config_mac_with_headerfile \/ phy_config_bb_with_headerfile
          \/ rtl8812au_phy_config_rf_with_headerfile
          \/ rtl8821au_phy_config_rf_with_headerfile
          \/ NextTable
TcSpec == TcInit /\ [][TcNext]_tcVars

-----------------------------------------------------------------------------
(***************************************************************************)
(* What a table means for a board: every unconditional row, and of each    *)
(* choice the rows of the first branch whose condition holds, of the else  *)
(* branch when none does.                                                  *)
(***************************************************************************)
Chosen(cs, board) ==
    LET hit == {j \in 1..Len(cs) : /\ cs[j].board \in {board, \hFF}
                                   /\ cs[j].intf \in {2, 3, 6, 7}}
    IN  IF hit = {} THEN Len(cs) + 1 ELSE Min(hit)
Meaning(t, board) == UNION {
    LET blk == Table[t][b]
        br == IF blk.conds = <<>> THEN 0 ELSE Chosen(blk.conds, board)
    IN  {<<b, br, j>> : j \in 1..blk.n} : b \in 1..Len(Table[t])}

\* Whatever the board, once the walks of phy.c have gone through a table they have
\* programmed exactly the rows the board's branches hold - none of a branch not taken, and
\* none lost between two choices that follow each other or at the end of the array - and
\* no walk has read past the array.
TablesApplied ==
    /\ todo # <<>> => at <= Len(T) + 1
    /\ at = 0 => \A t \in Tables :
         done[t] # {} /\ (todo = <<>> \/ todo[1] # t) => done[t] = Meaning(t, tcBoard)
    /\ todo = <<>> => \A i \in 1..Len(Loads) : done[Loads[i]] # {}
=============================================================================
