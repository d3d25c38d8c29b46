------------------------------- MODULE MCMgmt -------------------------------
(***************************************************************************)
(* The command thread, the senders of management frames and the access     *)
(* point's station table for TLC.  In a behaviour only the component `who` *)
(* takes steps, so that one state graph holds the graphs of all three.     *)
(***************************************************************************)
EXTENDS MCCmdThread, MgntTx, ApAssoc

CONSTANTS a1, a2
VARIABLE who

\* Which contexts send which frames: the command thread, an ioctl of the
\* daemon, and the receive tasklet.
MCOpsOf ==
    [p \in MgCallers |->
        IF p = "cmd" THEN {"deauth", "probereq", "coexist", "delba", "nulldata"}
        ELSE IF p = "ioctl" THEN {"beacon", "ch_switch"}
        ELSE {"assocreq", "probersp", "auth", "asocrsp", "ba", "qos_nulldata"}]

\* Association requests: with no ability, and with all.
MCAsocReqs ==
    {[fits |-> TRUE, can |-> {}],
     [fits |-> TRUE, can |-> {"pre", "ofdm", "slot", "ht", "vht", "w40"}]}

\* An open 802.11n network that the daemon reconfigures with protection, and
\* a WEP network with shared keys, an access list that denies one of the two
\* stations, and no ERP element.
MCAddrs == {a1, a2}
MCSetups ==
    {[mode |-> 2, wep |-> FALSE, ht |-> TRUE, acl |-> [mode |-> 0, addrs |-> {}],
      erp |-> TRUE, wps |-> FALSE,
      later |-> [erp |-> "protect", wpa |-> FALSE, ht |-> FALSE, wps |-> FALSE]]}
    \cup
    {[mode |-> 1, wep |-> TRUE, ht |-> FALSE, acl |-> [mode |-> 1, addrs |-> {a}],
      erp |-> FALSE, wps |-> TRUE,
      later |-> [erp |-> "none", wpa |-> TRUE, ht |-> TRUE, wps |-> FALSE]] : a \in MCAddrs}
AddrSymmetry == Permutations(MCAddrs)

MgmtInit ==
    /\ who \in {"cmd", "mgnt", "assoc"}
    /\ Init /\ MgInit /\ ApInit
    /\ who # "assoc" => cfg.mode = 2

MgmtNext ==
    \/ who = "cmd" /\ Next /\ UNCHANGED <<who, mgVars, apVars>>
    \/ who = "mgnt" /\ MgNext /\ UNCHANGED <<who, vars, apVars>>
    \/ who = "assoc" /\ ApNext /\ UNCHANGED <<who, vars, mgVars>>

MgmtSpec == MgmtInit /\ [][MgmtNext]_<<who, vars, mgVars, apVars>>
=============================================================================
