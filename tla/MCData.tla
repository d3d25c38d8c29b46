------------------------------- MODULE MCData -------------------------------
(***************************************************************************)
(* The data path for TLC: the URBs of the receive side, the receive path,  *)
(* the reordering of one TID and the transmit path.  In a behaviour only   *)
(* the component `who` takes steps, so that one state graph holds the      *)
(* graphs of all four.                                                     *)
(***************************************************************************)
EXTENDS RecvReorder, RecvPath, RxUrb, MCXmit

VARIABLE who

MCAmsdu == {2, 7}
MCBypass == {4, 9}
MCPrealloc == <<11, 12>>

\* What is sent to the receive path: an MSDU in three fragments, an A-MSDU of
\* three subframes and an EAPOL frame.
Msdu(frags, priv, qos, order, eapol, subs) ==
    [frags |-> frags, priv |-> priv, qos |-> qos, order |-> order,
     eapol |-> eapol, subs |-> subs]
MCMsdus ==
    <<Msdu(<<500, 500, 536>>, TRUE, TRUE, TRUE, FALSE, << >>),
      Msdu(<<14 + 21 + 1 + 14 + 30 + 2 + 14 + 9>>, TRUE, TRUE, FALSE, FALSE, <<21, 30, 9>>),
      Msdu(<<99>>, FALSE, FALSE, FALSE, TRUE, << >>)>>
MCModes == {[mode |-> "sta", cipher |-> "tkip", ht |-> FALSE],
            [mode |-> "ap", cipher |-> "aes", ht |-> TRUE]}

\* Frames the validation refuses, each for a reason of its own.
Hdr(version, type, null, ds, src, bssid) ==
    [version |-> version, type |-> type, null |-> null, ds |-> ds,
     src |-> src, dst |-> Me, bssid |-> bssid]
MCForeign ==
    {Hdr(1, "data", FALSE, 1, Ap, Ap), Hdr(0, "other", FALSE, 1, Ap, Ap),
     Hdr(0, "data", TRUE, 1, "x", Ap), Hdr(0, "data", TRUE, 2, "p", Me),
     Hdr(0, "data", FALSE, 1, "x", "x"), Hdr(0, "data", FALSE, 1, Me, Ap),
     Hdr(0, "data", FALSE, 2, "x", Me), Hdr(0, "data", FALSE, 0, "x", "x"),
     Hdr(0, "data", FALSE, 3, "x", "x"), Hdr(0, "data", FALSE, 2, "p", "x")}

DataInit ==
    /\ who \in {"reorder", "recv", "urb", "xmit"}
    /\ Init /\ RpInit /\ RxInit /\ _rtw_init_xmit_priv
    /\ who # "recv" => rpNet.mode = "sta"
    /\ who # "xmit" => xpNet.cipher = "none"

DataNext ==
    \/ who = "reorder" /\ Next /\ UNCHANGED <<who, rpVars, rxVars, xpVars>>
    \/ who = "recv" /\ RpNext /\ UNCHANGED <<who, vars, rxVars, xpVars>>
    \/ who = "urb" /\ RxNext /\ UNCHANGED <<who, vars, rpVars, xpVars>>
    \/ who = "xmit" /\ XpNext /\ UNCHANGED <<who, vars, rpVars, rxVars>>

DataSpec == DataInit /\ [][DataNext]_<<who, vars, rpVars, rxVars, xpVars>>
=============================================================================
