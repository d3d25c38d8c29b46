------------------------------- MODULE MCXmit -------------------------------
(***************************************************************************)
(* What the transmit path is given to send, for TLC.                       *)
(***************************************************************************)
EXTENDS XmitPath

\* Networks to send to, over USB 1, 2 and 3, and packets, whose lengths end on
\* a USB packet with and without the Michael code.
Net(mode, cipher, qos, ht, sw, bulk, acm) ==
    [mode |-> mode, cipher |-> cipher, qos |-> qos, ht |-> ht, sw |-> sw, bulk |-> bulk,
     frag |-> 2346, acm |-> acm]
MCNets ==
    {Net("sta", "none", TRUE, FALSE, FALSE, 512, {"vo"}), Net("ap", "tkip", TRUE, FALSE, TRUE, 1024, {}),
     Net("ap", "aes", TRUE, TRUE, FALSE, 64, {}), Net("ap", "wep", FALSE, FALSE, TRUE, 512, {})}
MCPkts ==
    {[len |-> 430, kind |-> "ip", ac |-> "be"], [len |-> 922, kind |-> "mcast", ac |-> "vi"],
     [len |-> 438, kind |-> "eapol", ac |-> "be"]}
=============================================================================
