------------------------------ MODULE RecvPath ------------------------------
(***************************************************************************)
(* The receive path of core/rtw_recv.c between the USB transport (RxUrb)   *)
(* and the reordering of A-MPDUs (RecvReorder): the pool of receive        *)
(* frames, the checks on a received frame, duplicate detection, frames     *)
(* that wait for a key, decryption, reassembly of fragments, the Michael   *)
(* check, port control, the conversion to Ethernet frames and the          *)
(* splitting of A-MSDUs.                                                   *)
(*                                                                         *)
(* Senders transmit MSDUs in order, fragment by fragment, and repeat or    *)
(* lose transmissions at will; payloads are lengths.  The hardware's       *)
(* decryption and the results of the integrity checks are external.  All   *)
(* of recv_func runs in the receive tasklet, one frame at a time; keys,    *)
(* ports, stations and the stop flag change between two frames.            *)
(***************************************************************************)
EXTENDS Naturals, Sequences, FiniteSets, Functions

CONSTANTS RpFrames,     \* NR_RECVFRAME receive frames
          RpModes,      \* "sta" or "ap", the network's cipher, HT or not
          Msdus,        \* what each sender has to send, in order
          Foreign,      \* headers of frames that are not data for this device
          MaxRpRx       \* bound: frames received

Bc == "bc"              \* the station entry of group-addressed frames
Ap == "ap"
NoRframe == 0

ASSUME RpAssumption == /\ NoRframe \notin RpFrames /\ IsFiniteSet(RpFrames)
                       /\ \A i \in DOMAIN Msdus : Msdus[i].frags # << >>

VARIABLES
    rpNet,          \* the element of RpModes the device runs in
    rpSta,          \* stations in the table (the group entry is always there)
    rpBlocked,      \* stations whose ieee8021x_blocked is set
    rpKeyed,        \* busetkipkey
    rpStopped,      \* bDriverStopped or bSurpriseRemoved
    rq,             \* queues, frames and caches: see _rtw_init_recv_priv
    rpCur,          \* the frame recv_func works on
    rpTx,           \* sender -> the fragment it transmits
    rpUp,           \* what the latest step indicated: none or one frame
    rpSeen,         \* sender -> the fragments indicated before that
    rpCount

rpVars == <<rpNet, rpSta, rpBlocked, rpKeyed, rpStopped, rq, rpCur, rpTx, rpUp, rpSeen, rpCount>>

Senders == IF rpNet.mode = "sta" THEN {Ap, Bc} ELSE {"p"}
Entries == {Ap, Bc, "p"}
Secured == rpNet.cipher \in {"tkip", "aes"}     \* dot11AuthAlgrthm_8021X

\* The frames of the pool in some order.
Enumerated(S) == CHOOSE q \in [1..Cardinality(S) -> S] : IsInjective(q)

\* _rtw_init_recv_priv and the part of rtw_alloc_stainfo for the caches
\* (tid_rxseq starts as 0xffff) and _rtw_init_sta_recv_priv for the queues.
_rtw_init_recv_priv ==
    [free |-> Enumerated(RpFrames), cnt |-> Cardinality(RpFrames), pend |-> << >>,
     defrag |-> [a \in Entries |-> << >>],
     cache |-> [a \in Entries |-> <<15, 15>>],
     at |-> [f \in RpFrames |-> [len |-> 0]],
     mic |-> "none", drop |-> 0]

RpInit ==
    /\ rpNet \in RpModes
    /\ rpSta = Senders /\ rpBlocked = (IF Secured THEN Senders \ {Bc} ELSE {})
    /\ rpKeyed = FALSE /\ rpStopped = FALSE
    /\ rq = _rtw_init_recv_priv /\ rpCur = NoRframe
    /\ rpTx = [a \in Entries |-> <<1, 0>>]    \* nothing heard yet
    /\ rpUp = << >> /\ rpSeen = [a \in Entries |-> {}] /\ rpCount = 0
-----------------------------------------------------------------------------
(* The pool *)

\* The entry f of a list is unlinked.
Unlinked(list, f) ==
    IF f \notin Range(list) THEN list
    ELSE LET i == CHOOSE i \in DOMAIN list : list[i] = f
         IN  SubSeq(list, 1, i - 1) \o SubSeq(list, i + 1, Len(list))

\* As if list_del_init were left out.
ListDel_Forgotten(s, f) == [s EXCEPT !.free = @]
\* list_del_init: the frame leaves whatever list it is in.
ListDel(s, f) ==
    [s EXCEPT !.free = Unlinked(@, f), !.pend = Unlinked(@, f),
              !.defrag = [a \in Entries |-> Unlinked(@[a], f)]]

\* What a free frame still holds is normalised.
NoAttrib == [len |-> 0]
rtw_free_recvframe(s, f) ==
    [ListDel(s, f) EXCEPT !.free = Append(@, f), !.cnt = @ + 1, !.at[f] = NoAttrib]

\* Freeing each frame of a list.
AllFreed(s, list) ==
    [s EXCEPT !.free = @ \o list, !.cnt = @ + Len(list),
              !.at = [f \in RpFrames |-> IF f \in Range(list) THEN NoAttrib ELSE @[f]]]
\* rtw_free_recvframe_queue for the fragments of station a.
rtw_free_recvframe_queue(s, a) == [AllFreed(s, s.defrag[a]) EXCEPT !.defrag[a] = << >>]

rtw_alloc_recvframe(s) == [s EXCEPT !.free = Tail(@), !.cnt = @ - 1]
-----------------------------------------------------------------------------
(* Frames and their lengths *)

IvLen(enc) == CASE enc = "wep" -> 4 [] enc \in {"tkip", "aes"} -> 8 [] OTHER -> 0
IcvLen(enc) == CASE enc \in {"wep", "tkip"} -> 4 [] enc = "aes" -> 8 [] OTHER -> 0
MicLen == 8

\* The fragment n (from 0) of MSDU i of sender a as it is on the air.  The
\* last fragment of a TKIP MSDU ends with the Michael code.
Fragment(a, i, n) ==
    LET d == Msdus[i]
        last == n + 1 = Len(d.frags)
        enc == IF d.priv THEN rpNet.cipher ELSE "none"
    IN  [from |-> a, seq |-> i, frag |-> n, more |-> ~ last, priv |-> d.priv,
         qos |-> d.qos, order |-> d.order, eapol |-> d.eapol, subs |-> d.subs,
         data |-> d.frags[n + 1],
         len |-> 24 + (IF d.qos THEN 2 ELSE 0) + (IF d.order THEN 4 ELSE 0) + IvLen(enc)
                 + d.frags[n + 1] + (IF last /\ enc = "tkip" THEN MicLen ELSE 0) + IcvLen(enc)]

\* rtw_os_alloc_recvframe: bytes after the frame in its skb.  The first of
\* several fragments gets room for the others.
Room(m) ==
    LET size == IF m.more /\ m.frag = 0 /\ m.len <= 1650 THEN 1664 ELSE m.len + 14
    IN  size - 8 - (IF m.qos THEN 6 ELSE 0) - m.len

\* recvbuf2recvframe and the attributes validate_recv_data_frame sets.
Attrib(m, hw) ==
    LET enc == IF m.priv THEN rpNet.cipher ELSE "none"
    IN  [m |-> m, len |-> m.len, room |-> Room(m), hw |-> hw, enc |-> enc,
         iv |-> IvLen(enc), icv |-> IcvLen(enc),
         hdr |-> (IF m.qos THEN 26 ELSE 24) + (IF m.order THEN 4 ELSE 0),
         parts |-> <<[seq |-> m.seq, frag |-> m.frag, more |-> m.more, data |-> m.data]>>]
-----------------------------------------------------------------------------
(* The checks on a frame: h has to_fr_ds, the addresses, the null bit *)

Me == "me"
MyBssid == IF rpNet.mode = "sta" THEN Ap ELSE Me
EntryOf(a) == IF a \in rpSta \cup {Bc} THEN {a} ELSE {}
Verdict(ret, entry, deauth) == [ret |-> ret, entry |-> entry, deauth |-> deauth]

\* ap2sta_data_frame, for a station and for an access point.
ap2sta_data_frame(h) ==
    IF rpNet.mode = "ap" THEN Verdict("handled", {}, {})
    ELSE IF rpSta = {} THEN      \* neither linked nor linking
        Verdict("fail", {}, IF h.dst = Me THEN {h.bssid} ELSE {})
    ELSE IF h.src = Me \/ h.dst \notin {Me, Bc} THEN Verdict("fail", {}, {})
    ELSE IF h.bssid # MyBssid THEN Verdict("fail", {}, IF h.dst = Bc THEN {} ELSE {h.bssid})
    ELSE LET e == EntryOf(IF h.dst = Bc THEN Bc ELSE h.bssid)
         IN  Verdict(IF e = {} THEN "fail" ELSE IF h.null THEN "handled" ELSE "ok", e, {})

\* sta2ap_data_frame (its power-save part is in ApSleep).
sta2ap_data_frame(h) ==
    IF rpNet.mode = "sta" THEN
        Verdict("handled", {}, IF h.bssid = Me THEN {h.src} ELSE {})   \* RA is the BSSID here
    ELSE IF h.bssid # MyBssid THEN Verdict("fail", {}, {})
    ELSE IF EntryOf(h.src) = {} THEN Verdict("handled", {}, {h.src})
    ELSE Verdict(IF h.null THEN "handled" ELSE "ok", EntryOf(h.src), {})

\* sta2sta_data_frame, for a station and for an access point.
sta2sta_data_frame(h) ==
    LET e == IF h.dst = Bc THEN {Bc} ELSE EntryOf(IF rpNet.mode = "sta" THEN h.bssid ELSE h.src)
        good == IF rpNet.mode = "sta" THEN h.bssid = h.src
                ELSE IF h.dst = Bc THEN h.bssid = Bc ELSE h.bssid = h.dst
    IN  Verdict(IF good /\ e # {} THEN "ok" ELSE "fail", e, {})

\* validate_recv_frame up to duplicate detection.
validate_recv_frame(h) ==
    IF h.version # 0 \/ h.type # "data" THEN Verdict("fail", {}, {})
    ELSE CASE h.ds = 0 -> sta2sta_data_frame(h) [] h.ds = 1 -> ap2sta_data_frame(h)
           [] h.ds = 2 -> sta2ap_data_frame(h) [] OTHER -> Verdict("fail", {}, {})

\* The header of sender a's frames.
HeaderOf(a) ==
    [version |-> 0, type |-> "data", null |-> FALSE,
     ds |-> IF rpNet.mode = "sta" THEN 1 ELSE 2,
     src |-> IF a = Bc THEN "x" ELSE a, dst |-> IF a = Bc THEN Bc ELSE Me,
     bssid |-> MyBssid]

\* As if only the fragment number were compared.
recv_decache_Frag(s, m) == s.cache[m.from][2] = m.frag /\ m.frag # 0
\* recv_decache: the frame repeats the last sequence control of its TID (all
\* MSDUs of the model are of one).
recv_decache(s, m) == s.cache[m.from] = <<m.seq, m.frag>>
-----------------------------------------------------------------------------
(* Reassembly *)

\* recvframe_pull_tail and recvframe_put refuse what does not fit.
PullTail(x, n) == IF n > x.len THEN x ELSE [x EXCEPT !.len = @ - n, !.room = @ + n]
Put(x, n) == IF n > x.room THEN x ELSE [x EXCEPT !.len = @ + n, !.room = @ - n]

\* One turn of the loop of recvframe_defrag: the payload of fragment y behind x.
AppendFragment(x, y) ==
    [Put(PullTail(x, x.icv), y.len - y.hdr - y.iv)
       EXCEPT !.icv = y.icv, !.parts = Append(@, y.parts[1])]

\* As if only the first number were checked.
InSequence_First(s, q) == s.at[Head(q)].m.frag = 0
\* recvframe_defrag: the fragments of q must be numbered from 0 without a gap.
InSequence(s, q) == \A i \in DOMAIN q : s.at[q[i]].m.frag = i - 1

\* The first frame of q with the payload of the others.
Joined(s, q) ==
    LET upTo[n \in DOMAIN q] ==
          IF n = 1 THEN s.at[q[1]] ELSE AppendFragment(upTo[n - 1], s.at[q[n]])
    IN  upTo[Len(q)]

recvframe_defrag(s, a) ==
    LET q == s.defrag[a]
        first == Head(q)
    IN  IF ~ InSequence(s, q)
        THEN [s |-> rtw_free_recvframe_queue(s, a), f |-> NoRframe]
        ELSE [s |-> rtw_free_recvframe_queue([ListDel(s, first) EXCEPT !.at[first] = Joined(s, q)], a),
              f |-> first]

\* rtw_handle_tkip_mic_err: the second error within a minute begins the
\* countermeasures.
rtw_handle_tkip_mic_err(s, soon) ==
    [s EXCEPT !.mic = IF @ = "once" /\ soon THEN "countermeasure" ELSE "once"]

\* recvframe_chkmic.  For a group-addressed frame the key it is given is an
\* uninitialised pointer, and the result is open.
recvframe_chkmic(s, f, luck) ==
    LET x == s.at[f]
        a == x.m.from
        known == a \in rpSta \cup {Bc}
        bad == known /\ ~ luck.mic
        told == IF bad /\ x.hw THEN rtw_handle_tkip_mic_err(s, luck.soon) ELSE s
    IN  IF x.enc # "tkip" THEN [s |-> s, ok |-> TRUE]
        ELSE [s |-> [told EXCEPT !.at[f] = PullTail(x, MicLen)], ok |-> ~ bad]

\* recvframe_chk_defrag: the frame, the reassembled one, or none yet ...
Reassembled(s, f) ==
    LET m == s.at[f].m
        a == m.from
        queued(t) == [t EXCEPT !.defrag[a] = Append(@, f)]
    IN  IF ~ m.more /\ m.frag = 0 THEN [s |-> s, f |-> f]
        ELSE IF a \notin rpSta \cup {Bc} THEN [s |-> rtw_free_recvframe(s, f), f |-> NoRframe]
        ELSE IF ~ m.more THEN recvframe_defrag(queued(s), a)
        ELSE [s |-> queued(IF m.frag = 0 THEN rtw_free_recvframe_queue(s, a) ELSE s),
              f |-> NoRframe]

\* ... and its Michael code: c is the answer of recvframe_chkmic for it.
MicChecked(r, c) ==
    IF r.f = NoRframe \/ ~ r.s.at[r.f].m.priv THEN r
    ELSE IF c.ok THEN [s |-> c.s, f |-> r.f]
    ELSE [s |-> rtw_free_recvframe(c.s, r.f), f |-> NoRframe]
WithMic(r, luck) == MicChecked(r, recvframe_chkmic(r.s, r.f, luck))
recvframe_chk_defrag(s, f, luck) == WithMic(Reassembled(s, f), luck)
-----------------------------------------------------------------------------
(* Delivery *)

\* wlanhdr_to_ethhdr of a SNAP frame: the length of the Ethernet frame.
wlanhdr_to_ethhdr(x) ==
    LET y == IF x.enc # "none" THEN PullTail(x, x.icv) ELSE x
    IN  y.len - (y.hdr + y.iv + 6) + 14 - 2

\* amsdu_to_msdu: the lengths of the subframes it finds.
amsdu_to_msdu(x) ==
    LET Sub(st, n) ==
            LET rest == st.left - 14 - n
                pad == (4 - ((n + 14) % 4)) % 4
            IN  IF st.done \/ st.left <= 14 \/ st.left < 14 + n THEN [st EXCEPT !.done = TRUE]
                ELSE [out |-> Append(st.out, n), done |-> rest # 0 /\ rest < pad,
                      left |-> IF rest = 0 \/ rest < pad THEN rest ELSE rest - pad]
        after[k \in 0..Len(x.m.subs)] ==
            IF k = 0 THEN [out |-> << >>, done |-> FALSE, left |-> x.len - x.hdr - x.iv]
            ELSE Sub(after[k - 1], x.m.subs[k])
    IN  after[Len(x.m.subs)].out

\* process_recv_indicatepkts.  In a block-ack agreement reordering may refuse
\* the frame (luck.take, see RecvReorder); a stopped driver indicates nothing,
\* and only the path without HT reports that to its caller.
Indication(x) ==
    IF rpNet.ht /\ x.m.subs # << >>
    THEN [from |-> x.m.from, parts |-> x.parts, eapol |-> x.m.eapol, eth |-> 0, subs |-> amsdu_to_msdu(x)]
    ELSE [from |-> x.m.from, parts |-> x.parts, eapol |-> x.m.eapol, eth |-> wlanhdr_to_ethhdr(x), subs |-> << >>]
Refused(x, luck) == rpNet.ht /\ x.m.qos /\ ~ luck.take

\* portctrl looks the station up by a pointer it has not set yet: luck.guess
\* is the entry it finds, or none.
portctrl(s, f, luck) ==
    ~ Secured \/ luck.guess \notin rpBlocked \/ s.at[f].m.eapol

\* decryptor: a frame the hardware did not decrypt is decrypted in software.
decryptor(s, f, luck) ==
    s.at[f].enc \in {"none", "wep"} \/ s.at[f].hw \/ (luck.dec /\ s.at[f].m.from \in rpSta \cup {Bc})

\* recv_func_posthandle, d being the answer of recvframe_chk_defrag.  After a
\* refusal it frees the frame it was called with, which for a reassembled one
\* is the last fragment.
Posthandled(s, f, d, luck) ==
    LET none(t) == [s |-> [t EXCEPT !.drop = 1], up |-> << >>]
    IN  IF ~ decryptor(s, f, luck) THEN none(rtw_free_recvframe(s, f))
        ELSE IF d.f = NoRframe THEN none(d.s)
        ELSE IF ~ portctrl(d.s, d.f, luck) THEN none(rtw_free_recvframe(d.s, d.f))
        ELSE IF rpStopped THEN
            IF rpNet.ht THEN [s |-> d.s, up |-> << >>] ELSE none(rtw_free_recvframe(d.s, f))
        ELSE IF Refused(d.s.at[d.f], luck) THEN none(rtw_free_recvframe(d.s, f))
        ELSE [s |-> rtw_free_recvframe(d.s, d.f), up |-> <<Indication(d.s.at[d.f])>>]
recv_func_posthandle(s, f, luck) == Posthandled(s, f, recvframe_chk_defrag(s, f, luck), luck)

\* The external outcomes for a frame, where they matter for it.
Luck(x) ==
    [dec : IF Secured /\ ~ x.hw THEN BOOLEAN ELSE {TRUE},
     mic : IF x.enc = "tkip" THEN BOOLEAN ELSE {TRUE},
     soon : IF x.enc = "tkip" /\ rq.mic = "once" THEN BOOLEAN ELSE {TRUE},
     take : IF rpNet.ht /\ x.m.qos THEN BOOLEAN ELSE {TRUE},
     guess : IF Secured THEN rpBlocked \cup {"none"} ELSE {"none"}]

\* What was indicated before the step, per sender.
PartsOf(u) == {<<u.parts[k].seq, u.parts[k].frag>> : k \in DOMAIN u.parts}
Noted == rpSeen' = IF rpUp = << >> THEN rpSeen
                   ELSE [rpSeen EXCEPT ![rpUp[1].from] = @ \cup PartsOf(rpUp[1])]
-----------------------------------------------------------------------------
(* Steps *)

rpEnv == <<rpNet, rpSta, rpBlocked, rpKeyed, rpStopped>>
rpQuiet == <<rpUp, rpSeen>>

\* The next transmission of a sender that is heard: the last one again, or
\* any later one when those between were lost. No sender fragments a
\* group-addressed MSDU.
Positions == {p \in (1..Len(Msdus)) \X (0..15) : p[2] < Len(Msdus[p[1]].frags)}
Heard(a) ==
    {p \in Positions :
        /\ a = Bc => Len(Msdus[p[1]].frags) = 1
        /\ p[1] > rpTx[a][1] \/ (p[1] = rpTx[a][1] /\ p[2] >= rpTx[a][2])}

\* recvbuf2recvframe takes a frame from the pool for it; without one the rest
\* of the buffer is dropped.
Receive(a) ==
    /\ rpCur = NoRframe /\ rpCount < MaxRpRx /\ rpCount' = rpCount + 1
    /\ rq.free # << >> /\ rpCur' = Head(rq.free)
    /\ \E p \in Heard(a), hw \in BOOLEAN :
         /\ ~ hw => Msdus[p[1]].priv
         /\ rpTx' = [rpTx EXCEPT ![a] = p]
         /\ rq' = [rtw_alloc_recvframe(rq) EXCEPT !.at[rpCur'] = Attrib(Fragment(a, p[1], p[2]), hw)]
    /\ rpUp' = << >> /\ Noted /\ UNCHANGED rpEnv

\* recv_func first handles the frames that waited for the key.
DrainPending ==
    /\ rpCur # NoRframe /\ rpNet.mode = "sta" /\ rpKeyed /\ rq.pend # << >>
    /\ \E luck \in Luck(rq.at[Head(rq.pend)]) :
         \E r \in {recv_func_posthandle(ListDel(rq, Head(rq.pend)), Head(rq.pend), luck)} :
            rq' = r.s /\ rpUp' = r.up
    /\ Noted /\ UNCHANGED <<rpCur, rpTx, rpCount, rpEnv>>

\* A frame without a key for it waits: recv_func, rtw_enqueue_recvframe.
MustWait(x) ==
    rpNet.mode = "sta" /\ x.m.from # Bc /\ x.enc \notin {"none", "wep"} /\ ~ x.hw /\ ~ rpKeyed

\* recv_func: recv_func_prehandle, then the frame waits or goes on.
recv_func ==
    /\ rpCur # NoRframe /\ ~ (rpNet.mode = "sta" /\ rpKeyed /\ rq.pend # << >>)
    /\ LET x == rq.at[rpCur]
           v == validate_recv_frame(HeaderOf(x.m.from))
           s == [rq EXCEPT !.cache[x.m.from] = <<x.m.seq, x.m.frag>>]
       IN  \/ /\ v.ret # "ok" \/ recv_decache(rq, x.m)
              /\ rq' = [rtw_free_recvframe(rq, rpCur) EXCEPT !.drop = 1] /\ rpUp' = << >>
           \/ /\ v.ret = "ok" /\ ~ recv_decache(rq, x.m) /\ MustWait(x)
              /\ rq' = [ListDel(s, rpCur) EXCEPT !.pend = Append(@, rpCur)] /\ rpUp' = << >>
           \/ /\ v.ret = "ok" /\ ~ recv_decache(rq, x.m) /\ ~ MustWait(x)
              /\ \E luck \in Luck(x) :
                   \E r \in {recv_func_posthandle(s, rpCur, luck)} : rq' = r.s /\ rpUp' = r.up
    /\ rpCur' = NoRframe
    /\ Noted /\ UNCHANGED <<rpTx, rpCount, rpEnv>>

\* Frames of others, null frames, management and control frames: refused or
\* used up by validate_recv_frame, and freed by recv_func_prehandle.
ReceiveForeign ==
    /\ rpCur = NoRframe /\ rpCount < MaxRpRx /\ rq.free # << >>
    /\ \E h \in Foreign :
         /\ validate_recv_frame(h).ret # "ok"
         /\ rq' = [rtw_free_recvframe(rtw_alloc_recvframe(rq), Head(rq.free)) EXCEPT
                     !.drop = IF validate_recv_frame(h).ret = "fail" /\ h.type = "data" THEN 1 ELSE @]
    /\ rpCount' = rpCount + 1 /\ rpUp' = << >>
    /\ Noted /\ UNCHANGED <<rpTx, rpCur, rpEnv>>

\* Keys installed (setkey), the port opened by the supplicant or the daemon.
InstallKey ==
    /\ rpCur = NoRframe /\ ~ rpKeyed /\ rpKeyed' = TRUE
    /\ UNCHANGED <<rpNet, rpSta, rpBlocked, rpStopped, rq, rpCur, rpTx, rpQuiet, rpCount>>
OpenPort(a) ==
    /\ rpCur = NoRframe /\ a \in rpBlocked /\ rpBlocked' = rpBlocked \ {a}
    /\ UNCHANGED <<rpNet, rpSta, rpKeyed, rpStopped, rq, rpCur, rpTx, rpQuiet, rpCount>>

\* rtw_free_uc_swdec_pending_queue, from disconnect_hdl and
\* rtw_stadel_event_callback.
rtw_free_uc_swdec_pending_queue ==
    /\ rpCur = NoRframe /\ rq.pend # << >>
    /\ rq' = [AllFreed(rq, rq.pend) EXCEPT !.pend = << >>]
    /\ UNCHANGED <<rpCur, rpTx, rpQuiet, rpCount, rpEnv>>

\* rtw_free_stainfo: the queue of fragments goes with the entry.
FreeStation(a) ==
    /\ rpCur = NoRframe /\ a \in rpSta \ {Bc}
    /\ rpSta' = rpSta \ {a} /\ rpBlocked' = rpBlocked \ {a}
    /\ rq' = [rq EXCEPT !.defrag[a] = << >>]
    /\ UNCHANGED <<rpNet, rpKeyed, rpStopped, rpCur, rpTx, rpQuiet, rpCount>>

StopDriver ==
    /\ rpCur = NoRframe /\ ~ rpStopped /\ rpStopped' = TRUE
    /\ UNCHANGED <<rpNet, rpSta, rpBlocked, rpKeyed, rq, rpCur, rpTx, rpQuiet, rpCount>>

RpNext ==
    \/ \E a \in Senders : Receive(a) \/ OpenPort(a) \/ FreeStation(a)
    \/ DrainPending \/ recv_func \/ ReceiveForeign
    \/ InstallKey \/ rtw_free_uc_swdec_pending_queue \/ StopDriver

RpSpec == RpInit /\ [][RpNext]_rpVars
-----------------------------------------------------------------------------
RpTypeOK ==
    /\ rpCur \in RpFrames \cup {NoRframe} /\ rpSta \subseteq Entries
    /\ rq.free \in Seq(RpFrames) /\ rq.pend \in Seq(RpFrames)
    /\ \A a \in Entries : rq.defrag[a] \in Seq(RpFrames)
    /\ Len(rpUp) <= 1

\* What reaches the stack is made of fragments numbered from 0 to the last
\* one, and its length is that of their data: header, IV, ICV and Michael code
\* of every fragment are gone and nothing else is (recvframe_defrag,
\* recvframe_chkmic, wlanhdr_to_ethhdr); an A-MSDU is split into exactly its
\* subframes (amsdu_to_msdu).
MsduWhole ==
    \A i \in DOMAIN rpUp :
      LET u == rpUp[i]
          n == Len(u.parts)
      IN  /\ \A k \in 1..n : u.parts[k].frag = k - 1 /\ u.parts[k].more = (k < n)
          /\ IF rpNet.ht /\ Msdus[u.parts[1].seq].subs # << >> THEN u.subs = Msdus[u.parts[1].seq].subs
             ELSE u.eth = 14 - 8 + FoldFunction(LAMBDA x, y : x + y, 0, [k \in 1..n |-> u.parts[k].data])

\* Nothing reaches the stack twice, whatever is repeated, lost, held back for
\* a key or for its other fragments (recv_decache, uc_swdec_pending_queue,
\* recvframe_defrag).
PartsOnce == \A i \in DOMAIN rpUp : PartsOf(rpUp[i]) \cap rpSeen[rpUp[i].from] = {}

\* A receive frame is in one list at most, and not in a list while the
\* tasklet works on it (rtw_alloc_recvframe, rtw_free_recvframe,
\* recvframe_chk_defrag, uc_swdec_pending_queue).
FrameOnce ==
    LET list == [n \in {"free", "pend"} \cup Entries |->
                   IF n = "free" THEN rq.free ELSE IF n = "pend" THEN rq.pend ELSE rq.defrag[n]]
    IN  \A n \in DOMAIN list :
          /\ IsInjective(list[n]) /\ rpCur \notin Range(list[n])
          /\ \A m \in DOMAIN list \ {n} : Range(list[m]) \cap Range(list[n]) = {}

\* What reaches the stack is a whole MSDU, made of the data of its fragments
\* in their order, or exactly the subframes of an A-MSDU, and nothing of it
\* reaches the stack twice (recvframe_defrag, amsdu_to_msdu, recv_decache).
MsduRight == RpTypeOK /\ MsduWhole /\ PartsOnce
=============================================================================
