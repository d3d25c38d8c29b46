-------------------------------- MODULE Keys --------------------------------
(***************************************************************************)
(* Keys, from the ioctl that brings one to the entry of the security CAM:  *)
(* the security settings (os_dep/ioctl_linux.c, core/rtw_ioctl_set.c), the *)
(* key commands and their queue (core/rtw_cmd.c, rtw_mlme.c, rtw_ap.c),    *)
(* the handlers of the command thread (core/rtw_mlme_ext.c), the MAC ids   *)
(* that select an entry (core/rtw_wlan_util.c) and the CAM (cam.c).        *)
(*                                                                         *)
(* The processes that call the ioctls, the contexts that add and free a    *)
(* station and the command thread interleave. A station here is one that   *)
(* ApAssoc keeps on asoc_list or, in station mode, the access point joined.*)
(***************************************************************************)
EXTENDS Integers, Sequences, FiniteSets

CONSTANTS
    KAddrs,         \* addresses of stations
    NumSta,         \* NUM_STA
    KIds,           \* the key indices the daemon uses, of 0 .. WEP_KEYS - 1
    KKeys,          \* keys
    KRoles,         \* a subset of {"ap", "sta"}
    KChanges,       \* the changes of the settings that are tried
    MaxKCalls,      \* bound on the operations from outside
    MaxKQ           \* bound on the commands in the queue

ASSUME KeysAssumption ==
    /\ IsFiniteSet(KAddrs) /\ KIds \subseteq 0 .. 3 /\ NumSta \in Nat /\ NumSta > 4
    /\ KRoles \subseteq {"ap", "sta"} /\ MaxKCalls \in Nat /\ MaxKQ \in Nat

ZeroKey == "zero"
Empty == [valid |-> FALSE, addr |-> "none", alg |-> "none", keyid |-> 0, key |-> ZeroKey]
Away == [there |-> FALSE, leaving |-> FALSE, mac |-> NumSta, alg |-> "none",
         key |-> ZeroKey]

VARIABLES
    kRole,          \* the mode of the interface, the same in pmlmeinfo->state
    kSec,           \* security_priv and key_mask
    kSta,           \* the stations: their MAC id, unicast key and its algorithm
    macid,          \* rtlusb->macid: the ids in use
    kQ,             \* the key commands in cmd_queue
    cam,            \* the entries of the security CAM
    txKey,          \* pmlmeinfo->key_index
    kCalls          \* operations so far

kVars == <<kRole, kSec, kSta, macid, kQ, cam, txKey, kCalls>>

\* The entries a key can come to: four default keys and one per MAC id.
Entries == 0 .. NumSta + 3

KInit ==
    /\ kRole \in KRoles
    /\ kSec = [auth |-> IF kRole = "ap" THEN "8021x" ELSE "open",
               priv |-> "none", grp |-> "none", ndis |-> "wep", type |-> "open",
               def |-> [i \in KIds |-> ZeroKey], len |-> [i \in KIds |-> 0],
               idx |-> CHOOSE i \in KIds : \A j \in KIds : i <= j,
               gkey |-> [i \in KIds |-> ZeroKey], mask |-> {}]
    /\ kSta = [s \in KAddrs |-> Away]
    /\ macid = {1}
    /\ kQ = <<>> /\ cam = [e \in Entries |-> Empty]
    /\ txKey = 0 /\ kCalls = 0

KCalled == kCalls < MaxKCalls /\ kCalls' = kCalls + 1

-----------------------------------------------------------------------------
(* MAC ids and entries *)

rtw_get_camid_Shift(m) == IF m >= 2 THEN m + 2 ELSE 4
rtw_get_camid(m) == IF m >= 2 THEN m + 3 ELSE 4

\* No room leaves NUM_STA.
rtw_alloc_macid ==
    LET free == 0 .. NumSta - 1 \ macid
    IN  IF free = {} THEN NumSta ELSE CHOOSE i \in free : \A j \in free : i <= j

rtw_release_macid(m) == IF m < NumSta /\ m # 1 THEN macid \ {m} ELSE macid

-----------------------------------------------------------------------------
(* The CAM *)

\* us_config: with default_key = 1 the entry has no key id.
rtw_cam_add_one_entry(c, e, addr, keyid, alg, default_key, key) ==
    [c EXCEPT ![e] = [valid |-> TRUE, addr |-> addr, alg |-> alg,
                      keyid |-> IF default_key = "wep40" THEN 0 ELSE keyid, key |-> key]]

clear_cam_entry(c, e) == [c EXCEPT ![e] = Empty]

flush_all_cam_entry == [e \in Entries |-> Empty]

-----------------------------------------------------------------------------
(* Key commands. A record of set_stakey_parm comes zeroed: id 0 unless set. *)

rtw_enqueue_cmd(cs) == Len(kQ) + Len(cs) <= MaxKQ /\ kQ' = kQ \o cs

StaKeyCmd(s, alg, key, id) ==
    <<[op |-> "stakey", addr |-> s, alg |-> alg, key |-> key, id |-> id, tx |-> FALSE]>>

KeyCmd(i, alg, key, tx) ==
    <<[op |-> "key", addr |-> "none", alg |-> alg, key |-> key, id |-> i, tx |-> tx]>>

Wep(alg) == alg \in {"wep40", "wep104"}

\* key_mask remembers the WEP keys.
Masked(sec, i, alg) == IF Wep(alg) THEN [sec EXCEPT !.mask = @ \cup {i}] ELSE sec

rtw_ap_set_pairwise_key(s) == StaKeyCmd(s, kSta'[s].alg, kSta'[s].key, 0)

rtw_ap_set_key(i, alg, key, tx) == KeyCmd(i, alg, key, tx)

\* The algorithm and the key are those of the settings; without a cipher there
\* is no command.
rtw_set_key(sec, i, tx) ==
    LET alg == IF sec.auth = "8021x" THEN sec.grp ELSE sec.priv
    IN  IF alg = "none" THEN <<>>
        ELSE KeyCmd(i, alg, IF Wep(alg) THEN sec.def[i] ELSE sec.gkey[i], tx)

SetKeyMask(sec, i) == Masked(sec, i, IF sec.auth = "8021x" THEN sec.grp ELSE sec.priv)

\* Station mode: the algorithm is the interface's.
rtw_setstakey_cmd(s) == StaKeyCmd(s, kSec.priv, kSta'[s].key, 0)

rtw_clearstakey_cmd(s, entry) == StaKeyCmd(s, "none", ZeroKey, entry)

WepOf(len) == IF len = 5 THEN "wep40" ELSE IF len = 13 THEN "wep104" ELSE "none"

rtw_set_802_11_add_wep(sec, i, len, key) ==
    [sec EXCEPT !.priv = WepOf(len), !.def[i] = IF len = 0 THEN @ ELSE key,
                !.len[i] = len, !.idx = i]

-----------------------------------------------------------------------------
(* Access point: stations and the daemon's RTL871X_SET_ENCRYPTION *)

StaJoins(s) ==
    /\ ~kSta[s].there /\ KCalled
    /\ kSta' = [kSta EXCEPT ![s] = [Away EXCEPT !.there = TRUE, !.mac = rtw_alloc_macid]]
    /\ macid' = (macid \cup {rtw_alloc_macid}) \ {NumSta}
    /\ UNCHANGED <<kRole, kSec, kQ, cam, txKey>>

\* ap_free_sta queues the clear command first ...
ap_free_sta(s) ==
    /\ kRole = "ap" /\ kSta[s].there /\ ~kSta[s].leaving /\ KCalled
    /\ rtw_enqueue_cmd(rtw_clearstakey_cmd(s, rtw_get_camid(kSta[s].mac)))
    /\ kSta' = [kSta EXCEPT ![s].leaving = TRUE]
    /\ UNCHANGED <<kRole, kSec, macid, cam, txKey>>

\* ... and gives up the station and its MAC id at its end.
rtw_free_stainfo_macid(s) ==
    /\ kSta[s].leaving
    /\ kSta' = [kSta EXCEPT ![s] = Away]
    /\ macid' = rtw_release_macid(kSta[s].mac)
    /\ UNCHANGED <<kRole, kSec, kQ, cam, txKey, kCalls>>

\* The orders in which a list of the stations S may be walked.
Walks(S) ==
    {on \in [1 .. Cardinality(S) -> S] : \A i, j \in DOMAIN on : on[i] = on[j] => i = j}

\* The CAM is flushed from the process itself, past the commands that wait;
\* then rtw_sta_flush frees the stations of asoc_list in turn.
rtw_hostapd_sta_flush ==
    /\ kRole = "ap" /\ KCalled
    /\ cam' = flush_all_cam_entry
    /\ \E stay \in {{s \in KAddrs : kSta[s].there /\ ~kSta[s].leaving}} :
          /\ \E on \in Walks(stay) :
                rtw_enqueue_cmd([i \in DOMAIN on |->
                    rtw_clearstakey_cmd(on[i], rtw_get_camid(kSta[on[i]].mac))[1]])
          /\ kSta' = [s \in KAddrs |-> [kSta[s] EXCEPT !.leaving = @ \/ s \in stay]]
    /\ UNCHANGED <<kRole, kSec, macid, txKey>>

SetNone ==
    /\ kRole = "ap" /\ KCalled
    /\ kSec' = [kSec EXCEPT !.auth = "open", !.ndis = "off", !.priv = "none", !.grp = "none"]
    /\ UNCHANGED <<kRole, kSta, macid, kQ, cam, txKey>>

\* A WEP key; with set_tx it also becomes the key of the interface.
SetWep(i, key, len, tx) ==
    /\ kRole = "ap" /\ KCalled
    /\ \E kept \in {[kSec EXCEPT !.def[i] = key, !.len[i] = len]} :
          kSec' = Masked(IF tx THEN [kept EXCEPT !.auth = "auto", !.ndis = "wep",
                                        !.priv = WepOf(len), !.grp = WepOf(len), !.idx = i]
                         ELSE kept, i, WepOf(len))
    /\ rtw_enqueue_cmd(rtw_ap_set_key(i, WepOf(len), key, tx))
    /\ UNCHANGED <<kRole, kSta, macid, cam, txKey>>

\* A group key. Its algorithm becomes the one of the interface.
GroupKey(sec, i, alg, key) ==
    Masked([sec EXCEPT !.gkey[i] = IF alg = "none" THEN @ ELSE key,
                       !.grp = alg, !.priv = alg], i, alg)

SetGroup(i, alg, key) ==
    /\ kRole = "ap" /\ KCalled /\ ~Wep(alg)
    /\ kSec' = GroupKey(kSec, i, alg, key)
    /\ rtw_enqueue_cmd(rtw_ap_set_key(i, alg, key, TRUE))
    /\ UNCHANGED <<kRole, kSta, macid, cam, txKey>>

\* The key of a station of the table, also one that is being freed.
SetPairwise(s, alg, key) ==
    /\ kRole = "ap" /\ kSec.auth = "8021x" /\ kSta[s].there /\ KCalled
    /\ kSta' = [kSta EXCEPT ![s].key = key, ![s].alg = alg]
    /\ rtw_enqueue_cmd(rtw_ap_set_pairwise_key(s))
    /\ UNCHANGED <<kRole, kSec, macid, cam, txKey>>

\* With set_tx = 0 a station's key is taken for a group key.
SetPairwiseNoTx(s, i, alg, key) ==
    /\ kRole = "ap" /\ kSec.auth = "8021x" /\ kSta[s].there /\ KCalled
    /\ kSec' = GroupKey(kSec, i, alg, key)
    /\ rtw_enqueue_cmd(rtw_ap_set_key(i, alg, key, TRUE))
    /\ UNCHANGED <<kRole, kSta, macid, cam, txKey>>

\* start_bss_network: WEP keys were set before and stay.
start_bss_network_flush ==
    /\ kRole = "ap" /\ KCalled
    /\ \A s \in KAddrs : ~kSta[s].there
    /\ ~Wep(kSec.priv)
    /\ cam' = flush_all_cam_entry
    /\ UNCHANGED <<kRole, kSec, kSta, macid, kQ, txKey>>

-----------------------------------------------------------------------------
(* Station: wireless extensions *)

Sta == kRole = "sta"

\* The element wpa_supplicant wants to join with.
rtw_set_wpa_ie(sec, group, pairwise) ==
    [sec EXCEPT !.auth = "8021x", !.type = "wpapsk", !.grp = group, !.priv = pairwise,
                !.ndis = IF pairwise = "none" THEN "off"
                         ELSE IF Wep(pairwise) THEN "wep" ELSE pairwise]

wpa_set_auth_algs(sec, shared, open) ==
    IF shared /\ open THEN [sec EXCEPT !.ndis = "wep", !.type = "auto", !.auth = "auto"]
    ELSE IF shared THEN [sec EXCEPT !.ndis = "wep", !.type = "shared", !.auth = "shared"]
    ELSE IF open /\ sec.type # "wpapsk" THEN [sec EXCEPT !.type = "open", !.auth = "open"]
    ELSE sec

Open(sec) == [sec EXCEPT !.priv = "none", !.grp = "none", !.auth = "open", !.type = "open"]

\* IW_AUTH_DROP_UNENCRYPTED
rtw_wx_set_auth_drop(sec, value) ==
    IF sec.ndis = "wep" \/ ~value THEN sec ELSE [Open(sec) EXCEPT !.ndis = "off"]

\* rtw_wx_set_enc up to the key: IW_ENCODE_OPEN, _RESTRICTED or neither.
EncodeMode(sec, restricted) ==
    IF restricted THEN [sec EXCEPT !.ndis = "wep", !.auth = "shared", !.type = "shared",
                                   !.priv = "wep40", !.grp = "wep40"]
    ELSE [Open(sec) EXCEPT !.ndis = "wep"]

Settings ==
    /\ Sta /\ KCalled
    /\ \E ch \in KChanges :
          kSec' = CASE ch = "wpa" -> rtw_set_wpa_ie(kSec, "tkip", "ccmp")
                    [] ch = "wpawep" -> rtw_set_wpa_ie(kSec, "wep104", "wep40")
                    [] ch = "wpanone" -> rtw_set_wpa_ie(kSec, "none", "none")
                    [] ch = "any" -> wpa_set_auth_algs(kSec, TRUE, TRUE)
                    [] ch = "shared" -> wpa_set_auth_algs(kSec, TRUE, FALSE)
                    [] ch = "open" -> wpa_set_auth_algs(kSec, FALSE, TRUE)
                    [] ch = "drop" -> rtw_wx_set_auth_drop(kSec, TRUE)
                    [] ch = "disable" -> [Open(kSec) EXCEPT !.ndis = "off"]
    /\ UNCHANGED <<kRole, kSta, macid, kQ, cam, txKey>>

\* No key material: the index is selected, its length names the algorithm.
SelectKey(i, restricted) ==
    /\ Sta /\ KCalled
    /\ \E m \in {EncodeMode(kSec, restricted)} :
          kSec' = [m EXCEPT !.idx = i, !.priv = WepOf(kSec.len[i])]
    /\ UNCHANGED <<kRole, kSta, macid, kQ, cam, txKey>>

\* A key is the transmit key from now on; with length 0 rtw_set_key fails.
rtw_wx_set_enc(i, restricted, len, key) ==
    /\ Sta /\ KCalled
    /\ \E m \in {rtw_set_802_11_add_wep(EncodeMode(kSec, restricted), i, len, key)} :
          /\ kSec' = SetKeyMask(m, i)
          /\ rtw_enqueue_cmd(rtw_set_key(m, i, TRUE))
    /\ UNCHANGED <<kRole, kSta, macid, cam, txKey>>

wpa_set_encryption_wep(i, len, key, tx) ==
    LET m == [kSec EXCEPT !.ndis = "wep", !.priv = WepOf(len), !.grp = WepOf(len)]
    IN  IF tx THEN rtw_set_802_11_add_wep(m, i, len, key)
        ELSE [m EXCEPT !.def[i] = key, !.len[i] = len]

\* A WEP key is never a group key: set_tx is what the caller says.
rtw_wx_set_enc_ext(i, len, key, tx) ==
    /\ Sta /\ KCalled
    /\ \E n \in {wpa_set_encryption_wep(i, len, key, tx)} :
          /\ kSec' = SetKeyMask(n, i)
          /\ rtw_enqueue_cmd(rtw_set_key(n, i, tx))
    /\ UNCHANGED <<kRole, kSta, macid, cam, txKey>>

\* wpa_set_encryption, 802.1X: the pairwise key of the access point joined
wpa_set_encryption_pairwise(s, key) ==
    /\ Sta /\ kSec.auth = "8021x" /\ kSta[s].there /\ KCalled
    /\ kSta' = [kSta EXCEPT ![s].key = key,
                            ![s].alg = IF kSec.ndis \in {"tkip", "ccmp"} THEN kSec.priv ELSE @]
    /\ rtw_enqueue_cmd(rtw_setstakey_cmd(s))
    /\ UNCHANGED <<kRole, kSec, macid, cam, txKey>>

\* ... and its group key
wpa_set_encryption_group(s, i, key) ==
    /\ Sta /\ kSec.auth = "8021x" /\ kSta[s].there /\ KCalled
    /\ \E m \in {[kSec EXCEPT !.gkey[i] = key]} :
          /\ kSec' = SetKeyMask(m, i)
          /\ rtw_enqueue_cmd(rtw_set_key(m, i, TRUE))
    /\ UNCHANGED <<kRole, kSta, macid, cam, txKey>>

\* The link ends: the disconnect command flushes the CAM in its turn.
Leaves(s) ==
    /\ Sta /\ kSta[s].there /\ KCalled
    /\ rtw_enqueue_cmd(<<[op |-> "disconnect", addr |-> s, alg |-> "none", key |-> ZeroKey,
                          id |-> 0, tx |-> FALSE]>>)
    /\ kSta' = [kSta EXCEPT ![s] = Away]
    /\ macid' = rtw_release_macid(kSta[s].mac)
    /\ UNCHANGED <<kRole, kSec, cam, txKey>>

\* Inactive power save: the chip forgets its keys, rtw_ips_leave brings the WEP
\* keys of key_mask back.
Restored(sec) ==
    LET ids == {i \in sec.mask : rtw_set_key(sec, i, TRUE) # <<>>}
        ord == [n \in 1 .. Cardinality(ids) |->
                   CHOOSE i \in ids : Cardinality({j \in ids : j < i}) = n - 1]
    IN  [n \in DOMAIN ord |-> rtw_set_key(sec, ord[n], ord[n] = sec.idx)[1]]

rtw_ips_leave_keys ==
    /\ Sta /\ KCalled /\ \A s \in KAddrs : ~kSta[s].there
    /\ cam' = flush_all_cam_entry
    /\ IF Wep(kSec.priv) THEN rtw_enqueue_cmd(Restored(kSec)) ELSE kQ' = kQ
    /\ UNCHANGED <<kRole, kSec, kSta, macid, txKey>>

-----------------------------------------------------------------------------
(* The command thread *)

\* The last two arguments of rtw_cam_add_one_entry reach it in the order 0,
\* algorithm: the entry gets algorithm 0.
setkey_hdl(c) ==
    /\ cam' = rtw_cam_add_one_entry(cam, c.id, "none", c.id, "none", c.alg, c.key)
    /\ txKey' = IF c.tx THEN c.id ELSE txKey

\* Access point: the station is looked up by its address now, not when the
\* command was queued.
StaKeyAp(c) ==
    /\ \/ /\ kSta[c.addr].there /\ kSta[c.addr].mac # 1 /\ kSta[c.addr].mac <= NumSta - 4
          /\ cam' = rtw_cam_add_one_entry(cam, rtw_get_camid(kSta[c.addr].mac), c.addr, 0,
                                          c.alg, "wep40", c.key)
       \/ /\ ~kSta[c.addr].there \/ kSta[c.addr].mac = 1 \/ kSta[c.addr].mac > NumSta - 4
          /\ cam' = cam
    /\ UNCHANGED txKey

StaKeySta(c) ==
    /\ cam' = rtw_cam_add_one_entry(cam, rtw_get_camid(IF kSta[c.addr].there
                                                       THEN kSta[c.addr].mac ELSE 0),
                                    c.addr, 0, c.alg, "wep40", c.key)
    /\ UNCHANGED txKey

\* Without an algorithm the entry the command names is cleared.
set_stakey_hdl(c) ==
    IF c.alg = "none" THEN cam' = clear_cam_entry(cam, c.id) /\ UNCHANGED txKey
    ELSE IF kRole = "ap" THEN StaKeyAp(c) ELSE StaKeySta(c)

disconnect_hdl_cam == cam' = flush_all_cam_entry /\ UNCHANGED txKey

Handle ==
    /\ kQ # <<>>
    /\ kQ' = Tail(kQ)
    /\ \/ Head(kQ).op = "key" /\ setkey_hdl(Head(kQ))
       \/ Head(kQ).op = "stakey" /\ set_stakey_hdl(Head(kQ))
       \/ Head(kQ).op = "disconnect" /\ disconnect_hdl_cam
    /\ UNCHANGED <<kRole, kSec, kSta, macid, kCalls>>

KNext ==
    \/ \E s \in KAddrs : StaJoins(s) \/ ap_free_sta(s) \/ rtw_free_stainfo_macid(s) \/ Leaves(s)
    \/ rtw_hostapd_sta_flush \/ SetNone \/ start_bss_network_flush
    \/ \E i \in KIds, k \in KKeys, len \in {5, 13}, tx \in BOOLEAN :
          SetWep(i, k, len, tx) \/ rtw_wx_set_enc_ext(i, len, k, tx)
    \/ \E i \in KIds, k \in KKeys, a \in {"none", "ccmp"} : SetGroup(i, a, k)
    \/ \E s \in KAddrs, k \in KKeys, a \in {"none", "ccmp"} : SetPairwise(s, a, k)
    \/ \E s \in KAddrs, i \in KIds, k \in KKeys : SetPairwiseNoTx(s, i, "tkip", k)
    \/ Settings
    \/ \E i \in KIds, r \in BOOLEAN : SelectKey(i, r)
    \/ \E i \in KIds, r \in BOOLEAN, k \in KKeys, len \in {0, 5} : rtw_wx_set_enc(i, r, len, k)
    \/ \E s \in KAddrs, k \in KKeys : wpa_set_encryption_pairwise(s, k)
    \/ \E s \in KAddrs, i \in KIds, k \in KKeys : wpa_set_encryption_group(s, i, k)
    \/ rtw_ips_leave_keys
    \/ Handle

KSpec == KInit /\ [][KNext]_kVars

-----------------------------------------------------------------------------

\* Once the queue is empty, a station of the access point that was given a key
\* has that key, its algorithm and its own address in the entry of its MAC id,
\* however often the id changed hands while commands of the previous holder
\* waited (rtw_clearstakey_cmd, set_stakey_hdl, rtw_release_macid).
PairwiseProgrammed ==
    kRole = "ap" /\ kQ = <<>> =>
        \A s \in KAddrs :
            kSta[s].there /\ ~kSta[s].leaving /\ kSta[s].alg # "none" /\ kSta[s].mac <= NumSta - 4 =>
                cam[rtw_get_camid(kSta[s].mac)] =
                    [valid |-> TRUE, addr |-> s, alg |-> kSta[s].alg, keyid |-> 0,
                     key |-> kSta[s].key]
=============================================================================
