------------------------------ MODULE ApAssoc ------------------------------
(***************************************************************************)
(* The stations of the access point (core/rtw_ap.c, core/rtw_sta_mgt.c and *)
(* the frame handlers of core/rtw_mlme_ext.c): authentication with the two *)
(* algorithms, association, departure, expiry, the access list, and what   *)
(* the BSS tells about the abilities its stations lack.                    *)
(*                                                                         *)
(* The station objects of the broadcast address and of the access point    *)
(* itself are taken for good and are not among Objs. A handler is a step:  *)
(* each runs under the locks of the lists it changes. The walk of          *)
(* expire_timeout_chk over auth_list is one step, although it gives up     *)
(* auth_list_lock between two stations. Time is abstract: expire_to of a   *)
(* station may run out in any walk.                                        *)
(***************************************************************************)
EXTENDS Integers, FiniteSets

CONSTANTS
    ApAddrs, NoAddr,    \* addresses of stations, and none
    Objs,               \* the sta_info objects, a set of numbers
    Slots,              \* NUM_STA: length of sta_aid
    MaxNumSta,          \* max_num_sta, from the daemon
    NumAcl,             \* NUM_ACL
    ApSetups,           \* what the daemon set up with the first beacon: mode,
                        \* dot11AuthAlgrthm (0 open, 1 shared, 2 auto, 3
                        \* 802.1X); wep: WEP in use; ht: ht_option; the access
                        \* list; ERP and WPS element; the beacon it sets later
    AclModes,           \* modes it sets later
    AsocReqs,           \* association requests
    MaxCount,           \* bound on the num_sta_ counters
    DaemonAids,         \* aids the daemon may give
    MaxCalls            \* bound on calls of the daemon that set something up

\* The six abilities the BSS counts stations without; "erp" and "pre" show in
\* the ERP element, the last three in the HT operation.
Caps == {"pre", "erp", "slot", "noht", "nogf", "ht20"}

\* What an association request shows: whether its other elements fit (they
\* parse; SSID, rates, ciphers and WPS), and the abilities of the station.
Abilities == {"pre", "ofdm", "slot", "ht", "vht", "gf", "w40"}

ASSUME ApAssocAssumption ==
    /\ NoAddr \notin ApAddrs /\ Objs \subseteq Nat \ {0} /\ IsFiniteSet(Objs)
    /\ Slots \in Nat \ {0} /\ MaxNumSta \in 1 .. Slots /\ NumAcl \in Nat
    /\ ApSetups \subseteq [mode : 0 .. 3, wep : BOOLEAN, ht : BOOLEAN,
                           acl : [mode : 0 .. 2, addrs : SUBSET ApAddrs],
                           erp : BOOLEAN, wps : BOOLEAN,
                           later : [erp : {"none", "clear", "protect"},
                                    wpa : BOOLEAN, ht : BOOLEAN, wps : BOOLEAN]]
    /\ AclModes \subseteq 0 .. 2 /\ AsocReqs \subseteq [fits : BOOLEAN, can : SUBSET Abilities]
    /\ MaxCount \in Nat /\ MaxCalls \in Nat /\ DaemonAids \subseteq 1 .. Slots

NoSta == 0

VARIABLES
    cfg,            \* the configuration
    sta,            \* the station objects
    authL, asocL,   \* auth_list, asoc_list
    apCnt,          \* auth_list_cnt, asoc_list_cnt, asoc_sta_count
    staAid,         \* sta_aid
    acl,            \* mode and valid entries of acl_list
    num,            \* the six num_sta_ counters
    erp,            \* ERP_enable, bstart_bss, and the bits of the ERP element
    htOp,           \* ht_op_mode
    apOn,           \* "on", inside stop_ap_mode "flush", and "off"
    truth           \* history: addresses challenged, addresses admitted, calls
                    \* of the daemon, and whether it replaced the beacon

apVars == <<cfg, sta, authL, asocL, apCnt, staAid, acl, num, erp, htOp, apOn,
            truth>>

\* _rtw_init_stainfo: the object is zeroed. Of the state flags, the two that
\* are tested are kept: "authok" (WIFI_FW_AUTH_SUCCESS) and "asocok"
\* (WIFI_FW_ASSOC_SUCCESS).
Blank == [addr |-> NoAddr, st |-> {}, seq |-> 0, aid |-> 0,
          set |-> {}, rts |-> FALSE]

Allocated == {o \in Objs : sta[o].addr # NoAddr}
Free == Objs \ Allocated
rtw_get_stainfo(a) == {o \in Objs : sta[o].addr = a}

\* start_ap_mode, and the first beacon of the daemon: all is reset.
start_ap_mode ==
    /\ authL = {} /\ asocL = {} /\ apCnt = [auth |-> 0, asoc |-> 0, sta |-> 0]
    /\ staAid = [i \in 1 .. Slots |-> NoSta]
    /\ num = [c \in Caps |-> 0]
    /\ htOp = [bits |-> {}, mode |-> "pure"]

ApInit ==
    /\ cfg \in ApSetups
    /\ sta = [o \in Objs |-> Blank]
    /\ start_ap_mode /\ acl = cfg.acl
    /\ erp = [on |-> cfg.erp, start |-> ~cfg.wps, bits |-> {}]
    /\ apOn = "on"
    /\ truth = [asked |-> {}, passed |-> {}, calls |-> 0,
                replaced |-> FALSE]
-----------------------------------------------------------------------------
(***************************************************************************)
(* The abilities of the BSS.                                               *)
(***************************************************************************)
\* VCS_update with AUTO_VCS = 2 and RTS_CTS = 1.
Vcs(e) == e.on /\ "erp" \in e.bits

\* associated_clients_update.
Updated(s, L, e) ==
    [o \in Objs |-> IF o \in L THEN [s[o] EXCEPT !.rts = Vcs(e)] ELSE s[o]]

\* update_beacon does nothing before the BSS has started; in the element
\* protection is on when exactly one station needs it.
update_bcn_erpinfo_ie(e, n) ==
    IF ~e.on \/ ~e.start THEN e
    ELSE [e EXCEPT !.bits = (IF n["erp"] = 1 THEN {"erp"} ELSE {}) \union
                            (IF n["pre"] > 0 THEN {"pre"} ELSE {})]

\* rtw_ht_operation_update: nothing when the BSS has HT. olbc_ht is never set.
rtw_ht_operation_update(n) ==
    IF cfg.ht THEN htOp
    ELSE LET bits == (IF n["nogf"] > 0 THEN {"nongf"} ELSE {}) \union
                     (IF n["noht"] > 0 THEN {"nonht"} ELSE {})
         IN [bits |-> bits,
             mode |-> IF bits # {} THEN "mixed"
                      ELSE IF n["ht20"] > 0 THEN "20mhz" ELSE "pure"]

\* bss_cap_update_on_sta_join: the flags the station gains and loses. A flag
\* of an HT ability is only lost when the station leaves.
Gained(o, lack) ==
    LET ht == "noht" \notin lack
    IN {c \in lack \ sta[o].set : c \in {"nogf", "ht20"} => ht}
Lost(o, lack) ==
    {c \in sta[o].set \ lack : c \in {"pre", "erp", "slot", "noht"}}

Recount(gain, lose) ==
    [c \in Caps |-> num[c] + (IF c \in gain THEN 1 ELSE 0)
                           - (IF c \in lose THEN 1 ELSE 0)]

\* The beacon is changed when the first station without an ability comes or
\* the last one goes; only "erp" touches the ERP element.
Turns(gain, lose, n) ==
    \E c \in {"pre", "erp", "slot"} :
        (c \in gain /\ n[c] = 1) \/ (c \in lose /\ n[c] = 0)
ErpAfter(gain, lose, n) ==
    IF ("erp" \in gain /\ n["erp"] = 1) \/ ("erp" \in lose /\ n["erp"] = 0)
    THEN update_bcn_erpinfo_ie(erp, n) ELSE erp

bss_cap_update_on_sta_leave(o) == Recount({}, sta[o].set)
-----------------------------------------------------------------------------
(***************************************************************************)
(* The table of stations.                                                  *)
(***************************************************************************)
rtw_alloc_stainfo(a) == [Blank EXCEPT !.addr = a]

\* rtw_free_stainfo for the stations gone: the slot of an aid is given back
\* when the station still holds it. asoc_list is left to the caller.
rtw_free_stainfo(gone) ==
    /\ authL' = authL \ gone
    /\ staAid' = [i \in 1 .. Slots |->
                    IF \E o \in gone : sta[o].aid = i /\ staAid[i] = o
                    THEN NoSta ELSE staAid[i]]
    /\ truth' = [truth EXCEPT !.asked = @ \ {sta[o].addr : o \in gone},
                              !.passed = @ \ {sta[o].addr : o \in gone}]
Without(s, gone) == [o \in Objs |-> IF o \in gone THEN Blank ELSE s[o]]
CntFreed(c, gone) ==
    [c EXCEPT !.sta = @ - Cardinality(gone),
              !.auth = @ - Cardinality(gone \cap authL)]

\* rtw_access_ctrl: mode 1 lists who is denied, mode 2 who is accepted.
rtw_access_ctrl(a) ==
    CASE acl.mode = 1 -> a \notin acl.addrs
      [] acl.mode = 2 -> a \in acl.addrs
      [] OTHER -> TRUE

\* A call of the daemon.
Called(replaced) ==
    /\ apOn = "on" /\ truth.calls < MaxCalls
    /\ truth' = [truth EXCEPT !.calls = @ + 1, !.replaced = @ \/ replaced]

rtw_set_macaddr_acl(m) ==
    /\ Called(FALSE) /\ acl.mode # m /\ acl' = [acl EXCEPT !.mode = m]
    /\ UNCHANGED <<cfg, sta, authL, asocL, apCnt, staAid, num, erp, htOp, apOn>>
rtw_acl_add_sta(a) ==
    /\ Called(FALSE) /\ Cardinality(acl.addrs) < NumAcl /\ a \notin acl.addrs
    /\ acl' = [acl EXCEPT !.addrs = @ \union {a}]
    /\ UNCHANGED <<cfg, sta, authL, asocL, apCnt, staAid, num, erp, htOp, apOn>>
rtw_acl_remove_sta(a) ==
    /\ Called(FALSE) /\ a \in acl.addrs
    /\ acl' = [acl EXCEPT !.addrs = @ \ {a}]
    /\ UNCHANGED <<cfg, sta, authL, asocL, apCnt, staAid, num, erp, htOp, apOn>>
-----------------------------------------------------------------------------
(***************************************************************************)
(* Authentication.                                                         *)
(***************************************************************************)
\* The mode in force: auto without WEP is open.
AuthMode == IF cfg.mode = 2 /\ ~cfg.wep THEN 0 ELSE cfg.mode
BadAlg(alg) == (alg > 0 /\ AuthMode = 0) \/ (alg = 0 /\ AuthMode = 1)

\* What the table is after the station of address a, as object o, is on
\* auth_list and no longer on asoc_list.
OnAuthList(a, o) ==
    IF o \in Allocated THEN sta[o] ELSE rtw_alloc_stainfo(a)

\* A slip: a station that authenticates again stays on asoc_list.
OffAsoc_Stays(o) == asocL

\* A station that authenticates again is associated no more.
OffAsoc(o) == asocL \ {o}

\* A slip: the number of the frame is not compared with the exchange.
AuthOk_AnyTurn(s, alg, q, proof) ==
    IF alg = 0 THEN q = 1 ELSE q = 1 \/ (q = 3 /\ proof)

\* Is the frame the next one of the exchange of the station? proof: it holds
\* the challenge text.
AuthOk(s, alg, q, proof) ==
    /\ s.seq + 1 = q
    /\ IF alg = 0 THEN q = 1 ELSE q = 1 \/ (q = 3 /\ proof)

\* The state of the station after a frame that is accepted.
Authed(s, alg, q) ==
    LET st == IF alg = 0 \/ q = 3 THEN s.st \union {"authok"} ELSE s.st
    IN [s EXCEPT !.st = st,
                 !.seq = IF "authok" \in st THEN 0 ELSE q + 1]

\* OnAuth, the frame refused before the station is looked up: nothing changes
\* (the answer is built on a static station object).
AuthRefused(a, alg) ==
    \/ BadAlg(alg)
    \/ ~rtw_access_ctrl(a)
    \/ rtw_get_stainfo(a) = {} /\ Free = {}

\* OnAuth, accepted. alg is 0 or 1, q the sequence number of the frame.
OnAuth(a, alg, q, proof) ==
    /\ apOn # "off" /\ ~AuthRefused(a, alg)
    /\ \E o \in Objs :
        /\ IF rtw_get_stainfo(a) # {} THEN sta[o].addr = a
           ELSE o = CHOOSE x \in Free : \A y \in Free : x <= y
        /\ LET s == OnAuthList(a, o) IN
           /\ AuthOk(s, alg, q, proof)
           /\ sta' = [sta EXCEPT ![o] = Authed(s, alg, q)]
           /\ asocL' = OffAsoc(o) /\ authL' = authL \union {o}
           /\ apCnt' = [sta |-> IF o \in Allocated THEN apCnt.sta
                                ELSE apCnt.sta + 1,
                        auth |-> IF o \in authL THEN apCnt.auth
                                 ELSE apCnt.auth + 1,
                        asoc |-> IF o \in asocL THEN apCnt.asoc - 1
                                 ELSE apCnt.asoc]
    /\ truth' = [truth EXCEPT
            !.asked = IF alg > 0 /\ q = 1 THEN @ \union {a} ELSE @,
            !.passed = IF \/ alg = 0 /\ AuthMode # 1
                          \/ q = 3 /\ proof /\ a \in truth.asked
                       THEN @ \union {a} ELSE @]
    /\ UNCHANGED <<cfg, staAid, acl, num, erp, htOp, apOn>>

\* OnAuth, out of sequence or a wrong answer: the station is freed, with its
\* flags still counted.
OnAuthFail(a, alg, q, proof) ==
    /\ apOn # "off" /\ ~AuthRefused(a, alg)
    /\ IF rtw_get_stainfo(a) = {}
       THEN ~AuthOk(Blank, alg, q, proof) /\ UNCHANGED apVars
       ELSE \E o \in rtw_get_stainfo(a) :
              /\ ~AuthOk(sta[o], alg, q, proof)
              /\ rtw_free_stainfo({o})
              /\ sta' = Without(sta, {o}) /\ asocL' = OffAsoc(o)
              /\ apCnt' = [CntFreed(apCnt, {o}) EXCEPT
                             !.asoc = IF o \in asocL THEN @ - 1 ELSE @]
              /\ UNCHANGED <<cfg, acl, num, erp, htOp, apOn>>

-----------------------------------------------------------------------------
(***************************************************************************)
(* Association.                                                            *)
(***************************************************************************)
\* Neither authenticated nor associated: asoc_class2_error.
MayAssociate(o) == sta[o].st \intersect {"authok", "asocok"} # {}
AsocState(o) ==
    sta[o].st \ (IF "authok" \in sta[o].st THEN {"authok"} ELSE {"asocok"})

\* The abilities the station lacks. One that has HT but not VHT is taken for
\* a station without HT.
LackOf(can) ==
    {c \in Caps : CASE c = "pre" -> "pre" \notin can
                    [] c = "erp" -> "ofdm" \notin can
                    [] c = "slot" -> "slot" \notin can
                    [] c = "noht" -> ~({"ht", "vht"} \subseteq can)
                    [] c = "nogf" -> "gf" \notin can
                    [] OTHER -> "w40" \notin can}

\* The elements parse, and SSID, rates, RSN or WPA ciphers and WPS fit.
ElementsFit(req) == req.fits

\* A request is refused for its elements, and for HT or VHT the BSS has not.
Refused(req) ==
    ~ElementsFit(req) \/ (~cfg.ht /\ req.can \intersect {"ht", "vht"} # {})

\* OnAssocReqFail: the station loses its aid; sta_aid keeps the station, and
\* the station its place on the lists.
OnAssocReqFail(a, req) ==
    /\ apOn # "off" /\ Refused(req)
    /\ \E o \in rtw_get_stainfo(a) :
        /\ MayAssociate(o)
        /\ sta' = [sta EXCEPT ![o].st = AsocState(o), ![o].aid = 0]
    /\ UNCHANGED <<cfg, authL, asocL, apCnt, staAid, acl, num, erp, htOp, apOn,
                   truth>>

\* The lowest free slot; above max_num_sta the request is refused.
FreeAid ==
    IF \E i \in 1 .. Slots : staAid[i] = NoSta
    THEN CHOOSE i \in 1 .. Slots :
            staAid[i] = NoSta /\ \A j \in 1 .. i - 1 : staAid[j] # NoSta
    ELSE Slots + 1
AidFor(o) == IF sta[o].aid > 0 THEN sta[o].aid ELSE FreeAid

NoRoom(a) ==
    /\ apOn # "off"
    /\ \E o \in rtw_get_stainfo(a) :
        /\ MayAssociate(o) /\ sta[o].aid = 0 /\ FreeAid > MaxNumSta
        /\ sta' = [sta EXCEPT ![o].st = AsocState(o)]
    /\ UNCHANGED <<cfg, authL, asocL, apCnt, staAid, acl, num, erp, htOp, apOn,
                   truth>>

\* A slip: protection is only told to the station that joins.
bss_cap_update_on_sta_join_Alone(o, lack, s, L) ==
    LET gain == Gained(o, lack)
        lose == Lost(o, lack)
        n == Recount(gain, lose)
    IN /\ num' = n /\ erp' = ErpAfter(gain, lose, n)
       /\ htOp' = rtw_ht_operation_update(n)
       /\ sta' = Updated(s, {o}, erp')

\* bss_cap_update_on_sta_join and VCS_update of the station itself
\* (sta_info_update, update_sta_info_apmode).
bss_cap_update_on_sta_join(o, lack, s, L) ==
    LET gain == Gained(o, lack)
        lose == Lost(o, lack)
        n == Recount(gain, lose)
    IN /\ num' = n /\ erp' = ErpAfter(gain, lose, n)
       /\ htOp' = rtw_ht_operation_update(n)
       /\ sta' = Updated(s, IF Turns(gain, lose, n) THEN L ELSE {o}, erp')

\* OnAssocReq, accepted.
OnAssocReq(a, req) ==
    /\ apOn # "off" /\ ~Refused(req)
    /\ \E o \in rtw_get_stainfo(a), lack \in {LackOf(req.can)} :
        /\ MayAssociate(o) /\ AidFor(o) <= Slots
        /\ sta[o].aid = 0 => FreeAid <= MaxNumSta
        /\ \A c \in Gained(o, lack) : num[c] < MaxCount
        /\ staAid' = [staAid EXCEPT ![AidFor(o)] = IF sta[o].aid > 0 THEN @ ELSE o]
        /\ authL' = authL \ {o} /\ asocL' = asocL \union {o}
        /\ apCnt' = [apCnt EXCEPT
                       !.auth = IF o \in authL THEN @ - 1 ELSE @,
                       !.asoc = IF o \in asocL THEN @ ELSE @ + 1]
        /\ LET s == [sta EXCEPT
                       ![o].st = AsocState(o) \union {"asocok"},
                       ![o].aid = AidFor(o),
                       ![o].set = (@ \union Gained(o, lack)) \ Lost(o, lack)]
           IN bss_cap_update_on_sta_join(o, lack, s, asocL')
    /\ UNCHANGED <<cfg, acl, apOn, truth>>

\* rtw_add_sta: the daemon writes its own aid into the station.
rtw_add_sta(a, aid) ==
    /\ Called(FALSE)
    /\ \E o \in rtw_get_stainfo(a) :
        sta' = [sta EXCEPT ![o].aid = aid, ![o].rts = Vcs(erp)]
    /\ UNCHANGED <<cfg, authL, asocL, apCnt, staAid, acl, num, erp, htOp, apOn>>
-----------------------------------------------------------------------------
(***************************************************************************)
(* Departure.                                                              *)
(***************************************************************************)
\* ap_free_sta of a station taken off asoc_list. `updated` is what the caller
\* hands to associated_clients_update.
ap_free_sta(o, updated) ==
    LET n == bss_cap_update_on_sta_leave(o)
    IN /\ num' = n /\ erp' = ErpAfter({}, sta[o].set, n)
       /\ htOp' = rtw_ht_operation_update(n)
       /\ rtw_free_stainfo({o}) /\ asocL' = asocL \ {o}
       /\ apCnt' = [CntFreed(apCnt, {o}) EXCEPT !.asoc = @ - 1]
       /\ sta' = LET s == Without(sta, {o})
                 IN IF updated THEN Updated(s, asocL', erp') ELSE s
       /\ UNCHANGED <<cfg, acl, apOn>>

\* OnDeAuth, OnDisassoc and rtw_del_sta: only a station on asoc_list goes.
OnDeAuth(a) ==
    /\ apOn # "off"
    /\ \E o \in asocL :
        /\ sta[o].addr = a
        /\ ap_free_sta(o, Turns({}, sta[o].set, bss_cap_update_on_sta_leave(o)))

\* For any other station `updated` is read before it is written.
OnDeAuthIdle(a, updated) ==
    /\ apOn # "off"
    /\ \E o \in rtw_get_stainfo(a) : o \notin asocL
    /\ sta' = IF updated THEN Updated(sta, asocL, erp) ELSE sta
    /\ UNCHANGED <<cfg, authL, asocL, apCnt, staAid, acl, num, erp, htOp, apOn,
                   truth>>

\* expire_timeout_chk, auth_list: freed without bss_cap_update_on_sta_leave.
ExpireAuth(gone) ==
    /\ apOn # "off" /\ gone # {}
    /\ rtw_free_stainfo(gone)
    /\ sta' = Without(sta, gone) /\ apCnt' = CntFreed(apCnt, gone)
    /\ UNCHANGED <<cfg, asocL, acl, num, erp, htOp, apOn>>

\* expire_timeout_chk, asoc_list, for one station of the walk: `updated` ends
\* as the result for the last one, or unwritten.
ExpireAsoc(o, updated) == apOn # "off" /\ ap_free_sta(o, updated)

\* rtw_sta_flush, one station of its walk; asoc_list is empty when it tells
\* the clients.
rtw_sta_flush(o) == apOn # "off" /\ ap_free_sta(o, FALSE)

\* stop_ap_mode empties the access list, flushes, and frees every station of
\* the hash lists.
stop_ap_mode ==
    /\ apOn = "on" /\ apOn' = "flush" /\ acl' = [acl EXCEPT !.addrs = {}]
    /\ UNCHANGED <<cfg, sta, authL, asocL, apCnt, staAid, num, erp, htOp, truth>>
rtw_free_all_stainfo ==
    /\ apOn = "flush" /\ apOn' = "off"
    /\ rtw_free_stainfo(Allocated)
    /\ sta' = Without(sta, Allocated) /\ apCnt' = CntFreed(apCnt, Allocated)
    /\ UNCHANGED <<cfg, asocL, acl, num, erp, htOp>>

\* rtw_check_beacon_data. The ERP element is taken over by ERP_IE_handler, and
\* no station is told; RSN or WPA sets the authentication to 802.1X; HT.
BeaconErp(b) ==
    IF b.erp = "none" THEN erp
    ELSE [erp EXCEPT !.on = TRUE,
                     !.bits = IF b.erp = "protect" THEN {"erp"} ELSE {}]
BeaconSecurity(b) == IF b.wpa THEN 3 ELSE cfg.mode
BeaconHt(b) == b.ht

\* start_bss_network: with a WPS element the daemon will set another beacon,
\* and the BSS does not start yet.
start_bss_network(b) == erp.start \/ ~b.wps

rtw_set_beacon(b) ==
    /\ Called(TRUE)
    /\ erp' = [BeaconErp(b) EXCEPT !.start = start_bss_network(b)]
    /\ cfg' = [cfg EXCEPT !.mode = BeaconSecurity(b), !.ht = BeaconHt(b)]
    /\ UNCHANGED <<sta, authL, asocL, apCnt, staAid, acl, num, htOp, apOn>>

ApNext ==
    \/ \E a \in ApAddrs :
        \/ \E alg \in 0 .. 1, f \in {<<1, FALSE>>, <<3, FALSE>>, <<3, TRUE>>} :
            OnAuth(a, alg, f[1], f[2]) \/ OnAuthFail(a, alg, f[1], f[2])
        \/ \E req \in AsocReqs : OnAssocReq(a, req) \/ OnAssocReqFail(a, req)
        \/ NoRoom(a) \/ OnDeAuth(a)
        \/ \E u \in BOOLEAN : OnDeAuthIdle(a, u)
        \/ \E i \in DaemonAids : rtw_add_sta(a, i)
        \/ rtw_acl_add_sta(a) \/ rtw_acl_remove_sta(a)
    \/ \E m \in AclModes : rtw_set_macaddr_acl(m)
    \/ \E gone \in SUBSET authL : ExpireAuth(gone)
    \/ \E o \in asocL :
        rtw_sta_flush(o) \/ \E u \in BOOLEAN : ExpireAsoc(o, u)
    \/ stop_ap_mode \/ rtw_free_all_stainfo
    \/ rtw_set_beacon(cfg.later)

ApSpec == ApInit /\ [][ApNext]_apVars
-----------------------------------------------------------------------------
(***************************************************************************)
(* Properties.                                                             *)
(***************************************************************************)
\* While the access point is up, auth_list and asoc_list hold allocated
\* stations only, no station is on both, an address has one station, and the
\* three counters say how long the lists and the table are, whatever order
\* frames, expiry and the daemon's calls come in.
TableSound ==
    apOn = "on" =>
        /\ authL \union asocL = Allocated /\ authL \intersect asocL = {}
        /\ apCnt = [auth |-> Cardinality(authL), asoc |-> Cardinality(asocL),
                    sta |-> Cardinality(Allocated)]
        /\ \A a \in ApAddrs : Cardinality(rtw_get_stainfo(a)) <= 1

\* A station is associated only after it completed the exchange the mode asks
\* for: with shared keys the challenge was sent to it and answered.
Admitted == \A o \in asocL : apOn = "on" => sta[o].addr \in truth.passed

\* The counters never fall below the stations that lack an ability, and until
\* the daemon replaces the beacon every associated station protects its
\* frames while one of them is a station without ERP.
AbilitiesTold ==
    apOn = "on" =>
        /\ \A c \in Caps :
            num[c] >= Cardinality({o \in Allocated : c \in sta[o].set})
        /\ erp.on /\ erp.start /\ ~truth.replaced
               /\ (\E o \in asocL : "erp" \in sta[o].set)
           => "erp" \in erp.bits /\ \A o \in asocL : sta[o].rts

\* The lists, the counters and the table of stations tell the same, and a
\* station is associated only after the exchange its mode asks for, whatever
\* order frames, expiry and the daemon's calls come in (OnAuth, OnAssocReq,
\* expire_timeout_chk, ap_free_sta).
StationsSound == TableSound /\ Admitted
=============================================================================
