------------------------------ MODULE StaMlme ------------------------------
(***************************************************************************)
(* Station mode: scanning, joining and leaving a network. Two machines     *)
(* work together:                                                          *)
(*                                                                         *)
(*  - mlme_priv (core/rtw_mlme.c, rtw_ioctl_set.c): fw_state, to_join, the *)
(*    target and the scanned queue, under mlme_priv.lock, with the two     *)
(*    timeouts assoc_timer and scan_to_timer;                              *)
(*  - mlme_ext (core/rtw_mlme_ext.c): the 802.11 handshake (mlmeinfo->state*)
(*    and its network, link_timer) and the channel scan (sitesurvey_res,   *)
(*    survey_timer), with no lock at all.                                  *)
(*                                                                         *)
(* mlme_priv drives mlme_ext with commands, mlme_ext answers with events   *)
(* in the same command queue; a join result is besides applied to          *)
(* mlme_priv at once, in the context that found it. The contexts are the   *)
(* user's ioctls, the command thread, the receive tasklet and the handlers *)
(* of the timers.                                                          *)
(*                                                                         *)
(* The device is up: commands are accepted and memory is there. A network  *)
(* is an ESS with one access point, desired whenever it is in the scanned  *)
(* queue. Access points answer requests, late, more than once or never.    *)
(***************************************************************************)
EXTENDS Integers, Sequences, FiniteSets

CONSTANTS
    Bss, NoBss,
    REAUTH_LIMIT, REASSOC_LIMIT,   \* 4 and 4 in the code
    ch_num,         \* the channels of a scan
    Smp,            \* do contexts run in parallel?
    Prompt,         \* do the timeouts of seconds outlast the work they guard?
    MaxOps,         \* bound: the calls of the user
    MaxDrops        \* bound: deauthentications and lost links

ASSUME StaAssumption ==
    /\ NoBss \notin Bss /\ Smp \in BOOLEAN /\ Prompt \in BOOLEAN
    /\ REAUTH_LIMIT \in Nat /\ REASSOC_LIMIT \in Nat /\ ch_num \in Nat \ {0}
    /\ MaxOps \in Nat /\ MaxDrops \in Nat

VARIABLES
    fw_state, to_join, target, cur_network, scanned, lock,   \* mlme_priv
    upc, ops,                             \* the user
    cmd_queue,                            \* commands and events, in order
    pc, report,                           \* the other contexts
    state, network, reauth_count, reassoc_count,             \* mlme_ext_info
    scan, channel_idx,                    \* sitesurvey_res
    hw_bssid,                             \* the BSSID register
    timer,
    air, drops                            \* the access points

mlme == <<fw_state, to_join, target, cur_network, scanned, lock>>
user == <<upc, ops>>
info == <<state, network, reauth_count, reassoc_count>>
survey == <<scan, channel_idx>>
peer == <<air, drops>>
vars == <<mlme, user, cmd_queue, pc, report, info, survey, hw_bssid, timer, peer>>

Flags == {"SURVEY", "LINKING", "LINKED"}
States == {"STATION", "AUTH_NULL", "AUTH", "AUTH_SUCCESS", "ASSOC", "ASSOC_SUCCESS"}
Softirqs == {"rx", "link", "assoc", "scan_to"}
Contexts == Softirqs \cup {"thread"}
Delays == {"off", "short", "long"}
Timers == {"link", "survey", "assoc", "scan_to"}
Labels == {"idle", "start_auth", "start_assoc", "assoc_ok", "assoc_fail", "prehandle",
           "enqueue", "lock", "stuck", "join_leave", "join_reset", "join_del",
           "join_start", "disc_del", "sta_del", "sta_lock"}
Results == {"ok", "fail"}          \* join_res > 0, join_res < 0
Commands ==
    [cmd : {"Survey", "Disconnect", "SurveyDone", "DelSta"}, bss : {NoBss}]
    \cup [cmd : {"Join", "SurveyEvent"}, bss : Bss]
    \cup [cmd : {"JoinRes"}, bss : Results]
Cmd(c) == [cmd |-> c, bss |-> NoBss]
CmdOf(c, b) == [cmd |-> c, bss |-> b]

TypeOK ==
    /\ fw_state \subseteq Flags /\ to_join \in BOOLEAN
    /\ target \in Bss \cup {NoBss} /\ cur_network \in Bss \cup {NoBss}
    /\ scanned \subseteq Bss /\ lock \in Contexts \cup {"free"}
    /\ upc \in {"idle", "scan"} /\ ops \in 0 .. MaxOps
    /\ cmd_queue \in Seq(Commands)
    /\ pc \in [Contexts -> Labels]
    /\ report \in [{"rx", "link"} -> [bss : Bss \cup {NoBss}, res : Results]]
    /\ state \subseteq States /\ network \in Bss \cup {NoBss}
    /\ reauth_count \in 0 .. REAUTH_LIMIT + 1
    /\ reassoc_count \in 0 .. REASSOC_LIMIT + 1
    /\ scan \in {"DISABLE", "TXNULL", "PROCESS"} /\ channel_idx \in 0 .. ch_num
    /\ hw_bssid \in Bss \cup {NoBss}
    /\ timer \in [Timers -> Delays]
    /\ air \subseteq {"auth", "assoc"} \X Bss /\ drops \in Nat

Init ==
    /\ fw_state = {} /\ to_join = FALSE /\ target = NoBss
    /\ cur_network = NoBss /\ scanned = {} /\ lock = "free"
    /\ upc = "idle" /\ ops = 0 /\ cmd_queue = << >>
    /\ pc = [c \in Contexts |-> "idle"]
    /\ report = [c \in {"rx", "link"} |-> [bss |-> NoBss, res |-> "fail"]]
    /\ state = {} /\ network = NoBss
    /\ reauth_count = 0 /\ reassoc_count = 0
    /\ scan = "DISABLE" /\ channel_idx = 0
    /\ hw_bssid = NoBss /\ timer = [t \in Timers |-> "off"]
    /\ air = {} /\ drops = 0
-----------------------------------------------------------------------------
\* On one processor a softirq that has begun ends before anything else runs.
Runs(c) == Smp \/ \A d \in Softirqs \ {c} : pc[d] = "idle"
Goto(c, l) == pc' = [pc EXCEPT ![c] = l]
Set(t, v) == [timer EXCEPT ![t] = v]

\* A timeout of seconds expires while its work goes on only if not Prompt.
Idle == cmd_queue = << >> /\ \A c \in Contexts : pc[c] = "idle"
Working(t) ==
    \/ ~ Idle
    \/ t = "assoc" /\ state \cap {"AUTH_NULL", "AUTH", "ASSOC"} # {}
    \/ t = "scan_to" /\ scan # "DISABLE"
Expires(t) ==
    \/ timer[t] = "short"
    \/ timer[t] = "long" /\ (Prompt => ~ Working(t))
-----------------------------------------------------------------------------
(***************************************************************************)
(* mlme_priv, under its lock. A join, once decided, is a new fw_state, the *)
(* commands it enqueues and assoc_timer; a survey likewise.                *)
(***************************************************************************)

\* rtw_free_network_queue: the networks that are too old are dropped, never
\* the fixed one, which is the one in use.
FreeNetworkQueue(fw) ==
    scanned' \in {q \in SUBSET scanned :
                    "LINKED" \in fw /\ cur_network \in scanned => cur_network \in q}

\* rtw_sitesurvey_cmd.
SiteSurveyNoTimer(fw, q) ==
    /\ FreeNetworkQueue(fw) /\ fw_state' = fw \cup {"SURVEY"}
    /\ cmd_queue' = q \o <<Cmd("Survey")>> /\ UNCHANGED timer
SiteSurvey(fw, q) ==
    /\ FreeNetworkQueue(fw)
    /\ fw_state' = fw \cup {"SURVEY"}
    /\ cmd_queue' = q \o <<Cmd("Survey")>>
    /\ timer' = Set("scan_to", "long")

\* rtw_disassoc_cmd and rtw_indicate_disconnect.
LeaveSilently(fw) == << >>
Leave(fw) == IF "LINKED" \in fw THEN <<Cmd("Disconnect")>> ELSE << >>
LeftLinking(fw) == fw \ {"LINKED"}
Left(fw) == fw \ {"LINKED", "LINKING"}

\* rtw_select_and_join_from_scanned_queue with its target in the queue, and
\* what its callers do on success; tm is the timers before.
SelectAndJoinLinked(b, fw, q, tm) ==
    /\ fw_state' = fw \cup {"LINKING"}
    /\ cmd_queue' = q \o Leave(fw) \o <<CmdOf("Join", b)>>
    /\ timer' = [tm EXCEPT !["assoc"] = "long"]
    /\ to_join' = FALSE
SelectAndJoin(b, fw, q, tm) ==
    /\ fw_state' = Left(fw) \cup {"LINKING"}
    /\ cmd_queue' = q \o Leave(fw) \o <<CmdOf("Join", b)>>
    /\ timer' = [tm EXCEPT !["assoc"] = "long"]
    /\ to_join' = FALSE

\* rtw_do_join: join a network of the queue or survey for it, unless the
\* traffic is busy (busy).
rtw_do_join(b, fw, q, busy) ==
    IF b \in scanned
      THEN SelectAndJoin(b, fw, q, timer) /\ UNCHANGED scanned
      ELSE IF busy
        THEN /\ to_join' = FALSE /\ fw_state' = fw \ {"LINKING"}
             /\ cmd_queue' = q /\ UNCHANGED <<timer, scanned>>
        ELSE /\ to_join' = TRUE
             /\ SiteSurvey(fw \ {"LINKING"}, q)
-----------------------------------------------------------------------------
(***************************************************************************)
(* The user's calls, which rtnl_lock serialises.                           *)
(***************************************************************************)
UserCalls == upc = "idle" /\ ops < MaxOps /\ ops' = ops + 1 /\ Runs("user")

\* rtw_set_802_11_ssid. Under survey the join is left to surveydone; under
\* linking the call is ignored; a linked station leaves another network.
SetSsid(b) ==
    /\ UserCalls /\ lock = "free"
    /\ "SURVEY" \in fw_state \/ "LINKING" \notin fw_state
    /\ target' = b
    /\ IF "SURVEY" \in fw_state
         THEN /\ to_join' = TRUE
              /\ UNCHANGED <<fw_state, cmd_queue, timer, scanned>>
         ELSE LET other == "LINKED" \in fw_state /\ b # target
                  fw == IF other THEN Left(fw_state) ELSE fw_state
                  q == IF other THEN cmd_queue \o Leave(fw_state) ELSE cmd_queue
              IN  \E busy \in BOOLEAN : rtw_do_join(b, fw, q, busy)
    /\ UNCHANGED <<cur_network, lock, upc, pc, report, info, survey, hw_bssid, peer>>

\* rtw_set_802_11_disassociate.
Disassociate ==
    /\ UserCalls /\ lock = "free" /\ "LINKED" \in fw_state
    /\ fw_state' = Left(fw_state)
    /\ cmd_queue' = cmd_queue \o Leave(fw_state)
    /\ UNCHANGED <<to_join, target, cur_network, scanned, lock, upc, pc, report,
                   info, survey, hw_bssid, timer, peer>>

\* rtw_wx_set_scan, rtw_set_802_11_bssid_list_scan: "Scan or linking is in
\* progress, do nothing" is decided without the lock ...
ScanCheckSurveyOnly ==
    /\ UserCalls /\ "SURVEY" \notin fw_state /\ upc' = "scan"
    /\ UNCHANGED <<mlme, cmd_queue, pc, report, info, survey, hw_bssid, timer, peer>>
ScanCheck ==
    /\ UserCalls /\ fw_state \cap {"SURVEY", "LINKING"} = {}
    /\ upc' = "scan"
    /\ UNCHANGED <<mlme, cmd_queue, pc, report, info, survey, hw_bssid, timer, peer>>

\* ... and the survey started under it.
ScanStart ==
    /\ upc = "scan" /\ lock = "free" /\ Runs("user")
    /\ upc' = "idle"
    /\ SiteSurvey(fw_state, cmd_queue)
    /\ UNCHANGED <<to_join, target, cur_network, lock, ops, pc, report, info,
                   survey, hw_bssid, peer>>
-----------------------------------------------------------------------------
(***************************************************************************)
(* The command thread.                                                     *)
(***************************************************************************)
Serves(c) ==
    /\ pc["thread"] = "idle" /\ cmd_queue # << >> /\ Runs("thread")
    /\ Head(cmd_queue).cmd = c
Served(extra) == cmd_queue' = Tail(cmd_queue) \o extra
Associated == {"STATION", "ASSOC_SUCCESS"} \subseteq state

\* site_survey on channel i: the next channel, or the end of the scan.
SiteSurveyStalls(i) ==
    IF i < ch_num
      THEN scan' = "PROCESS" /\ Served(<< >>) /\ UNCHANGED timer
      ELSE scan' = "DISABLE" /\ Served(<<Cmd("SurveyDone")>>) /\ UNCHANGED timer
site_survey(i) ==
    IF i < ch_num
      THEN /\ scan' = "PROCESS" /\ timer' = Set("survey", "short")
           /\ Served(<< >>)
      ELSE /\ scan' = "DISABLE" /\ Served(<<Cmd("SurveyDone")>>)
           /\ UNCHANGED timer

\* sitesurvey_cmd_hdl. An associated station tells its access point first
\* and waits 50 ms.
sitesurvey_cmd_hdl ==
    /\ Serves("Survey")
    /\ IF scan = "DISABLE" /\ Associated
         THEN /\ scan' = "TXNULL" /\ channel_idx' = 0
              /\ timer' = Set("survey", "short") /\ Served(<< >>)
         ELSE LET i == IF scan = "DISABLE" THEN 0 ELSE channel_idx
              IN  channel_idx' = i /\ site_survey(i)
    /\ UNCHANGED <<mlme, user, pc, report, info, hw_bssid, peer>>

\* join_cmd_hdl: an association is given up first, up to the first
\* del_timer_sync ...
JoinLeave ==
    /\ Serves("Join") /\ "ASSOC_SUCCESS" \in state
    /\ state' = {}
    /\ Goto("thread", "join_leave")
    /\ UNCHANGED <<mlme, user, cmd_queue, report, network, reauth_count,
                   reassoc_count, survey, hw_bssid, timer, peer>>

\* ... then the new network is written, up to "cancel link timer". A
\* handshake that is under way goes on meanwhile.
JoinReset ==
    /\ \/ Serves("Join") /\ "ASSOC_SUCCESS" \notin state
       \/ pc["thread"] = "join_reset" /\ Runs("thread")
    /\ network' = Head(cmd_queue).bss /\ hw_bssid' = Head(cmd_queue).bss
    /\ Goto("thread", "join_del") /\ Served(<< >>)
    /\ UNCHANGED <<mlme, user, report, state, reauth_count, reassoc_count, survey,
                   timer, peer>>

\* del_timer_sync on link_timer waits for its handler.
AfterDel == [join_leave |-> "join_reset", join_del |-> "join_start",
             disc_del |-> "idle", sta_del |-> "sta_lock"]
DelLinkTimer ==
    /\ pc["thread"] \in DOMAIN AfterDel /\ Runs("thread")
    /\ pc["link"] = "idle"
    /\ timer' = Set("link", "off")
    /\ Goto("thread", AfterDel[pc["thread"]])
    /\ UNCHANGED <<mlme, user, cmd_queue, report, info, survey, hw_bssid, peer>>

\* start_clnt_join: wait for a beacon; assoc_timer is set anew.
start_clnt_join ==
    /\ pc["thread"] = "join_start" /\ Runs("thread")
    /\ timer' = [timer EXCEPT !["link"] = "short", !["assoc"] = "long"]
    /\ state' = {"STATION", "AUTH_NULL"}
    /\ Goto("thread", "idle")
    /\ UNCHANGED <<mlme, user, cmd_queue, report, network, reauth_count,
                   reassoc_count, survey, hw_bssid, peer>>

\* disconnect_hdl and, with the same writes, mlmeext_sta_del_event_callback.
Unlink(c, l) ==
    /\ Serves(c)
    /\ state' = {} /\ hw_bssid' = NoBss
    /\ Goto("thread", l) /\ Served(<< >>)
    /\ UNCHANGED <<mlme, user, report, network, reauth_count, reassoc_count, survey,
                   timer, peer>>
disconnect_hdl == Unlink("Disconnect", "disc_del")
mlmeext_sta_del_event_callback == Unlink("DelSta", "sta_del")

\* rtw_stadel_event_callback, the locked part.
rtw_stadel_event_callback ==
    /\ pc["thread"] = "sta_lock" /\ lock = "free" /\ Runs("thread")
    /\ fw_state' = Left(fw_state)
    /\ scanned' = scanned \ {cur_network}
    /\ Goto("thread", "idle")
    /\ UNCHANGED <<to_join, target, cur_network, lock, user, cmd_queue, report, info,
                   survey, hw_bssid, timer, peer>>

\* rtw_survey_event_callback: no network is added under linking.
rtw_survey_event_callback ==
    /\ Serves("SurveyEvent") /\ lock = "free"
    /\ scanned' = IF "LINKING" \in fw_state THEN scanned
                  ELSE scanned \cup {Head(cmd_queue).bss}
    /\ Served(<< >>)
    /\ UNCHANGED <<fw_state, to_join, target, cur_network, lock, user, pc, report,
                   info, survey, hw_bssid, timer, peer>>

\* rtw_joinbss_event_callback: a failed join clears the BSSID register, a
\* good one programs the rates.
JoinEventSwapped ==
    /\ Serves("JoinRes") /\ Served(<< >>)
    /\ hw_bssid' = IF Head(cmd_queue).bss = "ok" THEN NoBss ELSE hw_bssid
    /\ UNCHANGED <<mlme, user, pc, report, info, survey, timer, peer>>
rtw_joinbss_event_callback ==
    /\ Serves("JoinRes")
    /\ hw_bssid' = IF Head(cmd_queue).bss = "fail" THEN NoBss ELSE hw_bssid
    /\ Served(<< >>)
    /\ UNCHANGED <<mlme, user, pc, report, info, survey, timer, peer>>

\* rtw_surveydone_event_callback: the survey ends and a join that waits for
\* it is started. scan_to_timer is deleted, synchronously, under the lock:
\* a handler that waits for the lock never ends and neither does the thread.
SurveyKept == fw_state
SurveyOver == fw_state \ {"SURVEY"}
SurveyDoneKeepsJoin(fw, q, tm) ==
    IF to_join /\ target \in scanned THEN SelectAndJoin(target, fw, q, tm)
    ELSE fw_state' = fw /\ cmd_queue' = q /\ timer' = tm /\ UNCHANGED to_join
SurveyDoneJoin(fw, q, tm) ==
    IF to_join /\ target \in scanned
      THEN SelectAndJoin(target, fw, q, tm)
      ELSE /\ fw_state' = IF to_join THEN fw \ {"LINKING"} ELSE fw
           /\ to_join' = FALSE
           /\ cmd_queue' = q /\ timer' = tm

rtw_surveydone_event_callback ==
    /\ Serves("SurveyDone") /\ lock = "free"
    /\ IF "SURVEY" \in fw_state /\ pc["scan_to"] # "idle"
         THEN /\ lock' = "thread" /\ Goto("thread", "stuck")
              /\ UNCHANGED <<fw_state, to_join, cmd_queue, timer>>
         ELSE /\ SurveyDoneJoin(SurveyOver, Tail(cmd_queue),
                    IF "SURVEY" \in fw_state THEN Set("scan_to", "off") ELSE timer)
              /\ UNCHANGED <<lock, pc>>
    /\ UNCHANGED <<target, cur_network, scanned, user, report, info, survey,
                   hw_bssid, peer>>

\* linked_status_chk: the access point has been silent for too long
\* (receive_disconnect of an associated station).
LinkLost ==
    /\ pc["thread"] = "idle" /\ Runs("thread") /\ Associated /\ drops < MaxDrops
    /\ drops' = drops + 1
    /\ state' = {}
    /\ cmd_queue' = Append(cmd_queue, Cmd("DelSta"))
    /\ UNCHANGED <<mlme, user, pc, report, network, reauth_count, reassoc_count,
                   survey, hw_bssid, timer, air>>
-----------------------------------------------------------------------------
(***************************************************************************)
(* The receive tasklet. No handler looks at the sender of an               *)
(* authentication or association response.                                 *)
(***************************************************************************)
RxBegins == pc["rx"] = "idle" /\ Runs("rx")

\* OnBeacon under survey: a network is reported and nothing else is done.
RxBeaconSurvey(b) ==
    /\ RxBegins /\ scan = "PROCESS"
    /\ \A i \in DOMAIN cmd_queue : cmd_queue[i] # CmdOf("SurveyEvent", b)
    /\ cmd_queue' = Append(cmd_queue, CmdOf("SurveyEvent", b))
    /\ UNCHANGED <<mlme, user, pc, report, info, survey, hw_bssid, timer, peer>>

\* OnBeacon of the network that is waited for: update_network overwrites
\* cur_network, without the lock; start_clnt_auth begins with del_timer_sync.
RxBeacon ==
    /\ RxBegins /\ scan # "PROCESS" /\ "AUTH_NULL" \in state
    /\ cur_network' = network
    /\ Goto("rx", "start_auth")
    /\ UNCHANGED <<fw_state, to_join, target, scanned, lock, user, cmd_queue, report, info, survey, hw_bssid, timer, peer>>

start_clnt_auth ==
    /\ pc["rx"] = "start_auth" /\ pc["link"] = "idle" /\ Runs("rx")
    /\ state' = (state \ {"AUTH_NULL"}) \cup {"AUTH"}
    /\ reauth_count' = 0 /\ reassoc_count' = 0
    /\ timer' = Set("link", "short")
    /\ air' = air \cup {<<"auth", network>>}
    /\ Goto("rx", "idle")
    /\ UNCHANGED <<mlme, user, cmd_queue, report, network, survey, hw_bssid,
                   drops>>

\* OnAuthClient: an authentication that goes on (the challenge of a shared
\* key) or is refused sets link_timer, a completed one starts association.
OnAuthClient(b) ==
    /\ RxBegins /\ <<"auth", b>> \in air /\ "AUTH" \in state
    /\ \/ /\ Goto("rx", "start_assoc")
          /\ air' = air \ {<<"auth", b>>} /\ UNCHANGED timer
       \/ /\ timer' = Set("link", "short")
          /\ air' \in {air \ {<<"auth", b>>}, air \cup {<<"auth", network>>}}
          /\ UNCHANGED pc
    /\ UNCHANGED <<mlme, user, cmd_queue, report, info, survey, hw_bssid, drops>>

start_clnt_assoc ==
    /\ pc["rx"] = "start_assoc" /\ pc["link"] = "idle" /\ Runs("rx")
    /\ state' = (state \ {"AUTH_NULL", "AUTH"}) \cup {"AUTH_SUCCESS", "ASSOC"}
    /\ timer' = Set("link", "short")
    /\ air' = air \cup {<<"assoc", network>>}
    /\ Goto("rx", "idle")
    /\ UNCHANGED <<mlme, user, cmd_queue, report, network, reauth_count,
                   reassoc_count, survey, hw_bssid, drops>>

\* OnAssocRsp: del_timer_sync first ...
OnAssocRsp(b) ==
    /\ RxBegins /\ <<"assoc", b>> \in air
    /\ state \cap {"AUTH_SUCCESS", "ASSOC"} # {} /\ "ASSOC_SUCCESS" \notin state
    /\ \E l \in {"assoc_ok", "assoc_fail"} : Goto("rx", l)
    /\ air' = air \ {<<"assoc", b>>}
    /\ UNCHANGED <<mlme, user, cmd_queue, report, info, survey, hw_bssid, timer, drops>>

\* ... then the result and report_join_res, which copies the network.
OnAssocRspResult ==
    /\ pc["rx"] \in {"assoc_ok", "assoc_fail"} /\ pc["link"] = "idle" /\ Runs("rx")
    /\ timer' = Set("link", "off")
    /\ state' = IF pc["rx"] = "assoc_ok"
                THEN (state \ {"ASSOC"}) \cup {"ASSOC_SUCCESS"} ELSE {}
    /\ report' = [report EXCEPT !["rx"] =
                    [bss |-> network, res |-> IF pc["rx"] = "assoc_ok" THEN "ok" ELSE "fail"]]
    /\ Goto("rx", "prehandle")
    /\ UNCHANGED <<mlme, user, cmd_queue, network, reauth_count, reassoc_count, survey,
                   hw_bssid, peer>>

\* OnDeAuth, OnDisassoc and a beacon with other parameters:
\* receive_disconnect. link_timer is left running.
receive_disconnect ==
    /\ RxBegins /\ "STATION" \in state /\ drops < MaxDrops
    /\ drops' = drops + 1
    /\ state' = {}
    /\ IF "ASSOC_SUCCESS" \in state
         THEN /\ cmd_queue' = Append(cmd_queue, Cmd("DelSta"))
              /\ UNCHANGED <<pc, report>>
         ELSE /\ report' = [report EXCEPT !["rx"] = [bss |-> network, res |-> "fail"]]
              /\ Goto("rx", "prehandle") /\ UNCHANGED cmd_queue
    /\ UNCHANGED <<mlme, user, network, reauth_count, reassoc_count, survey,
                   hw_bssid, timer, air>>
-----------------------------------------------------------------------------
(***************************************************************************)
(* report_join_res, in the tasklet or in the handler of link_timer.        *)
(***************************************************************************)

\* rtw_joinbss_event_prehandle of a successful join under linking, the
\* network still in the queue; fw_state is overwritten as a whole. "Cancle
\* assoc_timer" is del_timer_sync under the lock.
PrehandleConnect(c) ==
    /\ fw_state' = {"LINKED"} /\ to_join' = FALSE
    /\ cur_network' = report[c].bss
    /\ timer' = Set("assoc", "off")
    /\ IF pc["assoc"] = "idle" THEN Goto(c, "enqueue") /\ UNCHANGED lock
                              ELSE Goto(c, "stuck") /\ lock' = c

rtw_joinbss_event_prehandle(c) ==
    /\ pc[c] = "prehandle" /\ lock = "free" /\ Runs(c)
    /\ IF report[c].res = "ok"
         THEN IF "LINKING" \in fw_state /\ report[c].bss \in scanned
                THEN PrehandleConnect(c)
                ELSE /\ Goto(c, "enqueue")
                     /\ UNCHANGED <<fw_state, to_join, cur_network, timer, lock>>
         ELSE /\ timer' = Set("assoc", "short")
              /\ fw_state' = fw_state \ {"LINKING"}
              /\ Goto(c, "enqueue") /\ UNCHANGED <<to_join, cur_network, lock>>
    /\ UNCHANGED <<target, scanned, user, cmd_queue, report, info, survey, hw_bssid,
                   peer>>

ReportEvent(c) ==
    /\ pc[c] = "enqueue" /\ Runs(c)
    /\ cmd_queue' = Append(cmd_queue, CmdOf("JoinRes", report[c].res))
    /\ Goto(c, "idle")
    /\ UNCHANGED <<mlme, user, report, info, survey, hw_bssid, timer, peer>>
-----------------------------------------------------------------------------
(***************************************************************************)
(* The timers.                                                             *)
(***************************************************************************)
Fires(t) == Expires(t) /\ Runs(t)

\* link_timer_hdl: the handshake fails (no beacon, too many tries) ...
Auths == "AUTH_NULL" \notin state /\ "AUTH" \in state
Assocs == state \cap {"AUTH_NULL", "AUTH"} = {} /\ "ASSOC" \in state
GivesUpLate ==
    \/ "AUTH_NULL" \in state
    \/ Auths /\ reauth_count > REAUTH_LIMIT
    \/ Assocs /\ reassoc_count > REASSOC_LIMIT
GivesUp ==
    \/ "AUTH_NULL" \in state
    \/ Auths /\ reauth_count + 1 > REAUTH_LIMIT
    \/ Assocs /\ reassoc_count + 1 > REASSOC_LIMIT
CountRetry ==
    /\ reauth_count' = IF Auths THEN reauth_count + 1 ELSE reauth_count
    /\ reassoc_count' = IF Assocs THEN reassoc_count + 1 ELSE reassoc_count
LinkFails ==
    /\ Fires("link") /\ pc["link"] = "idle" /\ GivesUp
    /\ state' = {}
    /\ report' = [report EXCEPT !["link"] = [bss |-> network, res |-> "fail"]]
    /\ timer' = Set("link", "off")
    /\ CountRetry
    /\ Goto("link", "prehandle")
    /\ UNCHANGED <<mlme, user, cmd_queue, network, survey, hw_bssid, peer>>

\* ... or the request is sent again.
LinkRetries ==
    /\ Fires("link") /\ pc["link"] = "idle" /\ ~ GivesUp /\ (Auths \/ Assocs)
    /\ CountRetry
    /\ air' = air \cup {<<IF Auths THEN "auth" ELSE "assoc", network>>}
    /\ UNCHANGED <<mlme, user, cmd_queue, pc, report, state, network, survey,
                   hw_bssid, timer, drops>>

\* A handshake that is over leaves it nothing to do.
LinkIdle ==
    /\ Fires("link") /\ pc["link"] = "idle"
    /\ state \cap {"AUTH_NULL", "AUTH", "ASSOC"} = {}
    /\ timer' = Set("link", "off")
    /\ UNCHANGED <<mlme, user, cmd_queue, pc, report, info, survey, hw_bssid, peer>>

\* survey_timer_hdl.
survey_timer_hdl ==
    /\ Fires("survey")
    /\ timer' = Set("survey", "off")
    /\ IF scan = "DISABLE" THEN UNCHANGED <<channel_idx, cmd_queue>>
       ELSE /\ cmd_queue' = Append(cmd_queue, Cmd("Survey"))
            /\ channel_idx' = IF scan = "PROCESS" THEN channel_idx + 1 ELSE channel_idx
    /\ UNCHANGED <<mlme, user, pc, report, info, scan, hw_bssid, peer>>

\* The handlers of assoc_timer and scan_to_timer begin and wait for the lock.
TimeoutFires(t) ==
    /\ t \in {"assoc", "scan_to"} /\ Fires(t) /\ pc[t] = "idle"
    /\ timer' = Set(t, "off") /\ Goto(t, "lock")
    /\ UNCHANGED <<mlme, user, cmd_queue, report, info, survey, hw_bssid, peer>>

\* _rtw_join_timeout_handler: disconnected, and free_scanqueue.
rtw_join_timeout_handler ==
    /\ pc["assoc"] = "lock" /\ lock = "free" /\ Runs("assoc")
    /\ fw_state' = Left(fw_state) /\ scanned' = {}
    /\ Goto("assoc", "idle")
    /\ UNCHANGED <<to_join, target, cur_network, lock, user, cmd_queue, report, info,
                   survey, hw_bssid, timer, peer>>

rtw_scan_timeout_handler ==
    /\ pc["scan_to"] = "lock" /\ lock = "free" /\ Runs("scan_to")
    /\ fw_state' = fw_state \ {"SURVEY"}
    /\ Goto("scan_to", "idle")
    /\ UNCHANGED <<to_join, target, cur_network, scanned, lock, user, cmd_queue,
                   report, info, survey, hw_bssid, timer, peer>>
-----------------------------------------------------------------------------
User == (\E b \in Bss : SetSsid(b)) \/ Disassociate \/ ScanCheck
Thread ==
    \/ sitesurvey_cmd_hdl \/ JoinLeave \/ JoinReset \/ DelLinkTimer \/ start_clnt_join
    \/ disconnect_hdl \/ mlmeext_sta_del_event_callback
    \/ rtw_stadel_event_callback \/ rtw_survey_event_callback
    \/ rtw_joinbss_event_callback \/ rtw_surveydone_event_callback
RxBeginsSome ==
    \/ \E b \in Bss : RxBeaconSurvey(b) \/ OnAuthClient(b) \/ OnAssocRsp(b)
    \/ RxBeacon \/ receive_disconnect
RxEnds ==
    \/ start_clnt_auth \/ start_clnt_assoc \/ OnAssocRspResult
    \/ rtw_joinbss_event_prehandle("rx") \/ ReportEvent("rx")
LinkTimer ==
    \/ LinkFails \/ LinkRetries \/ LinkIdle
    \/ rtw_joinbss_event_prehandle("link") \/ ReportEvent("link")
AssocTimer == TimeoutFires("assoc") \/ rtw_join_timeout_handler
ScanTimer == TimeoutFires("scan_to") \/ rtw_scan_timeout_handler

\* The user and the access points may fall silent.
Finished == Idle /\ upc = "idle" /\ (\A t \in Timers : ~ Expires(t)) /\ UNCHANGED vars

Next ==
    \/ User \/ ScanStart \/ Thread \/ LinkLost \/ RxBeginsSome \/ RxEnds
    \/ LinkTimer \/ survey_timer_hdl \/ AssocTimer \/ ScanTimer \/ Finished

Spec == Init /\ [][Next]_vars

\* The thread and the softirqs run, and timers expire; frames may all be lost.
FairSpec ==
    /\ Spec
    /\ WF_vars(ScanStart) /\ WF_vars(Thread) /\ WF_vars(RxEnds)
    /\ WF_vars(LinkTimer) /\ WF_vars(survey_timer_hdl)
    /\ WF_vars(AssocTimer) /\ WF_vars(ScanTimer)
-----------------------------------------------------------------------------
(***************************************************************************)
(* Properties.                                                             *)
(***************************************************************************)

\* A station under linking is never left there: assoc_timer runs or its
\* handler is about to report the failure (_FW_UNDER_LINKING blocks every
\* further rtw_set_802_11_ssid and scan).
NoStuckJoin ==
    "LINKING" \in fw_state => timer["assoc"] # "off" \/ pc["assoc"] # "idle"

\* Likewise a survey: scan_to_timer runs or its handler is about to end it
\* (_FW_UNDER_SURVEY blocks every further scan and defers every join).
NoStuckScan ==
    "SURVEY" \in fw_state => timer["scan_to"] # "off" \/ pc["scan_to"] # "idle"

\* _FW_LINKED and _FW_UNDER_LINKING exclude each other, whatever the joins,
\* events and timeouts: the branch of rtw_joinbss_event_prehandle for a
\* linked station is dead.
NotBoth == ~ {"LINKED", "LINKING"} \subseteq fw_state

\* The channel scan of mlme_ext moves on: a scan that has begun has its
\* survey_timer running or the command for the next channel in the queue.
\* Otherwise OnBeacon would report surveys and ignore a join for ever.
ScanMoves ==
    scan # "DISABLE" =>
        \/ timer["survey"] # "off"
        \/ \E i \in DOMAIN cmd_queue : cmd_queue[i].cmd = "Survey"

\* When no context works and no command waits, a station that mlme_priv calls
\* linked (_FW_LINKED) is associated by mlme_ext, with the same network, and
\* the BSSID register holds that network.
Quiet == Idle /\ upc = "idle"
LinkedHolds ==
    Quiet /\ "LINKED" \in fw_state =>
        Associated /\ network = cur_network /\ hw_bssid = cur_network

\* And conversely: when all is quiet and no join is being timed by
\* assoc_timer, an association of mlme_ext is one mlme_priv knows.
AssociatedHolds ==
    Quiet /\ Associated /\ timer["assoc"] = "off" => "LINKED" \in fw_state

\* "Scan or linking is in progress, do nothing." in
\* rtw_set_802_11_bssid_list_scan: no survey is started under linking.
NoScanWhileLinking == ~ {"SURVEY", "LINKING"} \subseteq fw_state

\* "To avoid possible dead lock" of mlme_priv: no holder of the lock waits
\* for a timer handler that waits for the lock.
NoDeadLock == \A c \in Contexts : pc[c] # "stuck"

\* What the comment of rtw_joinbss_event_prehandle says: a join that
\* succeeded is applied when its network is still in the scanned queue.
JoinApplied ==
    [][\A c \in {"rx", "link"} :
         /\ pc[c] = "prehandle" /\ pc'[c] # "prehandle"
         /\ report[c].res = "ok" /\ report[c].bss \in scanned
         => fw_state' = {"LINKED"}]_vars

\* Linking (_FW_UNDER_LINKING) ends, with success or without, although every
\* frame may be lost.
LinkingEnds == "LINKING" \in fw_state ~> "LINKING" \notin fw_state

\* A survey (_FW_UNDER_SURVEY) ends, whenever scan_to_timer fires.
SurveyEnds == "SURVEY" \in fw_state ~> "SURVEY" \notin fw_state

\* A join that waits for a survey (to_join) is taken up or refused in the
\* end, even when the survey timed out before its last channel.
JoinServed == to_join ~> ~ to_join

\* A survey is never left behind: _FW_UNDER_SURVEY has its scan_to_timer, or
\* the handler of it at work, and the channel scan of mlme_ext has its
\* survey_timer running or the command for the next channel in the queue.
SurveyGuarded == TypeOK /\ NoStuckScan /\ ScanMoves
=============================================================================
