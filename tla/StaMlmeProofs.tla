--------------------------- MODULE StaMlmeProofs ---------------------------
(***************************************************************************)
(* Proofs about StaMlme for every set of networks, every limit, and both   *)
(* kinds of scheduling.                                                    *)
(***************************************************************************)
EXTENDS StaMlme, TLAPS

\* What the proof needs of the types.
ClockType == timer \in [Timers -> Delays] /\ pc \in [Contexts -> Labels]

\* The timeouts guard linking and survey, and the flags exclude each other.
GuardInv == ClockType /\ NoStuckJoin /\ NoStuckScan /\ NotBoth

\* Steps that leave fw_state, timer and pc alone.
LEMMA GuardFrame ==
  ASSUME GuardInv, UNCHANGED <<fw_state, timer, pc>>
  PROVE  GuardInv'
  BY DEF GuardInv, ClockType, NoStuckJoin, NoStuckScan, NotBoth

\* Steps that set no flag and stop neither timeout.
Eases ==
  /\ ClockType' /\ fw_state' \subseteq fw_state
  /\ timer'["assoc"] # "off" \/ timer'["assoc"] = timer["assoc"]
  /\ timer'["scan_to"] = timer["scan_to"]
  /\ pc'["assoc"] = pc["assoc"] /\ pc'["scan_to"] = pc["scan_to"]

LEMMA GuardEases ==
  ASSUME GuardInv, Eases
  PROVE  GuardInv'
  BY DEF Eases, GuardInv, ClockType, NoStuckJoin, NoStuckScan, NotBoth

\* rtw_sitesurvey_cmd sets the flag of a survey and its timer.
LEMMA GuardSurvey ==
  ASSUME GuardInv, UNCHANGED pc, NEW fw \in SUBSET fw_state, NEW q, SiteSurvey(fw, q)
  PROVE  GuardInv'
  <1>1. ClockType' /\ timer'["scan_to"] = "long" /\ timer'["assoc"] = timer["assoc"]
    BY DEF GuardInv, ClockType, SiteSurvey, Set, Timers, Delays
  <1>2. "LINKING" \in fw_state' => "LINKING" \in fw_state
    BY DEF SiteSurvey
  <1>3. NotBoth'
    BY DEF SiteSurvey, GuardInv, NotBoth
  <1> QED
    BY <1>1, <1>2, <1>3 DEF GuardInv, NoStuckJoin, NoStuckScan

\* rtw_select_and_join_from_scanned_queue sets the flag of linking and its
\* timer; tm are timers that still guard a survey.
LEMMA GuardJoin ==
  ASSUME GuardInv, UNCHANGED pc, NEW fw \in SUBSET fw_state, NEW q, NEW b,
         NEW tm \in [Timers -> Delays],
         "SURVEY" \in fw => tm["scan_to"] = timer["scan_to"],
         SelectAndJoin(b, fw, q, tm)
  PROVE  GuardInv'
  <1>1. ClockType' /\ timer'["assoc"] = "long" /\ timer'["scan_to"] = tm["scan_to"]
    BY DEF GuardInv, ClockType, SelectAndJoin, Timers, Delays
  <1>2. fw_state' = Left(fw) \cup {"LINKING"}
    BY DEF SelectAndJoin
  <1>3. NotBoth'
    BY <1>2 DEF NotBoth, Left
  <1>4. "SURVEY" \in fw_state' => "SURVEY" \in fw
    BY <1>2 DEF Left
  <1>5. NoStuckScan'
    BY <1>1, <1>4 DEF GuardInv, NoStuckScan
  <1>6. NoStuckJoin'
    BY <1>1 DEF NoStuckJoin
  <1> QED
    BY <1>1, <1>3, <1>5, <1>6 DEF GuardInv

LEMMA GuardDoJoin ==
  ASSUME GuardInv, UNCHANGED pc, NEW fw \in SUBSET fw_state, NEW q, NEW b, NEW busy,
         rtw_do_join(b, fw, q, busy)
  PROVE  GuardInv'
  <1>1. CASE b \in scanned
    <2>1. SelectAndJoin(b, fw, q, timer)
      BY <1>1 DEF rtw_do_join
    <2> QED
      BY <2>1, GuardJoin DEF GuardInv, ClockType
  <1>2. CASE b \notin scanned /\ busy
    <2>1. fw_state' \subseteq fw_state /\ UNCHANGED timer
      BY <1>2 DEF rtw_do_join
    <2> QED
      BY <2>1, GuardEases DEF Eases, GuardInv, ClockType
  <1>3. CASE b \notin scanned /\ ~ busy
    <2>1. SiteSurvey(fw \ {"LINKING"}, q)
      BY <1>3 DEF rtw_do_join
    <2> QED
      BY <2>1, GuardSurvey
  <1> QED
    BY <1>1, <1>2, <1>3
-----------------------------------------------------------------------------
LEMMA InitGuard ==
  ASSUME Init
  PROVE  GuardInv
  BY DEF Init, GuardInv, ClockType, NoStuckJoin, NoStuckScan, NotBoth, Timers, Delays,
         Contexts, Softirqs, Labels

LEMMA NextGuard ==
  ASSUME GuardInv, [Next]_vars
  PROVE  GuardInv'
  <1> USE DEF mlme, user, info, survey, peer, Timers, Delays, Contexts, Softirqs, Labels
  <1>1. ASSUME NEW b, SetSsid(b)
        PROVE  GuardInv'
    <2> DEFINE other == "LINKED" \in fw_state /\ b # target
               fw == IF other THEN Left(fw_state) ELSE fw_state
               q == IF other THEN cmd_queue \o Leave(fw_state) ELSE cmd_queue
    <2>1. CASE "SURVEY" \in fw_state
      BY <1>1, <2>1, GuardFrame DEF SetSsid
    <2>2. CASE "SURVEY" \notin fw_state
      <3>1. PICK busy \in BOOLEAN : rtw_do_join(b, fw, q, busy)
        BY <1>1, <2>2 DEF SetSsid
      <3>2. UNCHANGED pc /\ fw \in SUBSET fw_state
        BY <1>1 DEF SetSsid, Left
      <3> HIDE DEF fw, q
      <3> QED
        BY <3>1, <3>2, GuardDoJoin
    <2> QED
      BY <2>1, <2>2
  <1>2. ASSUME Disassociate
        PROVE  GuardInv'
    BY <1>2, GuardEases DEF Eases, GuardInv, ClockType, Disassociate, Left
  <1>3. ASSUME ScanCheck
        PROVE  GuardInv'
    BY <1>3, GuardFrame DEF ScanCheck
  <1>4. ASSUME ScanStart
        PROVE  GuardInv'
    BY <1>4, GuardSurvey DEF ScanStart
  <1>5. ASSUME sitesurvey_cmd_hdl
        PROVE  GuardInv'
    BY <1>5, GuardEases DEF Eases, GuardInv, ClockType, sitesurvey_cmd_hdl, site_survey, Set
  <1>6. ASSUME JoinLeave
        PROVE  GuardInv'
    BY <1>6, GuardEases DEF Eases, GuardInv, ClockType, JoinLeave, Goto
  <1>7. ASSUME JoinReset
        PROVE  GuardInv'
    BY <1>7, GuardEases DEF Eases, GuardInv, ClockType, JoinReset, Goto
  <1>8. ASSUME DelLinkTimer
        PROVE  GuardInv'
    BY <1>8, GuardEases DEF Eases, GuardInv, ClockType, DelLinkTimer, AfterDel, Goto, Set
  <1>9. ASSUME start_clnt_join
        PROVE  GuardInv'
    BY <1>9, GuardEases DEF Eases, GuardInv, ClockType, start_clnt_join, Goto
  <1>10. ASSUME disconnect_hdl
        PROVE  GuardInv'
    BY <1>10, GuardEases DEF Eases, GuardInv, ClockType, disconnect_hdl, Unlink, Goto
  <1>11. ASSUME mlmeext_sta_del_event_callback
        PROVE  GuardInv'
    BY <1>11, GuardEases DEF Eases, GuardInv, ClockType, mlmeext_sta_del_event_callback, Unlink, Goto
  <1>12. ASSUME rtw_stadel_event_callback
        PROVE  GuardInv'
    BY <1>12, GuardEases DEF Eases, GuardInv, ClockType, rtw_stadel_event_callback, Left, Goto
  <1>13. ASSUME rtw_survey_event_callback
        PROVE  GuardInv'
    BY <1>13, GuardFrame DEF rtw_survey_event_callback
  <1>14. ASSUME rtw_joinbss_event_callback
        PROVE  GuardInv'
    BY <1>14, GuardFrame DEF rtw_joinbss_event_callback
  <1>15. ASSUME rtw_surveydone_event_callback
        PROVE  GuardInv'
    <2> DEFINE tm == IF "SURVEY" \in fw_state THEN Set("scan_to", "off") ELSE timer
    <2>1. CASE "SURVEY" \in fw_state /\ pc["scan_to"] # "idle"
      <3>1. fw_state' = fw_state /\ timer' = timer /\ pc' = [pc EXCEPT !["thread"] = "stuck"]
        BY <1>15, <2>1 DEF rtw_surveydone_event_callback, Goto
      <3>2. ClockType' /\ pc'["assoc"] = pc["assoc"] /\ pc'["scan_to"] = pc["scan_to"]
        BY <3>1 DEF GuardInv, ClockType, Contexts, Softirqs, Labels
      <3> QED
        BY <3>1, <3>2, GuardEases DEF Eases
    <2>2. CASE ~ ("SURVEY" \in fw_state /\ pc["scan_to"] # "idle")
      <3>1. SurveyDoneJoin(SurveyOver, Tail(cmd_queue), tm) /\ UNCHANGED pc
        BY <1>15, <2>2 DEF rtw_surveydone_event_callback
      <3>2. SurveyOver \in SUBSET fw_state /\ "SURVEY" \notin SurveyOver
        BY DEF SurveyOver
      <3>3. tm \in [Timers -> Delays] /\ tm["assoc"] = timer["assoc"]
        BY DEF GuardInv, ClockType, Set, Timers, Delays
      <3> HIDE DEF tm
      <3>4. CASE to_join /\ target \in scanned
        BY <3>1, <3>2, <3>3, <3>4, GuardJoin DEF SurveyDoneJoin
      <3>5. CASE ~ (to_join /\ target \in scanned)
        <4>1. fw_state' \subseteq SurveyOver /\ timer' = tm
          BY <3>1, <3>5 DEF SurveyDoneJoin
        <4> QED
          BY <3>1, <3>2, <3>3, <4>1 DEF GuardInv, ClockType, NoStuckJoin, NoStuckScan, NotBoth
      <3> QED
        BY <3>4, <3>5
    <2> QED
      BY <2>1, <2>2
  <1>16. ASSUME LinkLost
        PROVE  GuardInv'
    BY <1>16, GuardFrame DEF LinkLost
  <1>17. ASSUME NEW b, RxBeaconSurvey(b)
        PROVE  GuardInv'
    BY <1>17, GuardFrame DEF RxBeaconSurvey
  <1>18. ASSUME RxBeacon
        PROVE  GuardInv'
    BY <1>18, GuardEases DEF Eases, GuardInv, ClockType, RxBeacon, Goto
  <1>19. ASSUME start_clnt_auth
        PROVE  GuardInv'
    BY <1>19, GuardEases DEF Eases, GuardInv, ClockType, start_clnt_auth, Goto, Set
  <1>20. ASSUME NEW b, OnAuthClient(b)
        PROVE  GuardInv'
    BY <1>20, GuardEases DEF Eases, GuardInv, ClockType, OnAuthClient, Goto, Set
  <1>21. ASSUME start_clnt_assoc
        PROVE  GuardInv'
    BY <1>21, GuardEases DEF Eases, GuardInv, ClockType, start_clnt_assoc, Goto, Set
  <1>22. ASSUME NEW b, OnAssocRsp(b)
        PROVE  GuardInv'
    BY <1>22, GuardEases DEF Eases, GuardInv, ClockType, OnAssocRsp, Goto
  <1>23. ASSUME OnAssocRspResult
        PROVE  GuardInv'
    BY <1>23, GuardEases DEF Eases, GuardInv, ClockType, OnAssocRspResult, Goto, Set
  <1>24. ASSUME receive_disconnect
        PROVE  GuardInv'
    BY <1>24, GuardEases DEF Eases, GuardInv, ClockType, receive_disconnect, Goto
  <1>25. ASSUME NEW c \in {"rx", "link"}, rtw_joinbss_event_prehandle(c)
        PROVE  GuardInv'
    <2>1. CASE report[c].res = "ok" /\ "LINKING" \in fw_state /\ report[c].bss \in scanned
      <3>1. PrehandleConnect(c)
        BY <1>25, <2>1 DEF rtw_joinbss_event_prehandle
      <3>2. ClockType'
        BY <3>1 DEF GuardInv, ClockType, PrehandleConnect, Goto, Set
      <3>3. fw_state' = {"LINKED"}
        BY <3>1 DEF PrehandleConnect
      <3> QED
        BY <3>2, <3>3 DEF GuardInv, NoStuckJoin, NoStuckScan, NotBoth
    <2>2. CASE report[c].res = "ok" /\ ~ ("LINKING" \in fw_state /\ report[c].bss \in scanned)
      <3>1. UNCHANGED <<fw_state, timer>> /\ pc' = [pc EXCEPT ![c] = "enqueue"]
        BY <1>25, <2>2 DEF rtw_joinbss_event_prehandle, Goto
      <3>2. ClockType' /\ pc'["assoc"] = pc["assoc"] /\ pc'["scan_to"] = pc["scan_to"]
        BY <3>1, <1>25 DEF GuardInv, ClockType
      <3> QED
        BY <3>1, <3>2, GuardEases DEF Eases
    <2>3. CASE report[c].res # "ok"
      <3>1. /\ timer' = [timer EXCEPT !["assoc"] = "short"]
            /\ fw_state' \subseteq fw_state /\ pc' = [pc EXCEPT ![c] = "enqueue"]
        BY <1>25, <2>3 DEF rtw_joinbss_event_prehandle, Goto, Set
      <3>2. /\ ClockType' /\ pc'["assoc"] = pc["assoc"] /\ pc'["scan_to"] = pc["scan_to"]
            /\ timer'["assoc"] # "off" /\ timer'["scan_to"] = timer["scan_to"]
        BY <3>1, <1>25 DEF GuardInv, ClockType
      <3> QED
        BY <3>1, <3>2, GuardEases DEF Eases
    <2> QED
      BY <2>1, <2>2, <2>3
  <1>26. ASSUME NEW c \in {"rx", "link"}, ReportEvent(c)
        PROVE  GuardInv'
    BY <1>26, GuardEases DEF Eases, GuardInv, ClockType, ReportEvent, Goto
  <1>27. ASSUME LinkFails
        PROVE  GuardInv'
    BY <1>27, GuardEases DEF Eases, GuardInv, ClockType, LinkFails, Goto, Set
  <1>28. ASSUME LinkRetries
        PROVE  GuardInv'
    BY <1>28, GuardFrame DEF LinkRetries
  <1>29. ASSUME LinkIdle
        PROVE  GuardInv'
    BY <1>29, GuardEases DEF Eases, GuardInv, ClockType, LinkIdle, Set
  <1>30. ASSUME survey_timer_hdl
        PROVE  GuardInv'
    BY <1>30, GuardEases DEF Eases, GuardInv, ClockType, survey_timer_hdl, Set
  <1>31. ASSUME NEW t, TimeoutFires(t)
        PROVE  GuardInv'
    <2>1. /\ t \in {"assoc", "scan_to"} /\ fw_state' = fw_state
          /\ timer' = [timer EXCEPT ![t] = "off"] /\ pc' = [pc EXCEPT ![t] = "lock"]
      BY <1>31 DEF TimeoutFires, Set, Goto
    <2>2. ClockType' /\ pc'[t] = "lock"
      BY <2>1 DEF GuardInv, ClockType
    <2>3. \A u \in {"assoc", "scan_to"} \ {t} : timer'[u] = timer[u] /\ pc'[u] = pc[u]
      BY <2>1 DEF GuardInv, ClockType
    <2> QED
      BY <2>1, <2>2, <2>3 DEF GuardInv, NoStuckJoin, NoStuckScan, NotBoth
  <1>32. ASSUME rtw_join_timeout_handler
        PROVE  GuardInv'
    <2>1. /\ fw_state' = Left(fw_state) /\ UNCHANGED timer
          /\ pc' = [pc EXCEPT !["assoc"] = "idle"]
      BY <1>32 DEF rtw_join_timeout_handler, Goto
    <2>2. ClockType' /\ pc'["scan_to"] = pc["scan_to"]
      BY <2>1 DEF GuardInv, ClockType
    <2> QED
      BY <2>1, <2>2 DEF GuardInv, NoStuckJoin, NoStuckScan, NotBoth, Left
  <1>33. ASSUME rtw_scan_timeout_handler
        PROVE  GuardInv'
    <2>1. /\ fw_state' = fw_state \ {"SURVEY"} /\ UNCHANGED timer
          /\ pc' = [pc EXCEPT !["scan_to"] = "idle"]
      BY <1>33 DEF rtw_scan_timeout_handler, Goto
    <2>2. ClockType' /\ pc'["assoc"] = pc["assoc"]
      BY <2>1 DEF GuardInv, ClockType
    <2> QED
      BY <2>1, <2>2 DEF GuardInv, NoStuckJoin, NoStuckScan, NotBoth
  <1>34. ASSUME UNCHANGED vars
        PROVE  GuardInv'
    BY <1>34, GuardFrame DEF vars
  <1> QED
    BY <1>1, <1>2, <1>3, <1>4, <1>5, <1>6, <1>7, <1>8, <1>9, <1>10, <1>11, <1>12,
       <1>13, <1>14, <1>15, <1>16, <1>17, <1>18, <1>19, <1>20, <1>21, <1>22, <1>23,
       <1>24, <1>25, <1>26, <1>27, <1>28, <1>29, <1>30, <1>31, <1>32, <1>33, <1>34
       DEF Next, User, Thread, RxBeginsSome, RxEnds, LinkTimer, AssocTimer,
       ScanTimer, Finished
-----------------------------------------------------------------------------
\* Whatever the joins, scans, frames and timeouts: a station under linking
\* has assoc_timer to end it, one under survey has scan_to_timer, and it is
\* never linked and linking at once (_FW_UNDER_LINKING, _FW_UNDER_SURVEY,
\* _FW_LINKED), so that the branch of rtw_joinbss_event_prehandle for a linked
\* station is dead.
THEOREM TimeoutsGuard == Spec => [](NoStuckJoin /\ NoStuckScan /\ NotBoth)
  <1>1. Init => GuardInv
    BY InitGuard
  <1>2. GuardInv /\ [Next]_vars => GuardInv'
    BY NextGuard
  <1>3. GuardInv => NoStuckJoin /\ NoStuckScan /\ NotBoth
    BY DEF GuardInv
  <1> QED
    BY <1>1, <1>2, <1>3, PTL DEF Spec
-----------------------------------------------------------------------------
(***************************************************************************)
(* Surveys: SurveyGuarded with what keeps the types of both machines.      *)
(***************************************************************************)

\* What mlme_priv, the user and the register hold.
MlmeOK ==
    /\ fw_state \subseteq Flags /\ to_join \in BOOLEAN
    /\ target \in Bss \cup {NoBss} /\ cur_network \in Bss \cup {NoBss}
    /\ scanned \subseteq Bss /\ lock \in Contexts \cup {"free"}
    /\ upc \in {"idle", "scan"} /\ ops \in 0 .. MaxOps
    /\ report \in [{"rx", "link"} -> [bss : Bss \cup {NoBss}, res : Results]]
    /\ hw_bssid \in Bss \cup {NoBss} /\ drops \in Nat

\* The handshake: what a beacon or a response may find, and the counters of
\* link_timer below their limits as long as there is something to retry.
HandOK ==
    /\ state \subseteq States /\ network \in Bss \cup {NoBss}
    /\ reauth_count \in 0 .. REAUTH_LIMIT + 1
    /\ reassoc_count \in 0 .. REASSOC_LIMIT + 1
    /\ air \subseteq {"auth", "assoc"} \X Bss
    /\ "AUTH_NULL" \in state => "AUTH" \notin state /\ "ASSOC" \notin state
    /\ "AUTH" \in state => reauth_count <= REAUTH_LIMIT
    /\ "AUTH" \in state => reassoc_count = 0 /\ "ASSOC" \notin state
    /\ pc["rx"] = "start_assoc" => reassoc_count = 0 /\ "ASSOC" \notin state
    /\ pc["rx"] = "start_auth" => "ASSOC" \notin state
    /\ "ASSOC" \in state => reassoc_count <= REASSOC_LIMIT
    /\ state # {} => network \in Bss
    /\ pc["thread"] \in {"join_del", "join_start"} => network \in Bss
    /\ pc["rx"] \in {"start_auth", "start_assoc", "assoc_ok"} => network \in Bss

\* The channel scan: a survey_timer that runs has a channel left to count to,
\* a scan that has begun has its timer or its next command, and a join that the
\* thread has begun is still first in the queue.
HasSurvey(q) == \E i \in DOMAIN q : q[i].cmd = "Survey"
QueueOK ==
    /\ cmd_queue \in Seq(Commands)
    /\ scan \in {"DISABLE", "TXNULL", "PROCESS"} /\ channel_idx \in 0 .. ch_num
    /\ scan = "PROCESS" /\ timer["survey"] # "off" => channel_idx < ch_num
    /\ scan # "DISABLE" => timer["survey"] # "off" \/ HasSurvey(cmd_queue)
    /\ pc["thread"] \in {"join_leave", "join_reset"} =>
          cmd_queue # << >> /\ Head(cmd_queue).cmd = "Join"

StaInv == GuardInv /\ MlmeOK /\ HandOK /\ QueueOK
-----------------------------------------------------------------------------
\* r is the command queue q with more commands at its end.
Longer(q, r) ==
    /\ r \in Seq(Commands)
    /\ q # << >> => r # << >> /\ Head(r) = Head(q)
    /\ HasSurvey(q) => HasSurvey(r)

\* Nothing added, one command added, several.
LEMMA LongerSame ==
  ASSUME NEW q \in Seq(Commands)
  PROVE  Longer(q, q)
  BY DEF Longer

LEMMA LongerAppend ==
  ASSUME NEW q \in Seq(Commands), NEW c \in Commands
  PROVE  Longer(q, Append(q, c)) /\ (c.cmd = "Survey" => HasSurvey(Append(q, c)))
  <1>1. /\ Append(q, c) \in Seq(Commands) /\ Len(Append(q, c)) = Len(q) + 1
        /\ Append(q, c)[Len(q) + 1] = c
        /\ \A i \in 1 .. Len(q) : Append(q, c)[i] = q[i]
    OBVIOUS
  <1>2. HasSurvey(q) \/ c.cmd = "Survey" => HasSurvey(Append(q, c))
    <2>1. DOMAIN q = 1 .. Len(q) /\ DOMAIN Append(q, c) = 1 .. Len(q) + 1 /\ Len(q) \in Nat
      BY <1>1
    <2> QED
      BY <1>1, <2>1 DEF HasSurvey
  <1>3. q # << >> => Append(q, c) # << >> /\ Head(Append(q, c)) = Head(q)
    BY <1>1
  <1> QED
    BY <1>1, <1>2, <1>3 DEF Longer

LEMMA LongerConcat ==
  ASSUME NEW q \in Seq(Commands), NEW e \in Seq(Commands)
  PROVE  Longer(q, q \o e) /\ (HasSurvey(e) => HasSurvey(q \o e))
  <1>1. /\ q \o e \in Seq(Commands) /\ Len(q \o e) = Len(q) + Len(e)
        /\ \A i \in 1 .. Len(q) : (q \o e)[i] = q[i]
        /\ \A i \in 1 .. Len(e) : (q \o e)[Len(q) + i] = e[i]
    OBVIOUS
  <1>2. HasSurvey(q) => HasSurvey(q \o e)
    BY <1>1 DEF HasSurvey
  <1>3. HasSurvey(e) => HasSurvey(q \o e)
    <2> SUFFICES ASSUME NEW i \in 1 .. Len(e), e[i].cmd = "Survey" PROVE HasSurvey(q \o e)
      BY DEF HasSurvey
    <2>1. Len(q) + i \in 1 .. Len(q \o e) /\ (q \o e)[Len(q) + i].cmd = "Survey"
      BY <1>1
    <2> QED
      BY <1>1, <2>1 DEF HasSurvey
  <1>4. q # << >> => q \o e # << >> /\ Head(q \o e) = Head(q)
    BY <1>1
  <1> QED
    BY <1>1, <1>2, <1>3, <1>4 DEF Longer

\* The commands after the first, when that is no survey command.
LEMMA TailSurvey ==
  ASSUME NEW q \in Seq(Commands), q # << >>
  PROVE  /\ Tail(q) \in Seq(Commands) /\ Head(q) \in Commands
         /\ Head(q).cmd # "Survey" /\ HasSurvey(q) => HasSurvey(Tail(q))
  <1>1. /\ Tail(q) \in Seq(Commands) /\ Len(Tail(q)) = Len(q) - 1 /\ Head(q) = q[1]
        /\ \A i \in 1 .. Len(q) - 1 : Tail(q)[i] = q[i + 1]
        /\ q[1] \in Commands
    OBVIOUS
  <1>2. ASSUME Head(q).cmd # "Survey", HasSurvey(q)
        PROVE  HasSurvey(Tail(q))
    <2>1. PICK i \in 1 .. Len(q) : q[i].cmd = "Survey"
      BY <1>2 DEF HasSurvey
    <2>2. i # 1
      BY <1>1, <1>2, <2>1
    <2>3. i - 1 \in 1 .. Len(Tail(q)) /\ Tail(q)[i - 1] = q[i]
      BY <1>1, <2>2
    <2>4. i - 1 \in DOMAIN Tail(q) /\ Tail(q)[i - 1].cmd = "Survey"
      BY <1>1, <2>1, <2>3
    <2> QED
      BY <2>4 DEF HasSurvey
  <1> QED
    BY <1>1, <1>2

\* The commands and events of the model.
LEMMA SomeCommands ==
  /\ \A c \in {"Survey", "Disconnect", "SurveyDone", "DelSta"} : Cmd(c) \in Commands /\ Cmd(c).cmd = c
  /\ \A c \in {"Join", "SurveyEvent"}, b \in Bss : CmdOf(c, b) \in Commands /\ CmdOf(c, b).cmd = c
  /\ \A b \in Results : CmdOf("JoinRes", b) \in Commands /\ CmdOf("JoinRes", b).cmd = "JoinRes"
  /\ \A c \in Commands : c.cmd \in {"Join", "SurveyEvent"} => c.bss \in Bss
  /\ \A c \in Commands : c.cmd = "JoinRes" => c.bss \in Results
  BY DEF Commands, Cmd, CmdOf, Results

\* What rtw_disassoc_cmd puts into the queue.
LEMMA LeaveSeq ==
  ASSUME NEW fw
  PROVE  Leave(fw) \in Seq(Commands)
  BY SomeCommands DEF Leave
-----------------------------------------------------------------------------
(* The handshake *)

\* Steps that leave the handshake alone; contexts may leave it.
HandFrame ==
  /\ UNCHANGED <<info, air>>
  /\ pc'["rx"] = pc["rx"] \/ pc'["rx"] \notin {"start_auth", "start_assoc", "assoc_ok"}
  /\ pc'["thread"] = pc["thread"] \/ pc'["thread"] \notin {"join_del", "join_start"}

\* They keep what is known of the handshake.
LEMMA HandKept ==
  ASSUME HandOK, HandFrame
  PROVE  HandOK'
  BY DEF HandOK, HandFrame, info

\* Steps after which no handshake is left.
LEMMA HandEnds ==
  ASSUME HandOK, state' = {}, UNCHANGED <<network, reauth_count, reassoc_count, air>>,
         pc'["rx"] = pc["rx"] \/ pc'["rx"] \notin {"start_auth", "start_assoc", "assoc_ok"},
         pc'["thread"] = pc["thread"] \/ pc'["thread"] \notin {"join_del", "join_start"}
  PROVE  HandOK'
  BY DEF HandOK

\* Every step of every context keeps the handshake in order.
LEMMA HandStep ==
  ASSUME StaInv, Next
  PROVE  HandOK'
  <1> USE DEF mlme, user, info, survey, peer
  <1>0. pc \in [Contexts -> Labels] /\ HandOK /\ StaAssumption
    BY StaAssumption DEF StaInv, GuardInv, ClockType
  <1>1. ASSUME User \/ ScanStart
        PROVE  HandOK'
    BY <1>1, <1>0, HandKept DEF HandFrame, User, SetSsid, Disassociate, ScanCheck, ScanStart
  <1>2. ASSUME sitesurvey_cmd_hdl \/ rtw_survey_event_callback \/ rtw_joinbss_event_callback
        PROVE  HandOK'
    BY <1>2, <1>0, HandKept DEF HandFrame, sitesurvey_cmd_hdl, rtw_survey_event_callback,
       rtw_joinbss_event_callback
  <1>3. ASSUME rtw_stadel_event_callback \/ rtw_surveydone_event_callback
        PROVE  HandOK'
    <2>1. UNCHANGED <<info, air>> /\ (pc' = pc \/ \E l \in {"idle", "stuck"} : Goto("thread", l))
      BY <1>3 DEF rtw_stadel_event_callback, rtw_surveydone_event_callback
    <2>2. HandFrame
      BY <1>0, <2>1 DEF HandFrame, Goto, Contexts, Softirqs
    <2> QED
      BY <1>0, <2>2, HandKept
  <1>4. ASSUME JoinLeave \/ disconnect_hdl \/ mlmeext_sta_del_event_callback
        PROVE  HandOK'
    <2>1. /\ state' = {} /\ UNCHANGED <<network, reauth_count, reassoc_count, air>>
          /\ \E l \in {"join_leave", "disc_del", "sta_del"} : Goto("thread", l)
      BY <1>4 DEF JoinLeave, disconnect_hdl, mlmeext_sta_del_event_callback, Unlink
    <2>2. pc'["rx"] = pc["rx"] /\ pc'["thread"] \notin {"join_del", "join_start"}
      BY <1>0, <2>1 DEF Goto, Contexts, Softirqs
    <2> QED
      BY <1>0, <2>1, <2>2, HandEnds
  <1>5. ASSUME JoinReset
        PROVE  HandOK'
    <2>1. cmd_queue # << >> /\ Head(cmd_queue).cmd = "Join" /\ cmd_queue \in Seq(Commands)
      BY <1>5 DEF JoinReset, Serves, StaInv, QueueOK
    <2>2. Head(cmd_queue).bss \in Bss
      BY <2>1, SomeCommands
    <2>3. /\ network' \in Bss /\ UNCHANGED <<state, reauth_count, reassoc_count, air>>
          /\ pc' = [pc EXCEPT !["thread"] = "join_del"]
      BY <1>5, <2>2 DEF JoinReset, Goto
    <2>4. pc'["rx"] = pc["rx"]
      BY <1>0, <2>3 DEF Contexts, Softirqs
    <2> QED
      BY <1>0, <2>3, <2>4 DEF HandOK
  <1>6. ASSUME DelLinkTimer
        PROVE  HandOK'
    <2>1. /\ UNCHANGED <<info, air>> /\ pc["thread"] \in DOMAIN AfterDel
          /\ pc' = [pc EXCEPT !["thread"] = AfterDel[pc["thread"]]]
      BY <1>6 DEF DelLinkTimer, Goto
    <2>2. /\ pc'["rx"] = pc["rx"]
          /\ pc'["thread"] \in {"join_del", "join_start"} => pc["thread"] = "join_del"
      BY <1>0, <2>1 DEF AfterDel, Contexts, Softirqs
    <2> QED
      BY <1>0, <2>1, <2>2 DEF HandOK
  <1>7. ASSUME start_clnt_join
        PROVE  HandOK'
    <2>1. /\ state' = {"STATION", "AUTH_NULL"} /\ pc["thread"] = "join_start"
          /\ UNCHANGED <<network, reauth_count, reassoc_count, air>>
          /\ pc' = [pc EXCEPT !["thread"] = "idle"]
      BY <1>7 DEF start_clnt_join, Goto
    <2>2. pc'["rx"] = pc["rx"] /\ pc'["thread"] = "idle"
      BY <1>0, <2>1 DEF Contexts, Softirqs
    <2> QED
      BY <1>0, <2>1, <2>2 DEF HandOK, States
  <1>8. ASSUME LinkLost \/ receive_disconnect
        PROVE  HandOK'
    <2>1. /\ state' = {} /\ UNCHANGED <<network, reauth_count, reassoc_count, air>>
          /\ (pc' = pc \/ Goto("rx", "prehandle"))
      BY <1>8 DEF LinkLost, receive_disconnect
    <2>2. /\ pc'["thread"] = pc["thread"]
          /\ pc'["rx"] = pc["rx"] \/ pc'["rx"] = "prehandle"
      BY <1>0, <2>1 DEF Goto, Contexts, Softirqs
    <2> QED
      BY <1>0, <2>1, <2>2, HandEnds
  <1>9. ASSUME NEW b \in Bss, RxBeaconSurvey(b)
        PROVE  HandOK'
    BY <1>9, <1>0, HandKept DEF HandFrame, RxBeaconSurvey
  <1>10. ASSUME RxBeacon
        PROVE  HandOK'
    <2>1. /\ "AUTH_NULL" \in state /\ UNCHANGED <<info, air>>
          /\ pc' = [pc EXCEPT !["rx"] = "start_auth"]
      BY <1>10 DEF RxBeacon, Goto
    <2>2. pc'["rx"] = "start_auth" /\ pc'["thread"] = pc["thread"]
      BY <1>0, <2>1 DEF Contexts, Softirqs
    <2> QED
      BY <1>0, <2>1, <2>2 DEF HandOK
  <1>11. ASSUME start_clnt_auth
        PROVE  HandOK'
    <2>1. /\ pc["rx"] = "start_auth" /\ state' = (state \ {"AUTH_NULL"}) \cup {"AUTH"}
          /\ reauth_count' = 0 /\ reassoc_count' = 0 /\ UNCHANGED network
          /\ air' = air \cup {<<"auth", network>>} /\ pc' = [pc EXCEPT !["rx"] = "idle"]
      BY <1>11 DEF start_clnt_auth, Goto
    <2>2. pc'["rx"] = "idle" /\ pc'["thread"] = pc["thread"]
      BY <1>0, <2>1 DEF Contexts, Softirqs
    <2>3. state' \subseteq States /\ air' \subseteq {"auth", "assoc"} \X Bss /\ network' \in Bss
      BY <1>0, <2>1 DEF HandOK, States
    <2> QED
      BY <1>0, <2>1, <2>2, <2>3 DEF HandOK, StaAssumption
  <1>12. ASSUME NEW b \in Bss, OnAuthClient(b)
        PROVE  HandOK'
    <2>1. /\ "AUTH" \in state /\ UNCHANGED info
          /\ air' \subseteq air \cup {<<"auth", network>>}
          /\ (pc' = pc \/ pc' = [pc EXCEPT !["rx"] = "start_assoc"])
      BY <1>12 DEF OnAuthClient, Goto
    <2>2. pc'["rx"] \in {pc["rx"], "start_assoc"} /\ pc'["thread"] = pc["thread"]
      BY <1>0, <2>1 DEF Contexts, Softirqs
    <2>3. air' \subseteq {"auth", "assoc"} \X Bss /\ network \in Bss
      BY <1>0, <2>1 DEF HandOK
    <2> QED
      BY <1>0, <2>1, <2>2, <2>3 DEF HandOK
  <1>13. ASSUME start_clnt_assoc
        PROVE  HandOK'
    <2>1. /\ pc["rx"] = "start_assoc"
          /\ state' = (state \ {"AUTH_NULL", "AUTH"}) \cup {"AUTH_SUCCESS", "ASSOC"}
          /\ UNCHANGED <<network, reauth_count, reassoc_count>>
          /\ air' = air \cup {<<"assoc", network>>} /\ pc' = [pc EXCEPT !["rx"] = "idle"]
      BY <1>13 DEF start_clnt_assoc, Goto
    <2>2. pc'["rx"] = "idle" /\ pc'["thread"] = pc["thread"]
      BY <1>0, <2>1 DEF Contexts, Softirqs
    <2>3. state' \subseteq States /\ air' \subseteq {"auth", "assoc"} \X Bss /\ network' \in Bss
      BY <1>0, <2>1 DEF HandOK, States
    <2> QED
      BY <1>0, <2>1, <2>2, <2>3 DEF HandOK, StaAssumption
  <1>14. ASSUME NEW b \in Bss, OnAssocRsp(b)
        PROVE  HandOK'
    <2>1. /\ state # {} /\ UNCHANGED info /\ air' \subseteq air
          /\ \E l \in {"assoc_ok", "assoc_fail"} : pc' = [pc EXCEPT !["rx"] = l]
      BY <1>14 DEF OnAssocRsp, Goto
    <2>2. pc'["rx"] \in {"assoc_ok", "assoc_fail"} /\ pc'["thread"] = pc["thread"]
      BY <1>0, <2>1 DEF Contexts, Softirqs
    <2> QED
      BY <1>0, <2>1, <2>2 DEF HandOK
  <1>15. ASSUME OnAssocRspResult
        PROVE  HandOK'
    <2>1. /\ pc["rx"] \in {"assoc_ok", "assoc_fail"}
          /\ state' = IF pc["rx"] = "assoc_ok"
                      THEN (state \ {"ASSOC"}) \cup {"ASSOC_SUCCESS"} ELSE {}
          /\ UNCHANGED <<network, reauth_count, reassoc_count, air>>
          /\ pc' = [pc EXCEPT !["rx"] = "prehandle"]
      BY <1>15 DEF OnAssocRspResult, Goto
    <2>2. pc'["rx"] = "prehandle" /\ pc'["thread"] = pc["thread"]
      BY <1>0, <2>1 DEF Contexts, Softirqs
    <2> QED
      BY <1>0, <2>1, <2>2 DEF HandOK, States
  <1>16. ASSUME NEW c \in {"rx", "link"}, rtw_joinbss_event_prehandle(c) \/ ReportEvent(c)
        PROVE  HandOK'
    <2>1. UNCHANGED <<info, air>> /\ \E l \in {"idle", "enqueue", "stuck"} : Goto(c, l)
      BY <1>16 DEF rtw_joinbss_event_prehandle, PrehandleConnect, ReportEvent
    <2>2. HandFrame
      BY <1>0, <1>16, <2>1 DEF HandFrame, Goto, Contexts, Softirqs
    <2> QED
      BY <1>0, <2>2, HandKept
  <1>17. ASSUME LinkFails \/ LinkRetries
        PROVE  HandOK'
    <2>1. /\ CountRetry /\ UNCHANGED network
          /\ \/ state' = {} /\ UNCHANGED air
             \/ UNCHANGED state /\ ~ GivesUp /\ (Auths \/ Assocs)
                /\ (air' = air \cup {<<"auth", network>>} \/ air' = air \cup {<<"assoc", network>>})
          /\ (pc' = pc \/ pc' = [pc EXCEPT !["link"] = "prehandle"])
      BY <1>17 DEF LinkFails, LinkRetries, Goto
    <2>2. pc'["rx"] = pc["rx"] /\ pc'["thread"] = pc["thread"]
      BY <1>0, <2>1 DEF Contexts, Softirqs
    <2>3. air' \subseteq {"auth", "assoc"} \X Bss
      <3>1. Auths \/ Assocs => network \in Bss
        BY <1>0 DEF HandOK, Auths, Assocs
      <3> QED
        BY <1>0, <2>1, <3>1 DEF HandOK
    <2>4. /\ reauth_count' = IF Auths THEN reauth_count + 1 ELSE reauth_count
          /\ reassoc_count' = IF Assocs THEN reassoc_count + 1 ELSE reassoc_count
      BY <2>1 DEF CountRetry
    <2>5. /\ reauth_count' \in 0 .. REAUTH_LIMIT + 1
          /\ reassoc_count' \in 0 .. REASSOC_LIMIT + 1
      BY <1>0, <2>4 DEF HandOK, Auths, Assocs, StaAssumption
    <2>6. CASE state' = {}
      <3>1. pc["rx"] = "start_assoc" => ~ Assocs
        BY <1>0 DEF HandOK, Assocs
      <3> QED
        BY <1>0, <2>1, <2>2, <2>3, <2>4, <2>5, <2>6, <3>1 DEF HandOK
    <2>7. CASE UNCHANGED state /\ ~ GivesUp
      <3>1. /\ Auths => reauth_count + 1 <= REAUTH_LIMIT
            /\ Assocs => reassoc_count + 1 <= REASSOC_LIMIT
        BY <1>0, <2>7 DEF GivesUp, HandOK, StaAssumption
      <3>2. /\ pc["rx"] = "start_assoc" \/ "AUTH" \in state => ~ Assocs
            /\ "AUTH" \in state => Auths
            /\ "ASSOC" \in state => Assocs
        BY <1>0 DEF HandOK, Assocs, Auths
      <3> QED
        BY <1>0, <2>1, <2>2, <2>3, <2>4, <2>5, <2>7, <3>1, <3>2 DEF HandOK
    <2> QED
      BY <2>1, <2>6, <2>7
  <1>18. ASSUME LinkIdle \/ survey_timer_hdl
        PROVE  HandOK'
    BY <1>18, <1>0, HandKept DEF HandFrame, LinkIdle, survey_timer_hdl
  <1>19. ASSUME AssocTimer \/ ScanTimer
        PROVE  HandOK'
    <2>1. UNCHANGED <<info, air>> /\ \E t \in {"assoc", "scan_to"}, l \in {"lock", "idle"} : Goto(t, l)
      BY <1>19 DEF AssocTimer, ScanTimer, TimeoutFires, rtw_join_timeout_handler,
         rtw_scan_timeout_handler
    <2>2. HandFrame
      BY <1>0, <2>1 DEF HandFrame, Goto, Contexts, Softirqs
    <2> QED
      BY <1>0, <2>2, HandKept
  <1>20. ASSUME Finished
        PROVE  HandOK'
    BY <1>20, <1>0, HandKept DEF HandFrame, Finished, vars
  <1> QED
    BY <1>1, <1>2, <1>3, <1>4, <1>5, <1>6, <1>7, <1>8, <1>9, <1>10, <1>11, <1>12,
       <1>13, <1>14, <1>15, <1>16, <1>17, <1>18, <1>19, <1>20
       DEF Next, Thread, RxBeginsSome, RxEnds, LinkTimer
-----------------------------------------------------------------------------
(* The command queue and the channel scan *)

\* Steps that add to the queue, if anything, and leave the scan alone.
QueueGrows ==
  /\ Longer(cmd_queue, cmd_queue') /\ UNCHANGED <<scan, channel_idx>>
  /\ timer'["survey"] = timer["survey"]
  /\ pc'["thread"] = pc["thread"] \/ pc'["thread"] \notin {"join_leave", "join_reset"}

\* They keep what is known of queue and scan ...
LEMMA QueueKept ==
  ASSUME QueueOK, QueueGrows
  PROVE  QueueOK'
  BY DEF QueueOK, QueueGrows, Longer

\* Steps of the thread that take the first command, no survey command.
QueueTaken ==
  /\ cmd_queue # << >> /\ Head(cmd_queue).cmd # "Survey"
  /\ Longer(Tail(cmd_queue), cmd_queue') /\ UNCHANGED <<scan, channel_idx>>
  /\ timer'["survey"] = timer["survey"]
  /\ pc'["thread"] \notin {"join_leave", "join_reset"}

\* ... and so do these.
LEMMA QueueServes ==
  ASSUME QueueOK, QueueTaken
  PROVE  QueueOK'
  <1>1. HasSurvey(cmd_queue) => HasSurvey(cmd_queue')
    BY TailSurvey DEF QueueOK, QueueTaken, Longer
  <1>2. cmd_queue' \in Seq(Commands)
    BY DEF QueueTaken, Longer
  <1> QED
    BY <1>1, <1>2 DEF QueueOK, QueueTaken

\* rtw_sitesurvey_cmd enqueues its command behind the others.
LEMMA EnqueueSurvey ==
  ASSUME NEW q \in Seq(Commands), NEW fw, SiteSurvey(fw, q), timer \in [Timers -> Delays]
  PROVE  Longer(q, cmd_queue') /\ timer'["survey"] = timer["survey"]
  <1>1. <<Cmd("Survey")>> \in Seq(Commands)
    BY SomeCommands
  <1>2. Longer(q, q \o <<Cmd("Survey")>>)
    BY <1>1, LongerConcat
  <1> QED
    BY <1>2 DEF SiteSurvey, Set, Timers

\* rtw_select_and_join_from_scanned_queue leaves first when it is linked.
LEMMA EnqueueJoin ==
  ASSUME NEW q \in Seq(Commands), NEW fw, NEW b \in Bss, NEW tm \in [Timers -> Delays],
         SelectAndJoin(b, fw, q, tm)
  PROVE  Longer(q, cmd_queue') /\ timer'["survey"] = tm["survey"]
  <1>1. <<CmdOf("Join", b)>> \in Seq(Commands) /\ Leave(fw) \in Seq(Commands)
    BY SomeCommands, LeaveSeq
  <1>2. Longer(q, q \o Leave(fw)) /\ q \o Leave(fw) \in Seq(Commands)
    BY <1>1, LongerConcat DEF Longer
  <1>3. Longer(q \o Leave(fw), (q \o Leave(fw)) \o <<CmdOf("Join", b)>>)
    BY <1>1, <1>2, LongerConcat
  <1>4. Longer(q, (q \o Leave(fw)) \o <<CmdOf("Join", b)>>)
    BY <1>2, <1>3 DEF Longer
  <1>5. cmd_queue' = (q \o Leave(fw)) \o <<CmdOf("Join", b)>> /\ timer' = [tm EXCEPT !["assoc"] = "long"]
    BY DEF SelectAndJoin
  <1> QED
    BY <1>4, <1>5 DEF Timers

\* Every step of every context keeps queue and scan in order.
LEMMA QueueStep ==
  ASSUME StaInv, Next
  PROVE  QueueOK'
  <1> USE DEF mlme, user, info, survey, peer
  <1>0. /\ pc \in [Contexts -> Labels] /\ timer \in [Timers -> Delays] /\ QueueOK
        /\ cmd_queue \in Seq(Commands) /\ MlmeOK
    BY DEF StaInv, GuardInv, ClockType, QueueOK
  <1>a. StaAssumption
    BY StaAssumption
  <1>b. Longer(cmd_queue, cmd_queue)
    BY <1>0, LongerSame
  <1>c. \A c : Serves(c) => /\ cmd_queue # << >> /\ Head(cmd_queue).cmd = c
                            /\ pc["thread"] = "idle"
                            /\ Tail(cmd_queue) \in Seq(Commands)
                            /\ Longer(Tail(cmd_queue), Tail(cmd_queue))
                            /\ Tail(cmd_queue) \o << >> = Tail(cmd_queue)
    <2> TAKE c
    <2> HAVE Serves(c)
    <2>1. cmd_queue # << >> /\ Head(cmd_queue).cmd = c /\ pc["thread"] = "idle"
      BY DEF Serves
    <2>2. Tail(cmd_queue) \in Seq(Commands)
      BY <1>0, <2>1, TailSurvey
    <2>3. Tail(cmd_queue) \o << >> = Tail(cmd_queue)
      BY <2>2
    <2> QED
      BY <2>1, <2>2, <2>3, LongerSame
  <1>1. ASSUME NEW b \in Bss, SetSsid(b)
        PROVE  QueueOK'
    <2> DEFINE other == "LINKED" \in fw_state /\ b # target
               fw == IF other THEN Left(fw_state) ELSE fw_state
               q == IF other THEN cmd_queue \o Leave(fw_state) ELSE cmd_queue
    <2>0. UNCHANGED <<scan, channel_idx, pc>>
      BY <1>1 DEF SetSsid
    <2>1. CASE "SURVEY" \in fw_state
      BY <1>1, <2>1, <2>0, <1>0, <1>b, QueueKept DEF SetSsid, QueueGrows
    <2>2. CASE "SURVEY" \notin fw_state
      <3>1. PICK busy \in BOOLEAN : rtw_do_join(b, fw, q, busy)
        BY <1>1, <2>2 DEF SetSsid
      <3>2. Longer(cmd_queue, q) /\ q \in Seq(Commands)
        BY <1>0, <1>b, LeaveSeq, LongerConcat DEF Longer
      <3> HIDE DEF fw, q
      <3>3. Longer(q, cmd_queue') /\ timer'["survey"] = timer["survey"]
        <4>1. CASE b \in scanned
          BY <3>1, <3>2, <4>1, <1>0, EnqueueJoin DEF rtw_do_join
        <4>2. CASE b \notin scanned /\ busy
          BY <3>1, <3>2, <4>2, LongerSame DEF rtw_do_join
        <4>3. CASE b \notin scanned /\ ~ busy
          <5>1. SiteSurvey(fw \ {"LINKING"}, q)
            BY <3>1, <4>3 DEF rtw_do_join
          <5> QED
            BY <5>1, <3>2, <1>0, EnqueueSurvey
        <4> QED
          BY <4>1, <4>2, <4>3
      <3>4. Longer(cmd_queue, cmd_queue')
        BY <3>2, <3>3 DEF Longer
      <3> QED
        BY <1>0, <2>0, <3>3, <3>4, QueueKept DEF QueueGrows
    <2> QED
      BY <2>1, <2>2
  <1>2. ASSUME Disassociate
        PROVE  QueueOK'
    <2>1. cmd_queue' = cmd_queue \o Leave(fw_state) /\ UNCHANGED <<scan, channel_idx, pc, timer>>
      BY <1>2 DEF Disassociate
    <2>2. Longer(cmd_queue, cmd_queue')
      BY <1>0, <2>1, LeaveSeq, LongerConcat
    <2> QED
      BY <1>0, <2>1, <2>2, QueueKept DEF QueueGrows
  <1>3. ASSUME ScanCheck \/ RxBeacon \/ Finished
        PROVE  QueueOK'
    <2>1. UNCHANGED <<cmd_queue, scan, channel_idx, timer>> /\ (pc' = pc \/ Goto("rx", "start_auth"))
      BY <1>3 DEF ScanCheck, RxBeacon, Finished, vars
    <2>2. pc'["thread"] = pc["thread"]
      BY <1>0, <2>1 DEF Goto, Contexts, Softirqs
    <2> QED
      BY <1>0, <1>b, <2>1, <2>2, QueueKept DEF QueueGrows
  <1>4. ASSUME ScanStart
        PROVE  QueueOK'
    <2>1. SiteSurvey(fw_state, cmd_queue) /\ UNCHANGED <<scan, channel_idx, pc>>
      BY <1>4 DEF ScanStart
    <2> QED
      BY <1>0, <2>1, EnqueueSurvey, QueueKept DEF QueueGrows
  <1>5. ASSUME sitesurvey_cmd_hdl
        PROVE  QueueOK'
    <2>0. Serves("Survey") /\ pc' = pc
      BY <1>5 DEF sitesurvey_cmd_hdl
    <2>1. cmd_queue' \in Seq(Commands)
      <3>1. Tail(cmd_queue) \in Seq(Commands) /\ Tail(cmd_queue) \o << >> = Tail(cmd_queue)
        BY <1>c, <2>0
      <3>2. <<Cmd("SurveyDone")>> \in Seq(Commands)
        BY SomeCommands
      <3>3. \/ cmd_queue' = Tail(cmd_queue) \o << >>
            \/ cmd_queue' = Tail(cmd_queue) \o <<Cmd("SurveyDone")>>
        BY <1>5 DEF sitesurvey_cmd_hdl, site_survey, Served
      <3>4. Tail(cmd_queue) \o <<Cmd("SurveyDone")>> \in Seq(Commands)
        BY <3>1, <3>2, LongerConcat DEF Longer
      <3> QED
        BY <3>1, <3>3, <3>4
    <2>2. /\ scan' \in {"DISABLE", "TXNULL", "PROCESS"} /\ channel_idx' \in 0 .. ch_num
          /\ scan' = "PROCESS" => channel_idx' < ch_num
          /\ scan' # "DISABLE" => timer'["survey"] # "off"
      BY <1>0, <1>5, <1>a DEF sitesurvey_cmd_hdl, site_survey, QueueOK, Set, Timers, StaAssumption
    <2>3. pc'["thread"] = "idle"
      BY <1>c, <2>0
    <2> QED
      BY <2>1, <2>2, <2>3 DEF QueueOK
  <1>6. ASSUME JoinLeave
        PROVE  QueueOK'
    <2>1. Serves("Join") /\ UNCHANGED <<cmd_queue, scan, channel_idx, timer>>
      BY <1>6 DEF JoinLeave
    <2>2. cmd_queue # << >> /\ Head(cmd_queue).cmd = "Join"
      BY <1>c, <2>1
    <2> QED
      BY <1>0, <2>1, <2>2 DEF QueueOK
  <1>7. ASSUME JoinReset
        PROVE  QueueOK'
    <2>1. /\ cmd_queue # << >> /\ Head(cmd_queue).cmd = "Join"
          /\ cmd_queue' = Tail(cmd_queue) \o << >>
          /\ UNCHANGED <<scan, channel_idx, timer>> /\ pc' = [pc EXCEPT !["thread"] = "join_del"]
      BY <1>0, <1>7 DEF JoinReset, Served, Serves, QueueOK, Goto
    <2>2. Tail(cmd_queue) \in Seq(Commands)
      BY <1>0, <2>1, TailSurvey
    <2>3. cmd_queue' = Tail(cmd_queue)
      BY <2>1, <2>2
    <2>4. Longer(Tail(cmd_queue), cmd_queue') /\ pc'["thread"] = "join_del"
      BY <1>0, <2>1, <2>2, <2>3, LongerSame DEF Contexts
    <2> QED
      BY <1>0, <2>1, <2>4, QueueServes DEF QueueTaken
  <1>8. ASSUME DelLinkTimer
        PROVE  QueueOK'
    <2>1. /\ UNCHANGED <<cmd_queue, scan, channel_idx>> /\ pc["thread"] \in DOMAIN AfterDel
          /\ pc' = [pc EXCEPT !["thread"] = AfterDel[pc["thread"]]]
          /\ timer' = [timer EXCEPT !["link"] = "off"]
      BY <1>8 DEF DelLinkTimer, Goto, Set
    <2>2. /\ pc'["thread"] \in {"join_leave", "join_reset"} => pc["thread"] = "join_leave"
          /\ timer'["survey"] = timer["survey"]
      BY <1>0, <2>1 DEF AfterDel, Contexts, Timers
    <2> QED
      BY <1>0, <2>1, <2>2 DEF QueueOK
  <1>9. ASSUME start_clnt_join \/ rtw_stadel_event_callback
        PROVE  QueueOK'
    <2>1. /\ UNCHANGED <<cmd_queue, scan, channel_idx>> /\ pc' = [pc EXCEPT !["thread"] = "idle"]
          /\ (timer' = timer \/ timer' = [timer EXCEPT !["link"] = "short", !["assoc"] = "long"])
      BY <1>9 DEF start_clnt_join, rtw_stadel_event_callback, Goto
    <2>2. pc'["thread"] = "idle" /\ timer'["survey"] = timer["survey"]
      BY <1>0, <2>1 DEF Contexts, Timers
    <2> QED
      BY <1>0, <1>b, <2>1, <2>2, QueueKept DEF QueueGrows
  <1>10. ASSUME disconnect_hdl \/ mlmeext_sta_del_event_callback
                 \/ rtw_survey_event_callback \/ rtw_joinbss_event_callback
        PROVE  QueueOK'
    <2>1. /\ \E c \in {"Disconnect", "DelSta", "SurveyEvent", "JoinRes"} : Serves(c)
          /\ cmd_queue' = Tail(cmd_queue) \o << >> /\ UNCHANGED <<scan, channel_idx, timer>>
          /\ pc' = pc \/ \E l \in {"disc_del", "sta_del"} : pc' = [pc EXCEPT !["thread"] = l]
      BY <1>10 DEF disconnect_hdl, mlmeext_sta_del_event_callback, Unlink, Served, Goto,
         rtw_survey_event_callback, rtw_joinbss_event_callback
    <2>2. pc'["thread"] \notin {"join_leave", "join_reset"}
      BY <1>0, <1>c, <2>1 DEF Contexts
    <2>3. /\ cmd_queue # << >> /\ Head(cmd_queue).cmd # "Survey"
          /\ Longer(Tail(cmd_queue), cmd_queue')
      BY <1>c, <2>1
    <2> QED
      BY <1>0, <2>1, <2>2, <2>3, QueueServes DEF QueueTaken
  <1>11. ASSUME rtw_surveydone_event_callback
        PROVE  QueueOK'
    <2> DEFINE tm == IF "SURVEY" \in fw_state THEN Set("scan_to", "off") ELSE timer
    <2>0. Serves("SurveyDone") /\ UNCHANGED <<scan, channel_idx>>
      BY <1>11 DEF rtw_surveydone_event_callback
    <2>1. CASE "SURVEY" \in fw_state /\ pc["scan_to"] # "idle"
      <3>1. UNCHANGED <<cmd_queue, timer>> /\ pc' = [pc EXCEPT !["thread"] = "stuck"]
        BY <1>11, <2>1 DEF rtw_surveydone_event_callback, Goto
      <3>2. pc'["thread"] = "stuck"
        BY <1>0, <3>1 DEF Contexts
      <3> QED
        BY <1>0, <1>b, <2>0, <3>1, <3>2, QueueKept DEF QueueGrows
    <2>2. CASE ~ ("SURVEY" \in fw_state /\ pc["scan_to"] # "idle")
      <3>1. SurveyDoneJoin(SurveyOver, Tail(cmd_queue), tm) /\ UNCHANGED pc
        BY <1>11, <2>2 DEF rtw_surveydone_event_callback
      <3>2. tm \in [Timers -> Delays] /\ tm["survey"] = timer["survey"]
        BY <1>0 DEF Set, Timers, Delays
      <3> HIDE DEF tm
      <3>3. Longer(Tail(cmd_queue), cmd_queue') /\ timer'["survey"] = timer["survey"]
        <4>1. CASE to_join /\ target \in scanned
          <5>1. SelectAndJoin(target, SurveyOver, Tail(cmd_queue), tm)
            BY <3>1, <4>1 DEF SurveyDoneJoin
          <5>2. target \in Bss /\ Tail(cmd_queue) \in Seq(Commands)
            BY <1>0, <1>c, <2>0, <4>1 DEF MlmeOK
          <5> QED
            BY <5>1, <5>2, <3>2, EnqueueJoin
        <4>2. CASE ~ (to_join /\ target \in scanned)
          BY <1>c, <2>0, <3>1, <3>2, <4>2 DEF SurveyDoneJoin
        <4> QED
          BY <4>1, <4>2
      <3> QED
        BY <1>0, <1>c, <2>0, <3>1, <3>3, QueueServes DEF QueueTaken
    <2> QED
      BY <2>1, <2>2
  <1>12. ASSUME LinkLost \/ receive_disconnect \/ (\E b \in Bss : RxBeaconSurvey(b))
                 \/ (\E c \in {"rx", "link"} : ReportEvent(c))
        PROVE  QueueOK'
    <2>1. /\ UNCHANGED <<scan, channel_idx, timer>>
          /\ pc' = pc \/ \E c \in {"rx", "link"}, l \in {"prehandle", "idle"} : Goto(c, l)
      BY <1>12 DEF LinkLost, receive_disconnect, RxBeaconSurvey, ReportEvent
    <2>2. \/ cmd_queue' = cmd_queue
          \/ cmd_queue' = Append(cmd_queue, Cmd("DelSta"))
          \/ \E b \in Bss : cmd_queue' = Append(cmd_queue, CmdOf("SurveyEvent", b))
          \/ \E c \in {"rx", "link"} : cmd_queue' = Append(cmd_queue, CmdOf("JoinRes", report[c].res))
      BY <1>12 DEF LinkLost, receive_disconnect, RxBeaconSurvey, ReportEvent
    <2>3. \A c \in {"rx", "link"} : report[c].res \in Results
      BY <1>0 DEF MlmeOK
    <2>4. cmd_queue' = cmd_queue \/ \E d \in Commands : cmd_queue' = Append(cmd_queue, d)
      BY <2>2, <2>3, SomeCommands
    <2>5. Longer(cmd_queue, cmd_queue')
      BY <1>0, <1>b, <2>4, LongerAppend
    <2>6. pc'["thread"] = pc["thread"]
      BY <1>0, <2>1 DEF Goto, Contexts, Softirqs
    <2> QED
      BY <1>0, <2>1, <2>5, <2>6, QueueKept DEF QueueGrows
  <1>13. ASSUME start_clnt_auth \/ start_clnt_assoc \/ OnAssocRspResult
                 \/ (\E b \in Bss : OnAuthClient(b) \/ OnAssocRsp(b))
                 \/ LinkFails \/ LinkRetries \/ LinkIdle \/ AssocTimer \/ ScanTimer
                 \/ (\E c \in {"rx", "link"} : rtw_joinbss_event_prehandle(c))
        PROVE  QueueOK'
    <2>1. /\ UNCHANGED <<cmd_queue, scan, channel_idx>>
          /\ pc' = pc \/ \E c \in Softirqs, l \in Labels : Goto(c, l)
          /\ timer' = timer \/ \E t \in {"link", "assoc", "scan_to"}, v \in Delays : timer' = Set(t, v)
      BY <1>13 DEF start_clnt_auth, start_clnt_assoc, OnAssocRspResult, OnAuthClient, OnAssocRsp,
         LinkFails, LinkRetries, LinkIdle, AssocTimer, ScanTimer, TimeoutFires,
         rtw_join_timeout_handler, rtw_scan_timeout_handler, rtw_joinbss_event_prehandle,
         PrehandleConnect, Delays, Labels, Softirqs
    <2>2. pc'["thread"] = pc["thread"] /\ timer'["survey"] = timer["survey"]
      BY <1>0, <2>1 DEF Goto, Set, Contexts, Softirqs, Timers
    <2> QED
      BY <1>0, <1>b, <2>1, <2>2, QueueKept DEF QueueGrows
  <1>14. ASSUME survey_timer_hdl
        PROVE  QueueOK'
    <2>1. /\ timer' = [timer EXCEPT !["survey"] = "off"] /\ timer["survey"] # "off"
          /\ UNCHANGED <<pc, scan>>
      BY <1>14 DEF survey_timer_hdl, Set, Fires, Expires
    <2>2. timer'["survey"] = "off"
      BY <1>0, <2>1 DEF Timers
    <2>3. CASE scan = "DISABLE"
      BY <1>0, <1>14, <2>1, <2>2, <2>3 DEF survey_timer_hdl, QueueOK
    <2>4. CASE scan # "DISABLE"
      <3>1. /\ cmd_queue' = Append(cmd_queue, Cmd("Survey"))
            /\ channel_idx' = IF scan = "PROCESS" THEN channel_idx + 1 ELSE channel_idx
        BY <1>14, <2>4 DEF survey_timer_hdl
      <3>2. Longer(cmd_queue, cmd_queue') /\ HasSurvey(cmd_queue')
        BY <1>0, <3>1, SomeCommands, LongerAppend
      <3>3. channel_idx' \in 0 .. ch_num
        BY <1>0, <1>a, <2>1, <3>1 DEF QueueOK, StaAssumption
      <3> QED
        BY <1>0, <2>1, <2>2, <3>2, <3>3 DEF QueueOK, Longer
    <2> QED
      BY <2>3, <2>4
  <1> QED
    BY <1>1, <1>2, <1>3, <1>4, <1>5, <1>6, <1>7, <1>8, <1>9, <1>10, <1>11, <1>12, <1>13, <1>14
       DEF Next, User, Thread, RxBeginsSome, RxEnds, LinkTimer
-----------------------------------------------------------------------------
(* The remaining types *)

\* Every step keeps the types of mlme_priv.
LEMMA MlmeStep ==
  ASSUME StaInv, Next
  PROVE  MlmeOK'
  <1> USE DEF mlme, user, info, survey, peer
  <1>0. MlmeOK /\ HandOK /\ QueueOK /\ StaAssumption
    BY StaAssumption DEF StaInv
  <1>1. ASSUME NEW b \in Bss, SetSsid(b)
        PROVE  MlmeOK'
    <2>1. /\ target' = b /\ ops' = ops + 1 /\ ops < MaxOps
          /\ UNCHANGED <<cur_network, lock, upc, report, hw_bssid, drops>>
      BY <1>1 DEF SetSsid, UserCalls
    <2>2. fw_state' \subseteq Flags /\ to_join' \in BOOLEAN /\ scanned' \subseteq Bss
      BY <1>0, <1>1 DEF SetSsid, rtw_do_join, SelectAndJoin, SiteSurvey, FreeNetworkQueue, Left,
         MlmeOK, Flags
    <2>3. ops' \in 0 .. MaxOps
      BY <1>0, <2>1 DEF MlmeOK, StaAssumption
    <2> QED
      BY <1>0, <2>1, <2>2, <2>3 DEF MlmeOK
  <1>2. ASSUME Disassociate \/ ScanCheck
        PROVE  MlmeOK'
    <2>1. ops' \in 0 .. MaxOps
      BY <1>0, <1>2 DEF Disassociate, ScanCheck, UserCalls, MlmeOK, StaAssumption
    <2> QED
      BY <1>0, <1>2, <2>1 DEF Disassociate, ScanCheck, UserCalls, MlmeOK, Left
  <1>3. ASSUME ScanStart
        PROVE  MlmeOK'
    BY <1>0, <1>3 DEF ScanStart, SiteSurvey, FreeNetworkQueue, MlmeOK, Flags
  <1>4. ASSUME sitesurvey_cmd_hdl \/ JoinLeave \/ DelLinkTimer \/ start_clnt_join
                \/ (\E b \in Bss : RxBeaconSurvey(b) \/ OnAuthClient(b) \/ OnAssocRsp(b))
                \/ start_clnt_auth \/ start_clnt_assoc \/ LinkRetries \/ LinkIdle
                \/ survey_timer_hdl \/ Finished
                \/ (\E c \in {"rx", "link"} : ReportEvent(c))
                \/ (\E t \in {"assoc", "scan_to"} : TimeoutFires(t))
        PROVE  MlmeOK'
    <2>1. UNCHANGED <<mlme, user, report, hw_bssid, drops>>
      BY <1>4 DEF sitesurvey_cmd_hdl, JoinLeave, DelLinkTimer, start_clnt_join, RxBeaconSurvey,
         OnAuthClient, OnAssocRsp, start_clnt_auth, start_clnt_assoc, LinkRetries, LinkIdle,
         survey_timer_hdl, Finished, ReportEvent, TimeoutFires, vars
    <2> QED
      BY <1>0, <2>1 DEF MlmeOK
  <1>5. ASSUME JoinReset
        PROVE  MlmeOK'
    <2>1. cmd_queue # << >> /\ Head(cmd_queue).cmd = "Join" /\ cmd_queue \in Seq(Commands)
      BY <1>0, <1>5 DEF JoinReset, Serves, QueueOK
    <2>2. Head(cmd_queue).bss \in Bss
      BY <2>1, SomeCommands
    <2> QED
      BY <1>0, <1>5, <2>2 DEF JoinReset, MlmeOK
  <1>6. ASSUME disconnect_hdl \/ mlmeext_sta_del_event_callback \/ rtw_joinbss_event_callback
        PROVE  MlmeOK'
    BY <1>0, <1>6 DEF disconnect_hdl, mlmeext_sta_del_event_callback, Unlink,
       rtw_joinbss_event_callback, MlmeOK
  <1>7. ASSUME rtw_stadel_event_callback \/ rtw_join_timeout_handler \/ rtw_scan_timeout_handler
        PROVE  MlmeOK'
    BY <1>0, <1>7 DEF rtw_stadel_event_callback, rtw_join_timeout_handler,
       rtw_scan_timeout_handler, Left, MlmeOK
  <1>8. ASSUME rtw_survey_event_callback
        PROVE  MlmeOK'
    <2>1. cmd_queue # << >> /\ Head(cmd_queue).cmd = "SurveyEvent" /\ cmd_queue \in Seq(Commands)
      BY <1>0, <1>8 DEF rtw_survey_event_callback, Serves, QueueOK
    <2>2. Head(cmd_queue).bss \in Bss
      BY <2>1, SomeCommands
    <2> QED
      BY <1>0, <1>8, <2>2 DEF rtw_survey_event_callback, MlmeOK
  <1>9. ASSUME rtw_surveydone_event_callback
        PROVE  MlmeOK'
    <2>1. UNCHANGED <<target, cur_network, scanned, user, report, hw_bssid, drops>>
      BY <1>9 DEF rtw_surveydone_event_callback
    <2>2. fw_state' \subseteq Flags /\ to_join' \in BOOLEAN /\ lock' \in Contexts \cup {"free"}
      BY <1>0, <1>9 DEF rtw_surveydone_event_callback, SurveyDoneJoin, SurveyOver,
         SelectAndJoin, Left, MlmeOK, Flags, Contexts
    <2> QED
      BY <1>0, <2>1, <2>2 DEF MlmeOK
  <1>10. ASSUME LinkLost \/ receive_disconnect \/ OnAssocRspResult \/ LinkFails
        PROVE  MlmeOK'
    <2>1. UNCHANGED <<mlme, user, hw_bssid>> /\ drops' \in {drops, drops + 1}
      BY <1>10 DEF LinkLost, receive_disconnect, OnAssocRspResult, LinkFails
    <2>2. \/ report' = report
          \/ \E c \in {"rx", "link"}, r \in Results :
               report' = [report EXCEPT ![c] = [bss |-> network, res |-> r]]
      BY <1>10 DEF LinkLost, receive_disconnect, OnAssocRspResult, LinkFails, Results
    <2>3. report' \in [{"rx", "link"} -> [bss : Bss \cup {NoBss}, res : Results]]
      <3>1. \A r \in Results :
              [bss |-> network, res |-> r] \in [bss : Bss \cup {NoBss}, res : Results]
        BY <1>0 DEF HandOK
      <3> QED
        BY <1>0, <2>2, <3>1 DEF MlmeOK
    <2>4. drops' \in Nat
      BY <1>0, <2>1 DEF MlmeOK
    <2> QED
      BY <1>0, <2>1, <2>3, <2>4 DEF MlmeOK
  <1>11. ASSUME RxBeacon
        PROVE  MlmeOK'
    BY <1>0, <1>11 DEF RxBeacon, MlmeOK, HandOK
  <1>12. ASSUME NEW c \in {"rx", "link"}, rtw_joinbss_event_prehandle(c)
        PROVE  MlmeOK'
    <2>1. UNCHANGED <<target, scanned, user, report, hw_bssid, drops>>
      BY <1>12 DEF rtw_joinbss_event_prehandle
    <2>2. report[c].bss \in Bss \cup {NoBss}
      BY <1>0 DEF MlmeOK
    <2>3. /\ fw_state' \subseteq Flags /\ to_join' \in BOOLEAN
          /\ cur_network' \in Bss \cup {NoBss} /\ lock' \in Contexts \cup {"free"}
      BY <1>0, <1>12, <2>2 DEF rtw_joinbss_event_prehandle, PrehandleConnect, MlmeOK, Flags,
         Contexts, Softirqs
    <2> QED
      BY <1>0, <2>1, <2>3 DEF MlmeOK
  <1> QED
    BY <1>1, <1>2, <1>3, <1>4, <1>5, <1>6, <1>7, <1>8, <1>9, <1>10, <1>11, <1>12
       DEF Next, User, Thread, RxBeginsSome, RxEnds, LinkTimer, AssocTimer, ScanTimer
-----------------------------------------------------------------------------
\* StaInv is inductive.
LEMMA StaInvariant == Spec => []StaInv
  <1>1. Init => StaInv
    <2> SUFFICES ASSUME Init PROVE StaInv
      OBVIOUS
    <2>1. GuardInv
      BY InitGuard
    <2>0. report \in [{"rx", "link"} -> [bss : Bss \cup {NoBss}, res : Results]]
      BY DEF Init, Results
    <2>a. ops \in 0 .. MaxOps /\ drops \in Nat
      BY StaAssumption DEF Init, StaAssumption
    <2>b. /\ fw_state \subseteq Flags /\ to_join \in BOOLEAN
          /\ target \in Bss \cup {NoBss} /\ cur_network \in Bss \cup {NoBss}
          /\ scanned \subseteq Bss /\ lock \in Contexts \cup {"free"}
          /\ upc \in {"idle", "scan"} /\ hw_bssid \in Bss \cup {NoBss}
      BY DEF Init
    <2>2. MlmeOK
      BY <2>0, <2>a, <2>b DEF MlmeOK
    <2>4. QueueOK
      BY StaAssumption DEF Init, QueueOK, StaAssumption, Contexts, Softirqs
    <2>3. HandOK
      BY StaAssumption DEF Init, HandOK, StaAssumption, Contexts, Softirqs
    <2> QED
      BY <2>1, <2>2, <2>3, <2>4 DEF StaInv
  <1>2. StaInv /\ [Next]_vars => StaInv'
    <2> SUFFICES ASSUME StaInv, [Next]_vars PROVE StaInv'
      OBVIOUS
    <2>1. GuardInv'
      BY NextGuard DEF StaInv
    <2>2. CASE Next
      BY <2>1, <2>2, HandStep, QueueStep, MlmeStep DEF StaInv
    <2>3. CASE UNCHANGED vars
      BY <2>1, <2>3 DEF StaInv, HandOK, QueueOK, MlmeOK, HasSurvey, vars, mlme, user, info,
         survey, peer
    <2> QED
      BY <2>2, <2>3
  <1> QED
    BY <1>1, <1>2, PTL DEF Spec

\* A survey is never left behind, for every number of channels, networks and
\* retries and for contexts in any interleaving: _FW_UNDER_SURVEY has its
\* scan_to_timer or the handler of it, and the channel scan its survey_timer or
\* the command for the next channel (rtw_sitesurvey_cmd, sitesurvey_cmd_hdl,
\* survey_timer_hdl).
THEOREM SurveysGuarded == Spec => []SurveyGuarded
  <1>1. StaInv => SurveyGuarded
    <2> SUFFICES ASSUME StaInv PROVE SurveyGuarded
      OBVIOUS
    <2>1. TypeOK
      BY DEF StaInv, GuardInv, ClockType, MlmeOK, HandOK, QueueOK, TypeOK
    <2>2. NoStuckScan /\ ScanMoves
      BY DEF StaInv, GuardInv, QueueOK, HasSurvey, ScanMoves
    <2> QED
      BY <2>1, <2>2 DEF SurveyGuarded
  <1> QED
    BY <1>1, StaInvariant, PTL
=============================================================================
