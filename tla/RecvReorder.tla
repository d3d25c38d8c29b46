---------------------------- MODULE RecvReorder ----------------------------
(***************************************************************************)
(* A-MPDU receive reordering of one station and one TID (core/rtw_recv.c). *)
(*                                                                         *)
(* The receive tasklet puts the frames of a block-ack agreement into       *)
(* pending_recvframe_queue, sorted by their 12-bit sequence numbers, and   *)
(* indicates them to the network stack in order. A hole holds the frames   *)
(* behind it back until reordering_ctrl_timer, 50 ms later, gives it up.   *)
(* The timer handler runs concurrently with the tasklet under the lock of  *)
(* the queue; the path without agreement, ADDBA and DELBA write the same   *)
(* fields without the lock; rtw_free_stainfo tears everything down from a  *)
(* third context.                                                          *)
(*                                                                         *)
(* A frame is named by its absolute number, which the driver never sees:   *)
(* it sees the number modulo 2 * HALF. The sender, which is not part of    *)
(* the driver, keeps to its window and is modelled from the standard.      *)
(***************************************************************************)
EXTENDS Integers, Sequences, FiniteSets

CONSTANTS
    HALF,        \* half the sequence space: 0x800 in the code
    wsize_b,     \* the size of the reordering window: 64 in the code
    NR_RECVFRAME,\* the receive frames of the pool
    MaxSeq,      \* bound: the sender's last absolute number
    MaxLoss,     \* bound: how far the sender moves on unheard
    Amsdu,       \* the absolute numbers of the frames that are A-MSDUs
    Bypass,      \* ... of ARP frames and frames with an ack policy
    bAcceptAddbaReq,  \* the module parameter
    Delba,       \* may the sender end the agreement?
    Teardown     \* may the station be freed?

ASSUME ReorderAssumption ==
    /\ HALF \in Nat /\ wsize_b \in Nat \ {0} /\ NR_RECVFRAME \in Nat
    /\ MaxSeq \in Nat /\ MaxLoss \in Nat
    /\ MaxLoss + 2 * wsize_b <= HALF
    /\ Amsdu \subseteq Nat /\ Bypass \subseteq Nat /\ Amsdu \cap Bypass = {}
    /\ bAcceptAddbaReq \in BOOLEAN /\ Delba \in BOOLEAN /\ Teardown \in BOOLEAN

M == 2 * HALF            \* 4096 sequence numbers
Sn(n) == n % M           \* the sequence number of frame n on the air
NoSeq == -1              \* indicate_seq and tid_rxseq: 0xffff
NoFrame == -1

VARIABLES
    enable, indicate_seq,        \* struct recv_reorder_ctrl
    pending,                     \* pending_recvframe_queue
    timer,                       \* reordering_ctrl_timer
    tid_rxseq,                   \* the decache of the TID
    bDriverStopped,
    free_recvframe_cnt,
    sta,                         \* the station: in use, or how far it is freed
    rpc, rframe,                 \* the receive tasklet and its frame
    hpc,                         \* the timer handler
    released,                    \* the last frame released before the latest
                                 \* ones, and those
    agree, wstart, heard         \* the sender; the last number reordering saw

ctrl == <<enable, indicate_seq, pending>>
tasklet == <<rpc, rframe, tid_rxseq>>
sender == <<agree, wstart, heard>>
vars == <<ctrl, timer, bDriverStopped, free_recvframe_cnt, sta, tasklet, hpc,
          released, sender>>

Frames == 0 .. MaxSeq
Seqs == 0 .. M - 1
TypeOK ==
    /\ enable \in BOOLEAN /\ bDriverStopped \in BOOLEAN /\ agree \in BOOLEAN
    /\ indicate_seq \in Seqs \cup {NoSeq} /\ tid_rxseq \in Seqs \cup {NoSeq}
    /\ pending \in Seq(Frames) /\ released \in Seq(Frames)
    /\ timer \in {"off", "armed"}
    /\ free_recvframe_cnt \in 0 .. NR_RECVFRAME
    /\ sta \in {"alloc", "unhashed", "timer_off", "free"}
    /\ rpc \in {"idle", "frame", "direct", "del_timer"}
    /\ rframe \in Frames \cup {NoFrame}
    /\ hpc \in {"idle", "lock", "loop"}
    /\ wstart \in 0 .. MaxSeq + 1 /\ heard \in Frames \cup {NoFrame}

Init ==
    /\ enable = FALSE /\ indicate_seq = NoSeq /\ pending = << >>
    /\ timer = "off" /\ tid_rxseq = NoSeq /\ bDriverStopped = FALSE
    /\ free_recvframe_cnt = NR_RECVFRAME
    /\ sta = "alloc" /\ rpc = "idle" /\ rframe = NoFrame /\ hpc = "idle"
    /\ released = << >>
    /\ agree = FALSE /\ wstart = 0 /\ heard = NoFrame
-----------------------------------------------------------------------------
(***************************************************************************)
(* The arithmetic of sequence numbers.                                     *)
(***************************************************************************)

\* (((a-b)&0x800)!=0); 0xffff has the low twelve bits of -1.
SN_LESS(a, b) == (a - b) % M >= HALF

\* The new window start when s is beyond the end: seq_num + 1 - wsize, with
\* the "boundary situation, when seq_num cross 0xFFF".
WindowStart(s) ==
    IF s >= wsize_b - 1 THEN s + 1 - wsize_b
                        ELSE (M - 1) - (wsize_b - (s + 1)) + 1

\* "Rx Reorder initialize condition".
FirstStart(s) == IF indicate_seq = NoSeq THEN s ELSE indicate_seq

\* check_indicate_seq: the start of the window after frame number s has come,
\* ind being the start before it; the frame is dropped when SN_LESS(s, ind).
check_indicate_seq(s) ==
    LET wend == (indicate_seq + wsize_b - 1) % M
        ind == FirstStart(s)
    IN  IF s = ind THEN (ind + 1) % M
        ELSE IF SN_LESS(wend, s) THEN WindowStart(s) ELSE ind

\* enqueue_reorder_recvframe: where the walk along the list stops.
InsertAt(s) ==
    CHOOSE k \in 1 .. Len(pending) + 1 :
        /\ \A j \in 1 .. k - 1 : SN_LESS(Sn(pending[j]), s)
        /\ k <= Len(pending) => ~ SN_LESS(Sn(pending[k]), s)
Duplicate(s) ==
    LET k == InsertAt(s) IN k <= Len(pending) /\ Sn(pending[k]) = s

\* Mutant: the frame goes to the end of the list.
InsertLast(n) == Append(pending, n)

Insert(n) ==
    LET k == InsertAt(Sn(n))
    IN  SubSeq(pending, 1, k - 1) \o <<n>> \o SubSeq(pending, k, Len(pending))

\* The loop of recv_indicatepkts_in_order on the list q: the window start
\* after its first k frames are taken, and how many are taken.
Bump(ind, n) == IF ind = Sn(n) THEN (ind + 1) % M ELSE ind
StartAfter(ind, q) ==
    LET a[k \in 0 .. Len(q)] == IF k = 0 THEN ind ELSE Bump(a[k - 1], q[k])
    IN  a
Ready(ind, q) ==
    CHOOSE k \in 0 .. Len(q) :
        /\ \A j \in 1 .. k : ~ SN_LESS(StartAfter(ind, q)[j - 1], Sn(q[j]))
        /\ k < Len(q) => SN_LESS(StartAfter(ind, q)[k], Sn(q[k + 1]))
-----------------------------------------------------------------------------
(***************************************************************************)
(* Frames are released in the order of the list. Indicating one gives it   *)
(* back to the pool (rtw_recv_indicatepkt); one that is released when the  *)
(* driver is stopped is neither indicated nor given back unless it is an   *)
(* A-MSDU (amsdu_to_msdu does not look at the flags).                      *)
(***************************************************************************)
Goes(n) == ~ bDriverStopped \/ n \in Amsdu
Last == IF released = << >> THEN << >> ELSE <<released[Len(released)]>>

Indicate(fs) ==
    /\ released' = IF fs = << >> THEN released ELSE Last \o fs
    /\ free_recvframe_cnt' =
          free_recvframe_cnt + Cardinality({i \in DOMAIN fs : Goes(fs[i])})
-----------------------------------------------------------------------------
(***************************************************************************)
(* The receive tasklet.                                                    *)
(***************************************************************************)

\* The sender transmits (again) a frame of its window; outside an agreement
\* it has one frame at a time.
SendWindow == wstart .. wstart + (IF agree THEN wsize_b ELSE 1) - 1

\* A frame is taken from the pool, the station is found and recv_decache
\* passes it; a frame that repeats the previous one is freed there. The stop
\* flags are looked at once per USB buffer, not once per frame.
RxFrame(n) ==
    /\ rpc = "idle" /\ sta = "alloc" /\ free_recvframe_cnt > 0
    /\ n \in SendWindow \cap Frames /\ Sn(n) # tid_rxseq
    /\ tid_rxseq' = Sn(n)
    /\ free_recvframe_cnt' = free_recvframe_cnt - 1
    /\ rframe' = n /\ rpc' = "frame"
    /\ heard' = IF n > heard /\ n \notin Bypass THEN n ELSE heard
    /\ UNCHANGED <<ctrl, timer, bDriverStopped, sta, hpc, released, agree,
                   wstart>>

\* Frames without QoS, ARP frames and frames with an ack policy go up past
\* the reordering; when the driver is stopped they are lost.
RxBypass ==
    /\ rpc = "frame" /\ rframe \in Bypass
    /\ rpc' = "idle" /\ rframe' = NoFrame
    /\ free_recvframe_cnt' = free_recvframe_cnt + IF bDriverStopped THEN 0 ELSE 1
    /\ UNCHANGED <<ctrl, timer, tid_rxseq, bDriverStopped, sta, hpc, released,
                   sender>>

\* What an unlocked write of indicate_seq leaves while the timer handler is
\* in its loop: the handler's own update may overwrite it.
Raced(v) == IF hpc = "loop" THEN {v, indicate_seq} ELSE {v}

\* No agreement: indicate_seq = seq_num ...
RxDirect ==
    /\ rpc = "frame" /\ rframe \notin Bypass /\ ~ enable
    /\ rpc' = "direct"
    /\ indicate_seq' \in Raced(Sn(rframe))
    /\ UNCHANGED <<enable, pending, timer, bDriverStopped, free_recvframe_cnt,
                   sta, rframe, tid_rxseq, hpc, released, sender>>

\* ... the frame is indicated, stopped or not, and indicate_seq incremented.
RxDirectIndicate ==
    /\ rpc = "direct"
    /\ rpc' = "idle" /\ rframe' = NoFrame
    /\ released' = Append(Last, rframe)
    /\ free_recvframe_cnt' = free_recvframe_cnt + 1
    /\ indicate_seq' \in Raced((indicate_seq + 1) % M)
    /\ UNCHANGED <<enable, pending, timer, bDriverStopped, sta, tid_rxseq, hpc,
                   sender>>

LockFree == hpc # "loop"

\* Mutant: a refused frame is not freed.
RxRefuseLeak(ind) ==
    /\ rpc' = "idle" /\ rframe' = NoFrame /\ indicate_seq' = ind
    /\ UNCHANGED <<enable, pending, timer, bDriverStopped, free_recvframe_cnt, sta,
                   tid_rxseq, hpc, released, sender>>

\* _err_exit: recv_func_posthandle frees the frame unless the driver is
\* stopped, when process_recv_indicatepkts calls it a success.
RxRefuse(ind) ==
    /\ rpc' = "idle" /\ rframe' = NoFrame
    /\ indicate_seq' = ind
    /\ free_recvframe_cnt' = free_recvframe_cnt + IF bDriverStopped THEN 0 ELSE 1
    /\ UNCHANGED <<enable, pending, timer, bDriverStopped, sta, tid_rxseq, hpc,
                   released, sender>>

\* Mutant: the timer is only set when it is not already running a hole.
RxAcceptNoTimer(ind) ==
    LET q == Insert(rframe)
        k == Ready(ind, q)
    IN  /\ indicate_seq' = StartAfter(ind, q)[k]
        /\ pending' = SubSeq(q, k + 1, Len(q))
        /\ Indicate(SubSeq(q, 1, k))
        /\ rframe' = NoFrame
        /\ rpc' = IF k < Len(q) THEN "idle" ELSE "del_timer"
        /\ timer' = IF k = 0 THEN timer ELSE "armed"
        /\ UNCHANGED <<enable, bDriverStopped, sta, tid_rxseq, hpc, sender>>

\* s3 and s4: the frame is inserted and what is in order is indicated; with
\* frames left the timer is set, otherwise deleted after the unlock.
RxAccept(ind) ==
    LET q == Insert(rframe)
        k == Ready(ind, q)
    IN  /\ indicate_seq' = StartAfter(ind, q)[k]
        /\ pending' = SubSeq(q, k + 1, Len(q))
        /\ Indicate(SubSeq(q, 1, k))
        /\ rframe' = NoFrame
        /\ IF k < Len(q)
             THEN timer' = "armed" /\ rpc' = "idle"
             ELSE UNCHANGED timer /\ rpc' = "del_timer"
        /\ UNCHANGED <<enable, bDriverStopped, sta, tid_rxseq, hpc, sender>>

RxReorder ==
    /\ rpc = "frame" /\ rframe \notin Bypass /\ enable /\ LockFree
    /\ LET s == Sn(rframe)
       IN  IF SN_LESS(s, FirstStart(s))
             THEN RxRefuse(FirstStart(s))
             ELSE IF Duplicate(s)
               THEN RxRefuse(check_indicate_seq(s))
               ELSE RxAccept(check_indicate_seq(s))

\* del_timer_sync waits for a running handler and removes the timer.
RxDelTimer ==
    /\ rpc = "del_timer" /\ hpc = "idle"
    /\ timer' = "off" /\ rpc' = "idle"
    /\ UNCHANGED <<ctrl, bDriverStopped, free_recvframe_cnt, sta, rframe,
                   tid_rxseq, hpc, released, sender>>

\* OnAction_back: ADDBA request (process_addba_req). Its starting sequence
\* number, which the driver ignores, is beyond every frame sent before.
OnAddba ==
    /\ rpc = "idle" /\ sta = "alloc" /\ ~ agree /\ heard < wstart
    /\ indicate_seq' \in Raced(NoSeq)
    /\ enable' = bAcceptAddbaReq /\ agree' = bAcceptAddbaReq
    /\ UNCHANGED <<pending, timer, bDriverStopped, free_recvframe_cnt, sta,
                   tasklet, hpc, released, wstart, heard>>

\* OnAction_back: DELBA of the originator.
OnDelba ==
    /\ Delba /\ rpc = "idle" /\ sta = "alloc" /\ agree
    /\ indicate_seq' \in Raced(NoSeq)
    /\ enable' = FALSE /\ agree' = FALSE
    /\ UNCHANGED <<pending, timer, bDriverStopped, free_recvframe_cnt, sta,
                   tasklet, hpc, released, wstart, heard>>

Tasklet ==
    \/ RxBypass \/ RxDirect \/ RxDirectIndicate \/ RxReorder \/ RxDelTimer
-----------------------------------------------------------------------------
(***************************************************************************)
(* rtw_reordering_ctrl_timeout_handler.                                    *)
(***************************************************************************)
TimerFire ==
    /\ timer = "armed" /\ hpc = "idle"
    /\ timer' = "off"
    /\ hpc' = IF bDriverStopped THEN "idle" ELSE "lock"
    /\ UNCHANGED <<ctrl, bDriverStopped, free_recvframe_cnt, sta, tasklet,
                   released, sender>>

\* Mutant: a forced indication does not move the window to the first frame.
TimerLockNotForced ==
    /\ hpc = "lock"
    /\ IF pending = << >>
         THEN timer' = "armed" /\ hpc' = "idle"
         ELSE hpc' = "loop" /\ UNCHANGED timer
    /\ UNCHANGED <<enable, pending, indicate_seq, bDriverStopped, free_recvframe_cnt, sta,
                   tasklet, released, sender>>

\* Under the lock, forced: an empty list returns true, so the timer is set
\* again; otherwise the window moves to the first frame.
TimerLock ==
    /\ hpc = "lock"
    /\ IF pending = << >>
         THEN timer' = "armed" /\ hpc' = "idle" /\ UNCHANGED indicate_seq
         ELSE hpc' = "loop" /\ indicate_seq' = Sn(Head(pending)) /\ UNCHANGED timer
    /\ UNCHANGED <<enable, pending, bDriverStopped, free_recvframe_cnt, sta,
                   tasklet, released, sender>>

\* One round of the loop, the lock held.
TimerLoop ==
    /\ hpc = "loop"
    /\ IF pending = << >>
         THEN hpc' = "idle" /\ UNCHANGED <<ctrl, timer, released, free_recvframe_cnt>>
         ELSE IF SN_LESS(indicate_seq, Sn(Head(pending)))
           THEN /\ hpc' = "idle" /\ timer' = "armed"
                /\ UNCHANGED <<ctrl, released, free_recvframe_cnt>>
           ELSE /\ pending' = Tail(pending)
                /\ indicate_seq' = Bump(indicate_seq, Head(pending))
                /\ Indicate(<<Head(pending)>>)
                /\ UNCHANGED <<enable, timer, hpc>>
    /\ UNCHANGED <<bDriverStopped, sta, tasklet, sender>>
-----------------------------------------------------------------------------
(***************************************************************************)
(* rtw_free_stainfo, from the command thread or an ioctl.                  *)
(***************************************************************************)
FreeUnhash ==
    /\ Teardown /\ sta = "alloc"
    /\ sta' = "unhashed" /\ agree' = FALSE
    /\ UNCHANGED <<ctrl, timer, bDriverStopped, free_recvframe_cnt, tasklet, hpc,
                   released, wstart, heard>>

FreeDelTimer ==
    /\ sta = "unhashed" /\ hpc = "idle"
    /\ timer' = "off" /\ sta' = "timer_off"
    /\ UNCHANGED <<ctrl, bDriverStopped, free_recvframe_cnt, tasklet, hpc,
                   released, sender>>

FreePending ==
    /\ sta = "timer_off" /\ LockFree
    /\ free_recvframe_cnt' = free_recvframe_cnt + Len(pending)
    /\ pending' = << >> /\ sta' = "free"
    /\ UNCHANGED <<enable, indicate_seq, timer, bDriverStopped, tasklet, hpc,
                   released, sender>>

\* rtw_alloc_stainfo for the next association initialises everything.
AllocSta ==
    /\ sta = "free"
    /\ sta' = "alloc" /\ enable' = FALSE /\ indicate_seq' = NoSeq
    /\ pending' = << >> /\ timer' = "off" /\ tid_rxseq' = NoSeq
    /\ UNCHANGED <<bDriverStopped, free_recvframe_cnt, rpc, rframe, hpc,
                   released, sender>>
-----------------------------------------------------------------------------
\* The driver is stopped (bDriverStopped or bSurpriseRemoved).
Stop ==
    /\ ~ bDriverStopped /\ bDriverStopped' = TRUE
    /\ UNCHANGED <<ctrl, timer, free_recvframe_cnt, sta, tasklet, hpc, released,
                   sender>>

\* The sender's first frame is acknowledged or given up.
SenderAdvances ==
    /\ wstart <= heard + MaxLoss /\ wstart <= MaxSeq
    /\ wstart' = wstart + 1
    /\ UNCHANGED <<ctrl, timer, bDriverStopped, free_recvframe_cnt, sta, tasklet,
                   hpc, released, agree, heard>>

Next ==
    \/ \E n \in Frames : RxFrame(n)
    \/ Tasklet
    \/ OnAddba
    \/ OnDelba
    \/ TimerFire
    \/ TimerLock
    \/ TimerLoop
    \/ FreeUnhash
    \/ FreeDelTimer
    \/ FreePending
    \/ AllocSta
    \/ Stop
    \/ SenderAdvances

Spec == Init /\ [][Next]_vars

\* A tasklet, a timer handler and a teardown that run finish, and a set timer
\* expires.
FairSpec ==
    /\ Spec
    /\ WF_vars(Tasklet)
    /\ WF_vars(TimerFire)
    /\ WF_vars(TimerLock \/ TimerLoop)
    /\ WF_vars(FreeDelTimer \/ FreePending)
-----------------------------------------------------------------------------
(***************************************************************************)
(* Properties.                                                             *)
(***************************************************************************)

\* "Insert all packet into Reorder Queue to maintain its ordering"
\* (recv_indicatepkt_reorder): frames reach the stack in the order of their
\* transmission and none reaches it twice, across wraps of the sequence
\* space, retransmissions, losses and timeouts.
InOrder == \A i, j \in DOMAIN released : i < j => released[i] < released[j]

\* "Drop out the packet which SeqNum is smaller than WinStart": the frame
\* that check_indicate_seq is about to drop is really old, one of its number
\* or a later one has been released.
DropsOnlyOld ==
    LET s == Sn(rframe)
    IN  /\ rpc = "frame" /\ rframe \notin Bypass /\ enable
        /\ LockFree /\ SN_LESS(s, FirstStart(s))
        =>
           released # << >> /\ rframe <= released[Len(released)]

\* The list is sorted and fits in the window behind the hole: when nobody is
\* working on it, less than wsize_b frames are held back and all of them are
\* ahead of indicate_seq.
WindowOK ==
    LockFree =>
        /\ \A i, j \in DOMAIN pending : i < j => pending[i] < pending[j]
        /\ Len(pending) < wsize_b
        /\ \A i \in DOMAIN pending :
              indicate_seq # NoSeq /\ SN_LESS(indicate_seq, Sn(pending[i]))

\* Frames that are held back have a timer that will release them, or its
\* handler is at work: no order of the tasklet's del_timer_sync, the
\* handler and a new hole leaves frames without a timer.
NoStuckFrame ==
    pending # << >> /\ sta = "alloc" /\ ~ bDriverStopped => timer = "armed" \/ hpc # "idle"

\* Every frame of the pool is free, in the list or in the tasklet's hands:
\* refused, indicated and torn down frames all come back.
PoolConserved ==
    ~ bDriverStopped =>
        free_recvframe_cnt + Len(pending) + (IF rframe = NoFrame THEN 0 ELSE 1)
            = NR_RECVFRAME

Held(n) == \E i \in DOMAIN pending : pending[i] = n

\* A frame that is held back is released in the end, whether or not the hole
\* in front of it is ever filled, provided the peer does not end and renew
\* the agreement for ever: each DELBA may reset indicate_seq while the timer
\* handler is in its loop, which then stops with the frame still held.
HeldReleased ==
    <>[]agree \/ <>[](~ agree) =>
        \A n \in Frames : Held(n) ~> ~ Held(n) \/ bDriverStopped

\* Frames of an agreement reach the stack in the order of their transmission
\* and none twice, and only old ones are dropped, across a wrap of the sequence
\* space, retransmissions, losses and timeouts (recv_indicatepkt_reorder,
\* check_indicate_seq, enqueue_reorder_recvframe).
ReorderRight == InOrder /\ DropsOnlyOld

\* The control of a TID stays in range, and the frames held back are sorted,
\* fit in the window and come back to the pool (recv_indicatepkts_in_order,
\* rtw_free_recvframe).
HeldSound == TypeOK /\ WindowOK /\ PoolConserved
=============================================================================
