------------------------------ MODULE DataProofs ------------------------------
(***************************************************************************)
(* Theorems about the receive side of the USB transport, RxUrb, about the  *)
(* transmit path, XmitPath, and about the receive path, RecvPath.          *)
(*                                                                         *)
(* That an skb has one owner is not inductive: a completion queues the skb *)
(* in front of its URB, so a submitted URB must have one, and the thread   *)
(* that frees the receive side must find every URB idle (RxCtlOK).         *)
(*                                                                         *)
(* That a waiting frame has somebody who will send it is not inductive     *)
(* either: pre_xmitframe queues a frame when no buffer is free, and then   *)
(* one of the buffers must be with the chip.  BufsHeld says who holds the  *)
(* others, and QueuesListed that the tasklet finds the frame.              *)
(*                                                                         *)
(* That frames are aggregated under an agreement needs a count: how far    *)
(* the numbers are ahead of its start is bounded by the packets of which   *)
(* no frame of that queue is left without a number (SeqsCounted).          *)
(*                                                                         *)
(* That a receive frame is in one list needs the frame recv_func holds     *)
(* between two steps to be in none (RpInv).                                *)
(***************************************************************************)
EXTENDS RxUrb, XmitPath, RecvPath, FiniteSetTheorems, SequenceTheorems, WellFoundedInduction, TLAPS

\* A non-empty set of naturals has a least element: what the CHOOSEs of FirstOf
\* and FirstListed need.
LEMMA LeastNat ==
  ASSUME NEW T \in SUBSET Nat, T # {}
  PROVE  \E k \in T : \A j \in T : ~ (j < k)
  <1>1. \E k \in T : \A j \in T : ~ (<<j, k>> \in OpToRel(<, Nat))
    BY NatLessThanWellFounded, WFMin
  <1> QED
    BY <1>1 DEF OpToRel


\* Appending to a queue: its elements and the new one, distinct when the new
\* one is not in it.
LEMMA AppendDistinct ==
  ASSUME NEW S, NEW q \in Seq(S), NEW s \in S
  PROVE  /\ Append(q, s) \in Seq(S) /\ Range(Append(q, s)) = Range(q) \cup {s}
         /\ IsInjective(q) /\ s \notin Range(q) => IsInjective(Append(q, s))
  <1> DEFINE t == Append(q, s)
  <1>1. /\ t \in Seq(S) /\ Len(t) = Len(q) + 1 /\ Len(q) \in Nat
        /\ DOMAIN q = 1 .. Len(q) /\ DOMAIN t = 1 .. Len(q) + 1
        /\ \A i \in 1 .. Len(q) : t[i] = q[i]
        /\ t[Len(q) + 1] = s
    OBVIOUS
  <1> HIDE DEF t
  <1>2. Range(t) \subseteq Range(q) \cup {s}
    <2> SUFFICES ASSUME NEW i \in DOMAIN t PROVE t[i] \in Range(q) \cup {s}
      BY DEF Range
    <2>1. i \in 1 .. Len(q) \/ i = Len(q) + 1
      BY <1>1
    <2> QED
      BY <1>1, <2>1 DEF Range
  <1>3. Range(q) \cup {s} \subseteq Range(t)
    <2>1. ASSUME NEW i \in DOMAIN q PROVE q[i] \in Range(t)
      <3>1. i \in DOMAIN t /\ t[i] = q[i]
        BY <1>1
      <3> QED
        BY <3>1 DEF Range
    <2>2. s \in Range(t)
      <3>1. Len(q) + 1 \in DOMAIN t
        BY <1>1
      <3> QED
        BY <1>1, <3>1 DEF Range
    <2> QED
      BY <2>1, <2>2 DEF Range
  <1>4. ASSUME IsInjective(q), s \notin Range(q) PROVE IsInjective(t)
    <2> SUFFICES ASSUME NEW i \in DOMAIN t, NEW j \in DOMAIN t, t[i] = t[j] PROVE i = j
      BY DEF IsInjective
    <2>1. \A k \in DOMAIN q : q[k] # s
      BY <1>4 DEF Range
    <2>2. (i \in 1 .. Len(q) \/ i = Len(q) + 1) /\ (j \in 1 .. Len(q) \/ j = Len(q) + 1)
      BY <1>1
    <2> QED
      BY <1>1, <1>4, <2>1, <2>2 DEF IsInjective
  <1> QED
    BY <1>1, <1>2, <1>3, <1>4 DEF t

\* Taking the head of a queue, which is not in the rest when its elements are
\* distinct.
LEMMA TailDistinct ==
  ASSUME NEW S, NEW q \in Seq(S), q # << >>
  PROVE  /\ Tail(q) \in Seq(S) /\ Head(q) \in S /\ Head(q) \in Range(q)
         /\ Range(Tail(q)) \subseteq Range(q) /\ Range(q) = Range(Tail(q)) \cup {Head(q)}
         /\ IsInjective(q) => IsInjective(Tail(q)) /\ Head(q) \notin Range(Tail(q))
  <1> DEFINE t == Tail(q)
  <1>1. /\ t \in Seq(S) /\ Len(t) = Len(q) - 1 /\ Len(q) \in Nat /\ Len(q) >= 1
        /\ DOMAIN q = 1 .. Len(q) /\ DOMAIN t = 1 .. Len(q) - 1
        /\ \A i \in 1 .. Len(q) - 1 : t[i] = q[i + 1]
        /\ Head(q) = q[1] /\ 1 \in DOMAIN q
    OBVIOUS
  <1> HIDE DEF t
  <1>2. Head(q) \in Range(q) /\ Head(q) \in S
    BY <1>1 DEF Range
  <1>3. Range(t) \subseteq Range(q)
    <2> SUFFICES ASSUME NEW i \in DOMAIN t PROVE t[i] \in Range(q)
      BY DEF Range
    <2>1. i + 1 \in DOMAIN q /\ t[i] = q[i + 1]
      BY <1>1
    <2> QED
      BY <2>1 DEF Range
  <1>4. ASSUME IsInjective(q) PROVE IsInjective(t) /\ Head(q) \notin Range(t)
    <2>1. ASSUME NEW i \in DOMAIN t, NEW j \in DOMAIN t, t[i] = t[j] PROVE i = j
      <3>1. i + 1 \in DOMAIN q /\ j + 1 \in DOMAIN q /\ q[i + 1] = q[j + 1] /\ i \in Nat /\ j \in Nat
        BY <1>1, <2>1
      <3>2. i + 1 = j + 1
        BY <1>4, <3>1 DEF IsInjective
      <3> QED
        BY <3>1, <3>2
    <2>2. ASSUME NEW i \in DOMAIN t PROVE t[i] # Head(q)
      <3>1. i + 1 \in DOMAIN q /\ t[i] = q[i + 1] /\ i + 1 # 1
        BY <1>1
      <3> QED
        BY <1>1, <1>4, <3>1 DEF IsInjective
    <2> QED
      BY <2>1, <2>2 DEF IsInjective, Range
  <1>5. Range(q) \subseteq Range(t) \cup {Head(q)}
    <2> SUFFICES ASSUME NEW i \in DOMAIN q, i # 1 PROVE q[i] \in Range(t)
      BY <1>1 DEF Range
    <2>1. i - 1 \in DOMAIN t /\ (i - 1) + 1 = i
      BY <1>1
    <2>2. t[i - 1] = q[i]
      BY <1>1, <2>1
    <2> QED
      BY <2>1, <2>2 DEF Range
  <1> QED
    BY <1>1, <1>2, <1>3, <1>4, <1>5 DEF t
-----------------------------------------------------------------------------
(* The receive side *)

\* What the owners of an skb rest on: a submitted URB has one; only the thread
\* that kills the URBs rejects submissions; the URBs it is done with are idle.
RxCtlOK ==
    /\ rxCtl.left \subseteq RxBufs
    /\ rxCtl.at = "start" => rxCtl.left # {}
    /\ reject # {} => rxCtl.at = "kill"
    /\ rxCtl.at = "kill" => \A b \in RxBufs \ rxCtl.left : urb[b] = "idle"
    /\ rxCtl.at \in {"down", "gone"} => \A b \in RxBufs : urb[b] = "idle"
    /\ \A b \in RxBufs : urb[b] = "out" => bufSkb[b] # NoSkb

\* The inductive invariant of the receive side.
RxInv == RxDataSafe /\ RxCtlOK
-----------------------------------------------------------------------------
\* The loop of usb_intf_start takes a buffer that is still left.
LEMMA FirstOfType ==
  ASSUME NEW bufs \in SUBSET RxBufs, bufs # {}
  PROVE  FirstOf(bufs) \in bufs
  <1>1. bufs \in SUBSET Nat
    BY RxAssumption
  <1>2. \E b \in bufs : \A c \in bufs : ~ (c < b)
    BY <1>1, LeastNat
  <1>3. \E b \in bufs : \A c \in bufs : b <= c
    BY <1>1, <1>2
  <1> QED
    BY <1>3 DEF FirstOf

\* _rtl_usb_receive: the skb in front of a URB, the old one, a preallocated or
\* a new one, has no other owner, and only the URB of b changes.
LEMMA SubmitOnce ==
  ASSUME RxTypeOK, SkbOnce, NEW b \in RxBufs, _rtl_usb_receive(b), UNCHANGED <<rxSkbs, rxTask>>
  PROVE  /\ SkbOnce' /\ freeSkbs' \in Seq(Skbs) /\ bufSkb' \in [RxBufs -> Skbs \cup {NoSkb}]
         /\ reuse' \in [RxBufs -> BOOLEAN]
         /\ urb' \in [RxBufs -> {"idle", "out", "cb"}]
         /\ \A c \in RxBufs \ {b} : urb'[c] = urb[c] /\ bufSkb'[c] = bufSkb[c]
         /\ urb'[b] \in {"idle", "out"}
         /\ urb'[b] = "out" => bufSkb'[b] # NoSkb /\ b \notin reject
  <1>0. /\ urb \in [RxBufs -> {"idle", "out", "cb"}]
        /\ bufSkb \in [RxBufs -> Skbs \cup {NoSkb}] /\ reuse \in [RxBufs -> BOOLEAN]
        /\ rxSkbs \in Seq(Skbs) /\ freeSkbs \in Seq(Skbs) /\ NoSkb \notin Skbs
    BY RxAssumption DEF RxTypeOK
  <1>1. CASE RxStopped
    <2>1. urb' = [urb EXCEPT ![b] = "idle"] /\ UNCHANGED <<bufSkb, reuse, freeSkbs>>
      BY <1>1 DEF _rtl_usb_receive
    <2> QED
      BY <1>0, <2>1 DEF SkbOnce
  <1>2. CASE ~ RxStopped
    <2>1. PICK s \in Skbs \cup {NoSkb} :
            /\ NextSkb(b, s)
            /\ bufSkb' = [bufSkb EXCEPT ![b] = s]
            /\ reuse' = [reuse EXCEPT ![b] = FALSE]
            /\ \E ok \in {TRUE, FALSE} :
                 /\ ok => s # NoSkb /\ b \notin reject
                 /\ urb' = [urb EXCEPT ![b] = IF ok THEN "out" ELSE "idle"]
      BY <1>2 DEF _rtl_usb_receive
    <2>2. bufSkb'[b] = s /\ \A c \in RxBufs \ {b} : bufSkb'[c] = bufSkb[c]
      BY <1>0, <2>1
    <2>3. /\ freeSkbs' \in Seq(Skbs) /\ IsInjective(freeSkbs') /\ Range(freeSkbs') \subseteq Range(freeSkbs)
          /\ s # NoSkb => /\ s \notin Range(rxSkbs) \cup Range(freeSkbs') \cup {rxTask.skb}
                          /\ \A c \in RxBufs \ {b} : bufSkb[c] # s
      <3>1. CASE KeepsSkb(b) /\ s = bufSkb[b] /\ UNCHANGED freeSkbs
        BY <1>0, <3>1 DEF SkbOnce
      <3>2. CASE freeSkbs # << >> /\ s = Head(freeSkbs) /\ freeSkbs' = Tail(freeSkbs)
        <4>1. /\ freeSkbs' \in Seq(Skbs) /\ s \in Range(freeSkbs)
              /\ Range(freeSkbs') \subseteq Range(freeSkbs)
              /\ IsInjective(freeSkbs') /\ s \notin Range(freeSkbs')
          BY <1>0, <3>2, TailDistinct DEF SkbOnce
        <4> QED
          BY <4>1 DEF SkbOnce
      <3>3. CASE freeSkbs = << >> /\ s \in NewSkb /\ UNCHANGED freeSkbs
        <4>1. s # NoSkb => s \in Unused
          BY <3>3 DEF NewSkb
        <4>2. s # NoSkb => s \notin SkbsHeld
          BY <4>1 DEF Unused
        <4> QED
          BY <1>0, <3>3, <4>2 DEF SkbOnce, SkbsHeld
      <3> QED
        BY <2>1, <3>1, <3>2, <3>3 DEF NextSkb
    <2>4. /\ urb' \in [RxBufs -> {"idle", "out", "cb"}] /\ bufSkb' \in [RxBufs -> Skbs \cup {NoSkb}]
          /\ reuse' \in [RxBufs -> BOOLEAN]
          /\ \A c \in RxBufs \ {b} : urb'[c] = urb[c]
          /\ urb'[b] \in {"idle", "out"}
          /\ urb'[b] = "out" => bufSkb'[b] # NoSkb /\ b \notin reject
      BY <1>0, <2>1, <2>2
    <2>5. SkbOnce'
      BY <2>2, <2>3 DEF SkbOnce
    <2> QED
      BY <2>2, <2>3, <2>4, <2>5
  <1> QED
    BY <1>1, <1>2

\* No step of the completions, the tasklet or the stopping thread leaves the
\* invariant.
LEMMA RxStep ==
  ASSUME RxInv, [RxNext]_rxVars
  PROVE  RxInv'
  <1>0. /\ urb \in [RxBufs -> {"idle", "out", "cb"}]
        /\ bufSkb \in [RxBufs -> Skbs \cup {NoSkb}] /\ reuse \in [RxBufs -> BOOLEAN]
        /\ rxSkbs \in Seq(Skbs) /\ freeSkbs \in Seq(Skbs) /\ NoSkb \notin Skbs
        /\ rxTask \in [sched : BOOLEAN, run : BOOLEAN, skb : Skbs \cup {NoSkb}]
        /\ reject \subseteq RxBufs
        /\ rxCtl \in [at : {"start", "up", "kill", "down", "gone"}, left : SUBSET RxBufs, ips : BOOLEAN]
        /\ RxTypeOK /\ SkbOnce /\ DataServed /\ RxCtlOK
    BY RxAssumption DEF RxInv, RxDataSafe, RxTypeOK
  <1>1. ASSUME NEW b \in RxBufs, _rtl_rx_complete(b) PROVE RxInv'
    <2>0. urb[b] = "out" /\ UNCHANGED <<freeSkbs, reject, rxCtl, stranded>>
      BY <1>1 DEF _rtl_rx_complete
    <2>1. /\ urb' \in [RxBufs -> {"idle", "out", "cb"}] /\ urb'[b] # "out"
          /\ \A c \in RxBufs \ {b} : urb'[c] = urb[c]
          /\ reuse' \in [RxBufs -> BOOLEAN]
      BY <1>0, <1>1 DEF _rtl_rx_complete, CbQueueSkb
    <2>2. CASE UNCHANGED <<bufSkb, rxSkbs, rxTask>>
      <3>1. RxTypeOK' /\ SkbOnce' /\ DataServed'
        BY <1>0, <2>0, <2>1, <2>2 DEF RxTypeOK, SkbOnce, DataServed
      <3>2. RxCtlOK'
        BY <1>0, <2>0, <2>1, <2>2 DEF RxCtlOK
      <3> QED
        BY <3>1, <3>2 DEF RxInv, RxDataSafe
    <2>3. CASE CbQueueSkb(b)
      <3> DEFINE s == bufSkb[b]
      <3>1. s \in Skbs /\ s \notin Range(rxSkbs) \cup Range(freeSkbs) \cup {rxTask.skb}
        BY <1>0, <2>0 DEF RxCtlOK, SkbOnce
      <3>2. /\ rxSkbs' \in Seq(Skbs) /\ Range(rxSkbs') = Range(rxSkbs) \cup {s}
            /\ IsInjective(rxSkbs')
        BY <1>0, <2>3, <3>1, AppendDistinct DEF CbQueueSkb, SkbOnce
      <3>3. /\ bufSkb' \in [RxBufs -> Skbs \cup {NoSkb}] /\ bufSkb'[b] = NoSkb
            /\ \A c \in RxBufs \ {b} : bufSkb'[c] = bufSkb[c]
            /\ rxTask'.skb = rxTask.skb /\ rxTask'.run = rxTask.run
            /\ rxTask' \in [sched : BOOLEAN, run : BOOLEAN, skb : Skbs \cup {NoSkb}]
            /\ rxTask'.sched = (rxTask.sched \/ Len(rxSkbs') <= 1)
        BY <1>0, <2>3 DEF CbQueueSkb
      <3>4. RxTypeOK'
        BY <1>0, <2>0, <2>1, <3>2, <3>3 DEF RxTypeOK
      <3>5. SkbOnce'
        BY <1>0, <2>0, <3>1, <3>2, <3>3 DEF SkbOnce
      <3>6. DataServed'
        <4>1. rxSkbs # << >> \/ Len(rxSkbs') <= 1
          BY <1>0, <2>3 DEF CbQueueSkb
        <4> QED
          BY <1>0, <2>0, <3>3, <4>1 DEF DataServed
      <3>7. RxCtlOK'
        <4>1. \A c \in RxBufs : urb'[c] = "out" => bufSkb'[c] # NoSkb
          BY <1>0, <2>1, <3>3 DEF RxCtlOK
        <4>2. \A c \in RxBufs : urb[c] = "idle" => urb'[c] = "idle"
          BY <2>0, <2>1
        <4> QED
          BY <1>0, <2>0, <4>1, <4>2 DEF RxCtlOK
      <3> QED
        BY <3>4, <3>5, <3>6, <3>7 DEF RxInv, RxDataSafe
    <2> QED
      BY <1>1, <2>2, <2>3 DEF _rtl_rx_complete
  <1>2. ASSUME NEW b \in RxBufs, Resubmit(b) PROVE RxInv'
    <2>1. /\ urb[b] = "cb" /\ _rtl_usb_receive(b)
          /\ UNCHANGED <<rxSkbs, rxTask, rxCtl, reject, stranded>>
      BY <1>2 DEF Resubmit, rxSide
    <2>2. /\ SkbOnce' /\ freeSkbs' \in Seq(Skbs) /\ bufSkb' \in [RxBufs -> Skbs \cup {NoSkb}]
          /\ reuse' \in [RxBufs -> BOOLEAN]
          /\ urb' \in [RxBufs -> {"idle", "out", "cb"}]
          /\ \A c \in RxBufs \ {b} : urb'[c] = urb[c] /\ bufSkb'[c] = bufSkb[c]
          /\ urb'[b] \in {"idle", "out"}
          /\ urb'[b] = "out" => bufSkb'[b] # NoSkb /\ b \notin reject
      BY <1>0, <2>1, SubmitOnce
    <2>3. RxTypeOK' /\ DataServed'
      BY <1>0, <2>1, <2>2 DEF RxTypeOK, DataServed
    <2>4. RxCtlOK'
      BY <1>0, <2>1, <2>2 DEF RxCtlOK
    <2> QED
      BY <2>2, <2>3, <2>4 DEF RxInv, RxDataSafe
  <1>3. CASE usb_intf_start
    <2>1. rxCtl.at = "start" /\ rxCtl.left \subseteq RxBufs /\ rxCtl.left # {}
      BY <1>0, <1>3 DEF usb_intf_start, RxCtlOK
    <2>2. PICK b \in RxBufs :
            /\ _rtl_usb_receive(b)
            /\ LET left == IF urb'[b] = "out" THEN rxCtl.left \ {b} ELSE {}
               IN  rxCtl' = [rxCtl EXCEPT !.at = IF left = {} THEN "up" ELSE "start", !.left = left]
      BY <1>3, <2>1, FirstOfType DEF usb_intf_start
    <2>3. UNCHANGED <<rxSkbs, rxTask, reject, stranded>>
      BY <1>3 DEF usb_intf_start
    <2>4. /\ SkbOnce' /\ freeSkbs' \in Seq(Skbs) /\ bufSkb' \in [RxBufs -> Skbs \cup {NoSkb}]
          /\ reuse' \in [RxBufs -> BOOLEAN]
          /\ urb' \in [RxBufs -> {"idle", "out", "cb"}]
          /\ \A c \in RxBufs \ {b} : urb'[c] = urb[c] /\ bufSkb'[c] = bufSkb[c]
          /\ urb'[b] \in {"idle", "out"}
          /\ urb'[b] = "out" => bufSkb'[b] # NoSkb /\ b \notin reject
      BY <1>0, <2>2, <2>3, SubmitOnce
    <2>t. rxCtl' \in [at : {"start", "up", "kill", "down", "gone"}, left : SUBSET RxBufs, ips : BOOLEAN]
      BY <1>0, <2>2
    <2>5. RxTypeOK' /\ DataServed'
      BY <1>0, <2>3, <2>4, <2>t DEF RxTypeOK, DataServed
    <2>6. reject = {}
      BY <1>0, <2>1 DEF RxCtlOK
    <2>7. RxCtlOK'
      BY <1>0, <2>1, <2>2, <2>3, <2>4, <2>6 DEF RxCtlOK
    <2> QED
      BY <2>4, <2>5, <2>7 DEF RxInv, RxDataSafe
  <1>4. CASE TaskletStart
    BY <1>0, <1>4 DEF TaskletStart, RxInv, RxDataSafe, RxTypeOK, SkbOnce, DataServed, RxCtlOK
  <1>5. CASE TaskletDequeue
    <2>0. /\ rxTask.run /\ rxTask.skb = NoSkb
          /\ UNCHANGED <<urb, bufSkb, reuse, freeSkbs, rxFlags, reject, rxCtl>>
      BY <1>5 DEF TaskletDequeue
    <2>1. CASE rxSkbs = << >> /\ rxTask' = [rxTask EXCEPT !.run = FALSE] /\ UNCHANGED <<rxSkbs, stranded>>
      BY <1>0, <2>0, <2>1 DEF RxInv, RxDataSafe, RxTypeOK, SkbOnce, DataServed, RxCtlOK
    <2>2. CASE /\ rxSkbs # << >> /\ rxSkbs' = Tail(rxSkbs)
               /\ rxTask' = IF RxStopped THEN [rxTask EXCEPT !.run = FALSE]
                            ELSE [rxTask EXCEPT !.skb = Head(rxSkbs)]
               /\ stranded' = (stranded \/ (RxStopped /\ rxSkbs' # << >>))
      <3>1. /\ rxSkbs' \in Seq(Skbs) /\ Head(rxSkbs) \in Skbs /\ Head(rxSkbs) \in Range(rxSkbs)
            /\ Range(rxSkbs') \subseteq Range(rxSkbs)
            /\ IsInjective(rxSkbs') /\ Head(rxSkbs) \notin Range(rxSkbs')
        BY <1>0, <2>2, TailDistinct DEF SkbOnce
      <3>2. /\ rxTask' \in [sched : BOOLEAN, run : BOOLEAN, skb : Skbs \cup {NoSkb}]
            /\ rxTask'.skb \in {NoSkb, Head(rxSkbs)}
            /\ ~ RxStopped => rxTask'.run
        BY <1>0, <2>0, <2>2, <3>1
      <3>3. NoSkb \notin Range(rxSkbs) \cup Range(freeSkbs)
        BY <1>0, <2>0 DEF SkbOnce
      <3>4. RxTypeOK' /\ RxCtlOK'
        BY <1>0, <2>0, <3>1, <3>2 DEF RxTypeOK, RxCtlOK
      <3>5. SkbOnce'
        BY <1>0, <2>0, <3>1, <3>2, <3>3 DEF SkbOnce
      <3>6. DataServed'
        BY <2>2, <3>2 DEF DataServed
      <3> QED
        BY <3>4, <3>5, <3>6 DEF RxInv, RxDataSafe
    <2> QED
      BY <1>5, <2>1, <2>2 DEF TaskletDequeue
  <1>6. CASE TaskletRecycle
    <2>0. /\ rxTask.skb # NoSkb /\ rxTask.skb \in Skbs
          /\ freeSkbs' = Append(freeSkbs, rxTask.skb)
          /\ rxTask' = [rxTask EXCEPT !.skb = NoSkb]
          /\ UNCHANGED <<urb, bufSkb, reuse, rxSkbs, reject, rxCtl, stranded>>
      BY <1>0, <1>6 DEF TaskletRecycle
    <2>1. /\ freeSkbs' \in Seq(Skbs) /\ Range(freeSkbs') = Range(freeSkbs) \cup {rxTask.skb}
          /\ IsInjective(freeSkbs')
      BY <1>0, <2>0, AppendDistinct DEF SkbOnce
    <2>2. /\ rxTask' \in [sched : BOOLEAN, run : BOOLEAN, skb : Skbs \cup {NoSkb}]
          /\ rxTask'.skb = NoSkb /\ rxTask'.run = rxTask.run /\ rxTask'.sched = rxTask.sched
      BY <1>0, <2>0
    <2>3. NoSkb \notin Range(rxSkbs) \cup Range(freeSkbs')
      <3>1. \A q \in Seq(Skbs) : NoSkb \notin Range(q)
        BY <1>0 DEF Range
      <3> QED
        BY <1>0, <2>1, <3>1
    <2>4. RxTypeOK' /\ RxCtlOK' /\ DataServed'
      BY <1>0, <2>0, <2>1, <2>2 DEF RxTypeOK, RxCtlOK, DataServed
    <2>5. SkbOnce'
      BY <1>0, <2>0, <2>1, <2>2, <2>3 DEF SkbOnce
    <2> QED
      BY <2>4, <2>5 DEF RxInv, RxDataSafe
  <1>7. CASE usb_intf_stop
    <2>1. /\ rxCtl.at = "up" /\ rxCtl'.at = "kill" /\ rxCtl'.left = RxBufs
          /\ UNCHANGED <<urb, bufSkb, reuse, rxSkbs, freeSkbs, rxTask, reject, stranded>>
      BY <1>7 DEF usb_intf_stop
    <2>t. rxCtl' \in [at : {"start", "up", "kill", "down", "gone"}, left : SUBSET RxBufs, ips : BOOLEAN]
      BY <1>0, <1>7 DEF usb_intf_stop
    <2> QED
      BY <1>0, <2>1, <2>t DEF RxInv, RxDataSafe, RxTypeOK, SkbOnce, DataServed, RxCtlOK
  <1>8. ASSUME NEW b \in RxBufs, KillUrb(b) PROVE RxInv'
    <2>1. /\ rxCtl.at = "kill" /\ reject' = {b} /\ reuse' \in [RxBufs -> BOOLEAN]
          /\ UNCHANGED <<urb, bufSkb, rxSkbs, freeSkbs, rxTask, rxCtl, stranded>>
      BY <1>0, <1>8 DEF KillUrb
    <2> QED
      BY <1>0, <2>1 DEF RxInv, RxDataSafe, RxTypeOK, SkbOnce, DataServed, RxCtlOK
  <1>9. ASSUME NEW b \in RxBufs, KillCompletes(b) PROVE RxInv'
    <2>1. /\ urb' \in [RxBufs -> {"idle", "out", "cb"}] /\ urb'[b] = "idle"
          /\ \A c \in RxBufs \ {b} : urb'[c] = urb[c]
          /\ reuse' \in [RxBufs -> BOOLEAN]
          /\ UNCHANGED <<bufSkb, rxSkbs, freeSkbs, rxTask, rxCtl, stranded, reject>>
      BY <1>0, <1>9 DEF KillCompletes
    <2>2. RxTypeOK' /\ SkbOnce' /\ DataServed'
      BY <1>0, <2>1 DEF RxTypeOK, SkbOnce, DataServed
    <2>3. RxCtlOK'
      BY <1>0, <2>1 DEF RxCtlOK
    <2> QED
      BY <2>2, <2>3 DEF RxInv, RxDataSafe
  <1>10. ASSUME NEW b \in RxBufs, UrbKilled(b) PROVE RxInv'
    <2> DEFINE left == rxCtl.left \ {b}
    <2>1. /\ b \in reject /\ urb[b] = "idle" /\ reject' = {}
          /\ rxCtl' = [rxCtl EXCEPT !.at = IF left = {} THEN "down" ELSE "kill", !.left = left]
          /\ UNCHANGED <<urb, bufSkb, reuse, rxSkbs, freeSkbs, rxTask, stranded>>
      BY <1>10 DEF UrbKilled
    <2>2. rxCtl.at = "kill" /\ \A c \in RxBufs \ rxCtl.left : urb[c] = "idle"
      BY <1>0, <2>1 DEF RxCtlOK
    <2>3. rxCtl'.left \subseteq left /\ (rxCtl'.at = "kill" \/ (rxCtl'.at = "down" /\ left = {}))
      BY <2>1
    <2>4. RxTypeOK' /\ SkbOnce' /\ DataServed'
      BY <1>0, <2>1 DEF RxTypeOK, SkbOnce, DataServed
    <2>5. RxCtlOK'
      BY <1>0, <2>1, <2>2, <2>3 DEF RxCtlOK
    <2> QED
      BY <2>4, <2>5 DEF RxInv, RxDataSafe
  <1>11. CASE Reset
    <2>1. /\ rxCtl.at = "down" /\ rxCtl'.at = "start" /\ rxCtl'.left = RxBufs
          /\ UNCHANGED <<urb, bufSkb, reuse, rxSkbs, freeSkbs, rxTask, reject, stranded>>
      BY <1>11 DEF Reset
    <2>t. rxCtl' \in [at : {"start", "up", "kill", "down", "gone"}, left : SUBSET RxBufs, ips : BOOLEAN]
      BY <1>0, <1>11 DEF Reset
    <2> QED
      BY <1>0, <2>1, <2>t, RxAssumption DEF RxInv, RxDataSafe, RxTypeOK, SkbOnce, DataServed, RxCtlOK
  <1>12. CASE rtl8812au_free_recv_priv
    <2>1. /\ rxCtl.at = "down" /\ rxCtl'.at = "gone" /\ rxCtl'.left \subseteq rxCtl.left
          /\ bufSkb' = [b \in RxBufs |-> NoSkb] /\ rxSkbs' = << >> /\ freeSkbs' = << >>
          /\ UNCHANGED <<urb, reuse, rxTask, reject, stranded>>
      BY <1>12 DEF rtl8812au_free_recv_priv
    <2>t. rxCtl' \in [at : {"start", "up", "kill", "down", "gone"}, left : SUBSET RxBufs, ips : BOOLEAN]
      BY <1>0, <1>12 DEF rtl8812au_free_recv_priv
    <2>2. RxTypeOK'
      BY <1>0, <2>1, <2>t DEF RxTypeOK
    <2>3. SkbOnce' /\ DataServed'
      BY <1>0, <2>1 DEF SkbOnce, DataServed, Range, IsInjective
    <2>4. RxCtlOK'
      BY <1>0, <2>1 DEF RxCtlOK
    <2> QED
      BY <2>2, <2>3, <2>4 DEF RxInv, RxDataSafe
  <1>13. CASE UNCHANGED rxVars
    BY <1>0, <1>13 DEF rxVars, RxInv, RxDataSafe, RxTypeOK, SkbOnce, DataServed, RxCtlOK
  <1> QED
    BY <1>1, <1>2, <1>3, <1>4, <1>5, <1>6, <1>7, <1>8, <1>9, <1>10, <1>11, <1>12, <1>13 DEF RxNext

\* However completions, the tasklet, kills of URBs and resumes interleave, an
\* skb has one owner (a URB, rx_skb_queue, the tasklet or the pool of
\* preallocated ones), and what is queued has a tasklet that will take it,
\* unless the tasklet gave up because the driver stopped.
THEOREM SkbsSafe == RxSpec => []RxDataSafe
  <1>1. RxInit => RxInv
    <2> SUFFICES ASSUME RxInit PROVE RxInv
      OBVIOUS
    <2>0. PreallocSkb \in Seq(Skbs) /\ IsInjective(PreallocSkb) /\ NoSkb \notin Skbs /\ RxBufs # {}
      BY RxAssumption
    <2>1. RxTypeOK /\ RxCtlOK /\ DataServed
      BY <2>0 DEF RxInit, rtl8812au_init_recv_priv, RxTypeOK, RxCtlOK, DataServed
    <2>2. /\ rxSkbs = << >> /\ freeSkbs = PreallocSkb /\ rxTask.skb = NoSkb
          /\ \A b \in RxBufs : bufSkb[b] = NoSkb
      BY DEF RxInit, rtl8812au_init_recv_priv
    <2>3. Range(<< >>) = {} /\ IsInjective(<< >>) /\ NoSkb \notin Range(PreallocSkb)
      BY <2>0 DEF Range, IsInjective
    <2>4. SkbOnce
      BY <2>0, <2>2, <2>3 DEF SkbOnce
    <2> QED
      BY <2>1, <2>4 DEF RxInv, RxDataSafe
  <1>2. RxInv /\ [RxNext]_rxVars => RxInv'
    BY RxStep
  <1>3. RxInv => RxDataSafe
    BY DEF RxInv
  <1> QED
    BY <1>1, <1>2, <1>3, PTL DEF RxSpec
-----------------------------------------------------------------------------
(* The transmit path *)

\* list_del_init takes one tx_servq out of a list and leaves the others.
LEMMA DelistedFacts ==
  ASSUME NEW S, NEW list \in Seq(S), IsInjective(list), NEW r \in S
  PROVE  /\ Delisted(list, r) \in Seq(S) /\ IsInjective(Delisted(list, r))
         /\ Range(Delisted(list, r)) = Range(list) \ {r}
  <1>1. CASE r \notin Range(list)
    BY <1>1 DEF Delisted
  <1>2. CASE r \in Range(list)
    <2> DEFINE i == CHOOSE k \in DOMAIN list : list[k] = r
               n == Len(list)
               a == SubSeq(list, 1, i - 1)
               b == SubSeq(list, i + 1, n)
               d == a \o b
    <2>1. i \in DOMAIN list /\ list[i] = r
      BY <1>2 DEF Range
    <2>2. n \in Nat /\ DOMAIN list = 1 .. n /\ i \in 1 .. n /\ i \in Nat /\ \A k \in 1 .. n : list[k] \in S
      BY <2>1
    <2>3. Delisted(list, r) = d
      BY <1>2 DEF Delisted
    <2> HIDE DEF i, n
    <2>4. a \in Seq(S) /\ Len(a) = i - 1 /\ \A k \in 1 .. i - 1 : a[k] = list[k]
      BY <2>2, SubSeqProperties
    <2>5. b \in Seq(S) /\ Len(b) = n - i /\ \A k \in 1 .. n - i : b[k] = list[i + k]
      BY <2>2, SubSeqProperties
    <2> HIDE DEF a, b
    <2>6. /\ d \in Seq(S) /\ Len(d) = Len(a) + Len(b)
          /\ \A k \in 1 .. Len(a) + Len(b) : d[k] = IF k <= Len(a) THEN a[k] ELSE b[k - Len(a)]
      BY <2>4, <2>5, ConcatProperties
    <2> HIDE DEF d
    <2>7. DOMAIN d = 1 .. n - 1 /\ Len(d) = n - 1
      BY <2>2, <2>4, <2>5, <2>6
    <2>8. ASSUME NEW k \in 1 .. n - 1
          PROVE  \/ k < i /\ d[k] = list[k]
                 \/ k >= i /\ d[k] = list[k + 1]
      <3>1. CASE k < i
        <4>1. k \in 1 .. i - 1 /\ k <= i - 1 /\ k \in 1 .. (i - 1) + (n - i)
          BY <2>2, <3>1
        <4>2. d[k] = a[k]
          BY <2>4, <2>5, <2>6, <4>1
        <4>3. a[k] = list[k]
          BY <2>4, <4>1
        <4> QED
          BY <3>1, <4>2, <4>3
      <3>2. CASE k >= i
        <4>1. k - (i - 1) \in 1 .. n - i /\ ~ (k <= i - 1)
          BY <2>2, <3>2
        <4>2. d[k] = b[k - (i - 1)]
          BY <2>2, <2>4, <2>5, <2>6, <4>1
        <4>3. i + (k - (i - 1)) = k + 1
          BY <2>2
        <4> QED
          BY <2>5, <3>2, <4>1, <4>2, <4>3
      <3> QED
        BY <2>2, <3>1, <3>2
    <2>9. IsInjective(d)
      <3> SUFFICES ASSUME NEW j \in 1 .. n - 1, NEW k \in 1 .. n - 1, d[j] = d[k] PROVE j = k
        BY <2>7 DEF IsInjective
      <3>1. j \in DOMAIN list /\ j + 1 \in DOMAIN list /\ k \in DOMAIN list /\ k + 1 \in DOMAIN list
        BY <2>2
      <3> QED
        BY <2>2, <2>8, <3>1 DEF IsInjective
    <2>10. Range(d) \subseteq Range(list) \ {r}
      <3> SUFFICES ASSUME NEW k \in 1 .. n - 1 PROVE d[k] \in Range(list) /\ d[k] # r
        BY <2>7 DEF Range
      <3>1. k \in DOMAIN list /\ k + 1 \in DOMAIN list
        BY <2>2
      <3>2. PICK m \in DOMAIN list : d[k] = list[m] /\ m # i
        BY <2>2, <2>8, <3>1
      <3> QED
        BY <2>1, <3>2 DEF Range, IsInjective
    <2>11. Range(list) \ {r} \subseteq Range(d)
      <3> SUFFICES ASSUME NEW k \in 1 .. n, list[k] # r PROVE list[k] \in Range(d)
        BY <2>2 DEF Range
      <3>1. k # i
        BY <2>1
      <3>2. CASE k < i
        <4>1. k \in 1 .. n - 1 /\ d[k] = list[k]
          BY <2>2, <2>8, <3>2
        <4> QED
          BY <2>7, <4>1 DEF Range
      <3>3. CASE k > i
        <4>1. k - 1 \in 1 .. n - 1 /\ (k - 1) + 1 = k /\ k - 1 >= i
          BY <2>2, <3>3
        <4>2. d[k - 1] = list[k]
          BY <2>2, <2>8, <4>1
        <4> QED
          BY <2>7, <4>1, <4>2 DEF Range
      <3> QED
        BY <2>2, <3>1, <3>2, <3>3
    <2> QED
      BY <2>3, <2>6, <2>9, <2>10, <2>11
  <1> QED
    BY <1>1, <1>2

\* A transmit frame, as update_attrib fills it in.
XpFrame ==
    [to : Rcpts, sub : AcSet, ac : AcSet, special : BOOLEAN,
     enc : {"none"} \cup {n.cipher : n \in XpNets}, sw : BOOLEAN,
     hdr : {24, 26}, iv : {0, 4, 8}, icv : {0, 4, 8}, pktlen : {p.len : p \in XpPkts}]
\* Where the tasklet holds a frame and a buffer.
Busy == {"first", "agg", "send"}

\* The types of what the invariant speaks of.
XpTypeOK ==
    /\ xpNet \in XpNets /\ xpBusy \in {"no", "on", "ends"} /\ xpDry \in BOOLEAN
    /\ xpQ \in [Qs -> Seq(XpFrame)] /\ xpList \in [AcSet -> Seq(Rcpts)]
    /\ xpBuf \in [XpBufs -> {"free", "held", "flight"}]
    /\ xpCall = [c \in XpCallers |-> xpCall[c]]
    /\ \A c \in XpCallers :
         \/ xpCall[c] = NoCaller
         \/ xpCall[c] \in [at : {"pre"}, f : XpFrame]
         \/ xpCall[c] \in [at : {"direct"}, f : XpFrame, b : XpBufs]
    /\ \/ xpTask = NoTask \/ xpTask = [at |-> "loop"]
       \/ xpTask.at \in Busy /\ xpTask.f \in XpFrame /\ xpTask.b \in XpBufs

\* A tx_servq is in the list of its hwxmit exactly when it holds frames, once.
QueuesListed ==
    \A a \in AcSet : /\ IsInjective(xpList[a])
                     /\ Range(xpList[a]) = {r \in Rcpts : xpQ[<<r, a>>] # << >>}
\* A buffer that is held has one holder: the tasklet or a caller on the direct
\* way.
BufsHeld ==
    /\ \A b \in XpBufs : xpBuf[b] = "held" =>
         \/ xpTask.at \in Busy /\ xpTask.b = b
         \/ \E c \in XpCallers : xpCall[c].at = "direct" /\ xpCall[c].b = b
    /\ \A c \in XpCallers : xpCall[c].at = "direct" =>
         /\ xpBuf[xpCall[c].b] = "held"
         /\ xpTask.at \in Busy => xpTask.b # xpCall[c].b
         /\ \A d \in XpCallers \ {c} : xpCall[d].at = "direct" => xpCall[d].b # xpCall[c].b
    /\ xpTask.at \in Busy => xpBuf[xpTask.b] = "held"
\* The inductive invariant of the transmit path.
XpInv == XpTypeOK /\ QueuesListed /\ BufsHeld /\ NothingStranded
-----------------------------------------------------------------------------
\* The access categories and their ranks in hwxmits.
LEMMA AcFacts ==
  /\ AcSet = {"vo", "vi", "be", "bk"}
  /\ \A a \in AcSet : Rank(a) \in 1 .. 4
  <1>1. DOMAIN Acs = 1 .. 4 /\ Acs[1] = "vo" /\ Acs[2] = "vi" /\ Acs[3] = "be" /\ Acs[4] = "bk"
    BY DEF Acs
  <1>2. AcSet = {"vo", "vi", "be", "bk"}
    BY <1>1 DEF AcSet, Range
  <1>3. ASSUME NEW a \in AcSet PROVE \E i \in DOMAIN Acs : Acs[i] = a
    BY DEF AcSet, Range
  <1>4. ASSUME NEW a \in AcSet PROVE Rank(a) \in 1 .. 4
    BY <1>1, <1>3 DEF Rank
  <1> QED
    BY <1>2, <1>4

\* The queue of a frame.
LEMMA QType == \A f \in XpFrame : QOf(f) \in Qs /\ QOf(f) = <<f.to, f.ac>> /\ f.to \in Rcpts /\ f.ac \in AcSet
  BY DEF XpFrame, QOf, Qs

\* update_attrib yields a frame, and keeps the queue of the net device.
LEMMA FrameType ==
  ASSUME NEW p \in XpPkts, NEW to \in Rcpts, xpNet \in XpNets
  PROVE  update_attrib(p, to) \in XpFrame /\ update_attrib(p, to).sub = p.ac
  <1>1. p.ac \in AcSet
    BY XpAssumption, AcFacts
  <1>2. SecEnc(p) \in {"none"} \cup {n.cipher : n \in XpNets}
    BY DEF SecEnc
  <1>3. \A a \in AcSet : qos_acm(a) \in AcSet
    BY AcFacts DEF qos_acm
  <1>4. "be" \in AcSet /\ "vo" \in AcSet
    BY AcFacts
  <1> QED
    BY <1>1, <1>2, <1>3, <1>4 DEF update_attrib, XpFrame

\* rtw_mlcst2unicst chooses the peer or the entry for group frames.
LEMMA ToOfType == ASSUME NEW p PROVE ToOf(p) \in Rcpts
  BY DEF ToOf, Rcpts

\* rtw_dequeue_xframe finds a queue with a frame at the head of a list.
LEMMA FirstListedOne ==
  ASSUME XpTypeOK, QueuesListed, rtw_txframes_pending
  PROVE  /\ FirstListed \in Qs /\ xpQ[FirstListed] # << >>
         /\ xpList[FirstListed[2]] # << >> /\ Head(xpList[FirstListed[2]]) = FirstListed[1]
  <1>0. xpList \in [AcSet -> Seq(Rcpts)]
    BY DEF XpTypeOK
  <1> DEFINE T == {Rank(q[2]) : q \in Listed}
  <1>1. ASSUME NEW q \in Listed
        PROVE  q \in Qs /\ q[2] \in AcSet /\ xpList[q[2]] # << >> /\ q[1] = xpList[q[2]][1]
    <2>1. PICK a \in AcSet : xpList[a] # << >> /\ q = <<xpList[a][1], a>>
      BY DEF Listed
    <2>2. xpList[a][1] \in Rcpts
      BY <1>0, <2>1
    <2> QED
      BY <2>1, <2>2 DEF Qs
  <1>2. T \in SUBSET Nat /\ T # {}
    <2>1. Listed # {}
      BY DEF rtw_txframes_pending, Listed
    <2> QED
      BY <1>1, <2>1, AcFacts
  <1>3. PICK k \in T : \A j \in T : ~ (j < k)
    BY <1>2, LeastNat
  <1>4. PICK q \in Listed : k = Rank(q[2])
    BY <1>3
  <1>5. \A r \in Listed : Rank(q[2]) <= Rank(r[2])
    BY <1>2, <1>3, <1>4
  <1>6. FirstListed \in Listed
    BY <1>5 DEF FirstListed
  <1>7. FirstListed \in Qs /\ FirstListed[2] \in AcSet /\ xpList[FirstListed[2]] # << >>
        /\ FirstListed[1] = xpList[FirstListed[2]][1]
    BY <1>1, <1>6
  <1> HIDE DEF T
  <1>8. FirstListed[1] \in Range(xpList[FirstListed[2]])
    BY <1>0, <1>7 DEF Range
  <1>9. FirstListed = <<FirstListed[1], FirstListed[2]>>
    BY <1>7 DEF Qs
  <1>10. xpQ[<<FirstListed[1], FirstListed[2]>>] # << >>
    BY <1>7, <1>8 DEF QueuesListed
  <1>11. Head(xpList[FirstListed[2]]) = FirstListed[1]
    BY <1>0, <1>7
  <1> QED
    BY <1>7, <1>9, <1>10, <1>11

\* When no buffer is free and the tasklet holds none, a transfer is under way
\* or the callers hold all buffers.
LEMMA BufBusy ==
  ASSUME XpTypeOK, BufsHeld, xpTask.at \notin Busy, FreeBufs = {}
  PROVE  CallersHoldAll \/ \E b \in XpBufs : xpBuf[b] = "flight"
  <1>1. \A b \in XpBufs : xpBuf[b] \in {"held", "flight"}
    BY DEF XpTypeOK, FreeBufs
  <1> QED
    BY <1>1 DEF BufsHeld, CallersHoldAll

\* A packet of the queue s of the net device waits in some queue.
Waits(s) == \E q \in Qs : \E f \in Range(xpQ[q]) : f.sub = s

\* The head of a queue is taken, and the queue delisted if that was all.
LEMMA QueueTaken ==
  ASSUME XpTypeOK, QueuesListed, NEW q \in Qs, xpQ[q] # << >>,
         xpQ' = [xpQ EXCEPT ![q] = Tail(xpQ[q])],
         xpList' \in [AcSet -> Seq(Rcpts)],
         \A a \in AcSet : IsInjective(xpList'[a]),
         \A a \in AcSet \ {q[2]} : xpList'[a] = xpList[a],
         Range(xpList'[q[2]]) = IF Tail(xpQ[q]) = << >> THEN Range(xpList[q[2]]) \ {q[1]}
                                ELSE Range(xpList[q[2]])
  PROVE  /\ xpQ' \in [Qs -> Seq(XpFrame)] /\ Head(xpQ[q]) \in XpFrame
         /\ QueuesListed'
         /\ \A s : Waits(s) => Waits(s)' \/ Head(xpQ[q]).sub = s
  <1>0. xpQ \in [Qs -> Seq(XpFrame)] /\ xpQ[q] \in Seq(XpFrame)
    BY DEF XpTypeOK
  <1>1. /\ Tail(xpQ[q]) \in Seq(XpFrame) /\ Head(xpQ[q]) \in XpFrame
        /\ Range(xpQ[q]) = Range(Tail(xpQ[q])) \cup {Head(xpQ[q])}
    BY <1>0, TailDistinct
  <1>2. /\ xpQ' \in [Qs -> Seq(XpFrame)] /\ xpQ'[q] = Tail(xpQ[q])
        /\ \A r \in Qs \ {q} : xpQ'[r] = xpQ[r]
    BY <1>0, <1>1
  <1>3. q[1] \in Rcpts /\ q[2] \in AcSet /\ q = <<q[1], q[2]>>
    BY DEF Qs
  <1>4. ASSUME NEW a \in AcSet
        PROVE  Range(xpList'[a]) = {r \in Rcpts : xpQ'[<<r, a>>] # << >>}
    <2>0. Range(xpList[a]) = {r \in Rcpts : xpQ[<<r, a>>] # << >>}
      BY DEF QueuesListed
    <2>1. CASE a # q[2]
      <3>1. \A r \in Rcpts : <<r, a>> \in Qs \ {q}
        BY <1>3, <2>1 DEF Qs
      <3> QED
        BY <1>2, <2>0, <2>1, <3>1
    <2>2. CASE a = q[2]
      <3>1. \A r \in Rcpts \ {q[1]} : <<r, a>> \in Qs \ {q}
        BY <1>3, <2>2 DEF Qs
      <3>2. <<q[1], a>> = q
        BY <1>3, <2>2
      <3>3. q[1] \in Range(xpList[a])
        BY <1>3, <2>0, <3>2
      <3>4. \A r \in Rcpts : r \in Range(xpList'[a]) <=> xpQ'[<<r, a>>] # << >>
        BY <1>2, <1>3, <2>0, <2>2, <3>1, <3>2, <3>3
      <3>5. Range(xpList'[a]) \subseteq Rcpts
        BY <2>0, <2>2
      <3> QED
        BY <3>4, <3>5
    <2> QED
      BY <2>1, <2>2
  <1>5. QueuesListed'
    BY <1>4 DEF QueuesListed
  <1>6. ASSUME NEW s, Waits(s) PROVE Waits(s)' \/ Head(xpQ[q]).sub = s
    <2>1. PICK r \in Qs : \E f \in Range(xpQ[r]) : f.sub = s
      BY <1>6 DEF Waits
    <2>2. CASE r = q
      BY <1>1, <1>2, <2>1, <2>2 DEF Waits
    <2>3. CASE r # q
      BY <1>2, <2>1, <2>3 DEF Waits
    <2> QED
      BY <2>2, <2>3
  <1> QED
    BY <1>1, <1>2, <1>5, <1>6

\* rtw_dequeue_xframe.
LEMMA DequeueOK ==
  ASSUME XpTypeOK, QueuesListed, rtw_txframes_pending, NEW b \in XpBufs, Dequeue(b)
  PROVE  /\ xpQ' \in [Qs -> Seq(XpFrame)] /\ xpList' \in [AcSet -> Seq(Rcpts)]
         /\ QueuesListed'
         /\ xpTask'.at = "first" /\ xpTask'.f \in XpFrame /\ xpTask'.b = b
         /\ \A s : Waits(s) => Waits(s)' \/ xpTask'.f.sub = s
  <1> DEFINE q == FirstListed
             rest == Tail(xpQ[q])
  <1>1. /\ q \in Qs /\ xpQ[q] # << >> /\ xpList[q[2]] # << >> /\ Head(xpList[q[2]]) = q[1]
    BY FirstListedOne
  <1>2. /\ xpQ' = [xpQ EXCEPT ![q] = rest]
        /\ xpList' = IF rest = << >> THEN [xpList EXCEPT ![q[2]] = Tail(@)] ELSE xpList
        /\ xpTask' = [at |-> "first", f |-> Head(xpQ[q]), b |-> b]
    BY DEF Dequeue
  <1> HIDE DEF q
  <1>3. xpList \in [AcSet -> Seq(Rcpts)] /\ q[2] \in AcSet /\ xpList[q[2]] \in Seq(Rcpts)
    BY <1>1 DEF XpTypeOK, Qs
  <1>4. \A a \in AcSet : IsInjective(xpList[a])
    BY DEF QueuesListed
  <1>5. /\ Tail(xpList[q[2]]) \in Seq(Rcpts) /\ IsInjective(Tail(xpList[q[2]]))
        /\ Range(Tail(xpList[q[2]])) = Range(xpList[q[2]]) \ {q[1]}
    BY <1>1, <1>3, <1>4, TailDistinct
  <1>6. /\ xpList' \in [AcSet -> Seq(Rcpts)]
        /\ \A a \in AcSet : IsInjective(xpList'[a])
        /\ \A a \in AcSet \ {q[2]} : xpList'[a] = xpList[a]
        /\ Range(xpList'[q[2]]) = IF Tail(xpQ[q]) = << >> THEN Range(xpList[q[2]]) \ {q[1]}
                                  ELSE Range(xpList[q[2]])
    <2>1. CASE rest = << >>
      BY <1>2, <1>3, <1>4, <1>5, <2>1
    <2>2. CASE rest # << >>
      BY <1>2, <1>3, <1>4, <2>2
    <2> QED
      BY <2>1, <2>2
  <1>7. /\ xpQ' \in [Qs -> Seq(XpFrame)] /\ Head(xpQ[q]) \in XpFrame
        /\ QueuesListed'
        /\ \A s : Waits(s) => Waits(s)' \/ Head(xpQ[q]).sub = s
    BY <1>1, <1>2, <1>6, QueueTaken
  <1> QED
    BY <1>2, <1>6, <1>7

\* The aggregation loop takes the next frame of the same queue.
LEMMA AggregateOK ==
  ASSUME XpTypeOK, QueuesListed, NEW f \in XpFrame, xpQ[QOf(f)] # << >>,
         xpQ' = [xpQ EXCEPT ![QOf(f)] = Tail(xpQ[QOf(f)])],
         xpList' = IF Tail(xpQ[QOf(f)]) = << >> /\ f.to \in Range(xpList[f.ac])
                   THEN [xpList EXCEPT ![f.ac] = Delisted(@, f.to)] ELSE xpList
  PROVE  /\ xpQ' \in [Qs -> Seq(XpFrame)] /\ xpList' \in [AcSet -> Seq(Rcpts)]
         /\ QueuesListed'
         /\ \A s : Waits(s) => Waits(s)' \/ Head(xpQ[QOf(f)]).sub = s
  <1>1. PICK q \in Qs : q = QOf(f) /\ q[1] = f.to /\ q[2] = f.ac /\ f.to \in Rcpts /\ f.ac \in AcSet
    BY QType
  <1>2. xpList \in [AcSet -> Seq(Rcpts)] /\ xpList[f.ac] \in Seq(Rcpts)
    BY <1>1 DEF XpTypeOK
  <1>3. \A a \in AcSet : IsInjective(xpList[a])
    BY DEF QueuesListed
  <1>4. /\ Delisted(xpList[f.ac], f.to) \in Seq(Rcpts)
        /\ IsInjective(Delisted(xpList[f.ac], f.to))
        /\ Range(Delisted(xpList[f.ac], f.to)) = Range(xpList[f.ac]) \ {f.to}
    BY <1>1, <1>2, <1>3, DelistedFacts
  <1>5. f.to \in Range(xpList[f.ac])
    BY <1>1 DEF QueuesListed, QOf
  <1>6. /\ xpList' \in [AcSet -> Seq(Rcpts)]
        /\ \A a \in AcSet : IsInjective(xpList'[a])
        /\ \A a \in AcSet \ {q[2]} : xpList'[a] = xpList[a]
        /\ Range(xpList'[q[2]]) = IF Tail(xpQ[q]) = << >> THEN Range(xpList[q[2]]) \ {q[1]}
                                  ELSE Range(xpList[q[2]])
    <2>1. CASE Tail(xpQ[q]) = << >>
      BY <1>1, <1>2, <1>3, <1>4, <1>5, <2>1
    <2>2. CASE Tail(xpQ[q]) # << >>
      BY <1>1, <1>2, <1>3, <2>2
    <2> QED
      BY <2>1, <2>2
  <1>7. /\ xpQ' \in [Qs -> Seq(XpFrame)] /\ Head(xpQ[q]) \in XpFrame
        /\ QueuesListed'
        /\ \A s : Waits(s) => Waits(s)' \/ Head(xpQ[q]).sub = s
    BY <1>1, <1>6, QueueTaken
  <1> QED
    BY <1>1, <1>6, <1>7

\* rtw_xmit_classifier.
LEMMA ClassifierOK ==
  ASSUME XpTypeOK, QueuesListed, NEW f \in XpFrame, rtw_xmit_classifier(f)
  PROVE  /\ xpQ' \in [Qs -> Seq(XpFrame)] /\ xpList' \in [AcSet -> Seq(Rcpts)]
         /\ QueuesListed'
         /\ \A s : (Waits(s) => Waits(s)') /\ Waits(f.sub)'
  <1>0. xpQ \in [Qs -> Seq(XpFrame)] /\ xpList \in [AcSet -> Seq(Rcpts)]
    BY DEF XpTypeOK
  <1>1. PICK q \in Qs : q = QOf(f) /\ q = <<f.to, f.ac>> /\ f.to \in Rcpts /\ f.ac \in AcSet
    BY QType
  <1>a. xpQ[q] \in Seq(XpFrame)
    BY <1>0
  <1>2. /\ Append(xpQ[q], f) \in Seq(XpFrame) /\ Append(xpQ[q], f) # << >>
        /\ Range(Append(xpQ[q], f)) = Range(xpQ[q]) \cup {f}
    <2>1. Append(xpQ[q], f) # << >>
      BY <1>a
    <2> QED
      BY <1>a, <2>1, AppendDistinct
  <1>3. /\ xpQ' \in [Qs -> Seq(XpFrame)] /\ xpQ'[q] = Append(xpQ[q], f)
        /\ \A r \in Qs \ {q} : xpQ'[r] = xpQ[r]
    BY <1>0, <1>1, <1>2 DEF rtw_xmit_classifier
  <1>4. /\ xpList' \in [AcSet -> Seq(Rcpts)] /\ \A a \in AcSet : IsInjective(xpList'[a])
        /\ \A a \in AcSet \ {f.ac} : xpList'[a] = xpList[a]
        /\ Range(xpList'[f.ac]) = Range(xpList[f.ac]) \cup {f.to}
    <2>0. \A a \in AcSet : IsInjective(xpList[a])
      BY DEF QueuesListed
    <2>1. CASE f.to \in Range(xpList[f.ac])
      BY <1>0, <1>1, <2>0, <2>1 DEF rtw_xmit_classifier
    <2>2. CASE f.to \notin Range(xpList[f.ac])
      <3>1. /\ Append(xpList[f.ac], f.to) \in Seq(Rcpts)
            /\ Range(Append(xpList[f.ac], f.to)) = Range(xpList[f.ac]) \cup {f.to}
            /\ IsInjective(Append(xpList[f.ac], f.to))
        BY <1>0, <1>1, <2>0, <2>2, AppendDistinct
      <3>2. xpList' = [xpList EXCEPT ![f.ac] = Append(@, f.to)]
        BY <2>2 DEF rtw_xmit_classifier
      <3> QED
        BY <1>0, <1>1, <2>0, <3>1, <3>2
    <2> QED
      BY <2>1, <2>2
  <1>5. ASSUME NEW a \in AcSet
        PROVE  Range(xpList'[a]) = {r \in Rcpts : xpQ'[<<r, a>>] # << >>}
    <2>0. Range(xpList[a]) = {r \in Rcpts : xpQ[<<r, a>>] # << >>}
      BY DEF QueuesListed
    <2>1. CASE a # f.ac
      <3>1. \A r \in Rcpts : <<r, a>> \in Qs \ {q}
        BY <1>1, <2>1 DEF Qs
      <3> QED
        BY <1>3, <1>4, <2>0, <2>1, <3>1
    <2>2. CASE a = f.ac
      <3>1. \A r \in Rcpts \ {f.to} : <<r, a>> \in Qs \ {q}
        BY <1>1, <2>2 DEF Qs
      <3>2. <<f.to, a>> = q
        BY <1>1, <2>2
      <3>3. \A r \in Rcpts : r \in Range(xpList'[a]) <=> xpQ'[<<r, a>>] # << >>
        BY <1>1, <1>2, <1>3, <1>4, <2>0, <2>2, <3>1, <3>2
      <3>4. Range(xpList'[a]) \subseteq Rcpts
        BY <1>1, <1>4, <2>0, <2>2
      <3> QED
        BY <3>3, <3>4
    <2> QED
      BY <2>1, <2>2
  <1>6. QueuesListed'
    BY <1>4, <1>5 DEF QueuesListed
  <1>7. \A r \in Qs : Range(xpQ[r]) \subseteq Range(xpQ'[r])
    BY <1>2, <1>3
  <1>8. f \in Range(xpQ'[q])
    BY <1>2, <1>3
  <1>9. \A s : (Waits(s) => Waits(s)') /\ Waits(f.sub)'
    BY <1>7, <1>8 DEF Waits
  <1> QED
    BY <1>3, <1>4, <1>6, <1>9

\* rtw_free_stainfo: no queue of the net device that waits for the frames of
\* other queues is forgotten.
LEMMA PeerGoneOK ==
  ASSUME XpTypeOK, QueuesListed, PeerGone
  PROVE  /\ xpQ' \in [Qs -> Seq(XpFrame)] /\ xpList' \in [AcSet -> Seq(Rcpts)]
         /\ QueuesListed'
         /\ \A s \in xpHalt' : Waits(s) => Waits(s)'
  <1>0. xpQ \in [Qs -> Seq(XpFrame)] /\ xpList \in [AcSet -> Seq(Rcpts)]
    BY DEF XpTypeOK
  <1>1. /\ xpQ' = [q \in Qs |-> IF q \in PeerQs THEN << >> ELSE xpQ[q]]
        /\ xpList' = [a \in AcSet |-> Delisted(xpList[a], "sta")]
        /\ xpHalt' = xpHalt \ UNION {{f.sub : f \in Range(xpQ[q])} : q \in PeerQs}
    BY DEF PeerGone, rtw_os_pkt_complete
  <1>2. xpQ' \in [Qs -> Seq(XpFrame)]
    BY <1>0, <1>1
  <1>3. ASSUME NEW a \in AcSet
        PROVE  /\ xpList'[a] \in Seq(Rcpts) /\ IsInjective(xpList'[a])
               /\ Range(xpList'[a]) = Range(xpList[a]) \ {"sta"}
    <2>1. xpList[a] \in Seq(Rcpts) /\ IsInjective(xpList[a]) /\ "sta" \in Rcpts
      BY <1>0 DEF QueuesListed, Rcpts
    <2>2. xpList'[a] = Delisted(xpList[a], "sta")
      BY <1>1
    <2> QED
      BY <2>1, <2>2, DelistedFacts
  <1>4. ASSUME NEW a \in AcSet
        PROVE  Range(xpList'[a]) = {r \in Rcpts : xpQ'[<<r, a>>] # << >>}
    <2>0. Range(xpList[a]) = {r \in Rcpts : xpQ[<<r, a>>] # << >>}
      BY DEF QueuesListed
    <2>1. \A r \in Rcpts : <<r, a>> \in Qs /\ (<<r, a>> \in PeerQs <=> r = "sta")
      BY DEF Qs, PeerQs
    <2>2. \A r \in Rcpts : xpQ'[<<r, a>>] = IF r = "sta" THEN << >> ELSE xpQ[<<r, a>>]
      BY <1>1, <2>1
    <2> QED
      BY <1>3, <2>0, <2>2
  <1>5. QueuesListed'
    BY <1>3, <1>4 DEF QueuesListed
  <1>6. ASSUME NEW s \in xpHalt', Waits(s) PROVE Waits(s)'
    <2>1. PICK q \in Qs : \E f \in Range(xpQ[q]) : f.sub = s
      BY <1>6 DEF Waits
    <2>2. q \notin PeerQs
      BY <1>1, <1>6, <2>1
    <2>3. xpQ'[q] = xpQ[q]
      BY <1>1, <2>2
    <2> QED
      BY <2>1, <2>3 DEF Waits
  <1>7. xpList' \in [AcSet -> Seq(Rcpts)]
    BY <1>1, <1>3
  <1> QED
    BY <1>2, <1>5, <1>6, <1>7

\* A queue that holds frames is listed, so that the tasklet will find it.
LEMMA AheadPending ==
  ASSUME XpTypeOK, QueuesListed, NEW q \in Qs, xpQ[q] # << >>
  PROVE  rtw_txframes_pending
  <1>1. q[1] \in Rcpts /\ q[2] \in AcSet /\ q = <<q[1], q[2]>>
    BY DEF Qs
  <1>2. q[1] \in Range(xpList[q[2]])
    BY <1>1 DEF QueuesListed
  <1>3. xpList[q[2]] # << >>
    BY <1>2 DEF Range
  <1> QED
    BY <1>1, <1>3 DEF rtw_txframes_pending

\* The states of a caller.
CallOK(x) ==
  \/ x = NoCaller
  \/ x \in [at : {"pre"}, f : XpFrame]
  \/ x \in [at : {"direct"}, f : XpFrame, b : XpBufs]

\* One caller moves.
LEMMA CallerMoves ==
  ASSUME XpTypeOK, NEW c \in XpCallers, NEW y, CallOK(y), xpCall' = [xpCall EXCEPT ![c] = y]
  PROVE  /\ xpCall'[c] = y /\ \A d \in XpCallers \ {c} : xpCall'[d] = xpCall[d]
         /\ xpCall' = [d \in XpCallers |-> xpCall'[d]]
         /\ \A d \in XpCallers : CallOK(xpCall'[d])
  <1>1. \A d \in XpCallers : CallOK(xpCall[d])
    BY DEF XpTypeOK, CallOK
  <1>2. xpCall = [d \in XpCallers |-> xpCall[d]]
    BY DEF XpTypeOK
  <1>3. xpCall'[c] = y /\ \A d \in XpCallers \ {c} : xpCall'[d] = xpCall[d]
    BY <1>2
  <1>4. xpCall' = [d \in XpCallers |-> xpCall'[d]]
    BY <1>2
  <1> QED
    BY <1>1, <1>3, <1>4

\* Callers that move outside the direct way leave the holders alone.
LEMMA BufsStay ==
  ASSUME BufsHeld, UNCHANGED <<xpBuf, xpTask>>,
         \A d \in XpCallers : xpCall'[d] = xpCall[d] \/ (xpCall'[d].at # "direct" /\ xpCall[d].at # "direct")
  PROVE  BufsHeld'
  <1>1. \A d \in XpCallers : xpCall'[d].at = "direct" => xpCall'[d] = xpCall[d] /\ xpCall[d].at = "direct"
    OBVIOUS
  <1>2. \A d \in XpCallers : xpCall[d].at = "direct" => xpCall'[d] = xpCall[d]
    OBVIOUS
  <1> QED
    BY <1>1, <1>2 DEF BufsHeld

\* rtw_xmit_entry: the queue it stops has the packet under way, or has lost it.
LEMMA EntryStep ==
  ASSUME XpInv, NEW c \in XpCallers, NEW p \in XpPkts, rtw_xmit_entry(c, p)
  PROVE  XpInv'
  <1>0. XpTypeOK /\ QueuesListed /\ BufsHeld /\ NoStrandedFrame /\ QueueWakes
    BY DEF XpInv, NothingStranded
  <1> DEFINE f == update_attrib(p, ToOf(p))
             y == [at |-> "pre", f |-> f]
  <1>1. /\ xpCall[c] = NoCaller
        /\ UNCHANGED <<xpNet, xpBusy, xpStop, xpQ, xpList, xpBuf, xpTask, xpSched, xpDry>>
        /\ xpHalt' \subseteq xpHalt \cup {p.ac}
    BY DEF rtw_xmit_entry
  <1>a. \/ xpLost' = xpLost \cup (xpHalt' \cap {p.ac}) /\ UNCHANGED xpCall
        \/ xpCall' = [xpCall EXCEPT ![c] = y] /\ UNCHANGED xpLost
    BY DEF rtw_xmit_entry
  <1>2. f \in XpFrame /\ f.sub = p.ac
    <2>1. xpNet \in XpNets
      BY <1>0 DEF XpTypeOK
    <2> QED
      BY <2>1, FrameType, ToOfType
  <1> HIDE DEF f
  <1>3. CASE /\ xpLost' = xpLost \cup (xpHalt' \cap {p.ac}) /\ UNCHANGED xpCall
    <2>1. XpTypeOK' /\ QueuesListed' /\ BufsHeld' /\ NoStrandedFrame'
      BY <1>0, <1>1, <1>3 DEF XpTypeOK, QueuesListed, BufsHeld, NoStrandedFrame, rtw_txframes_pending
    <2>2. \A s : UnderWay(s)' <=> UnderWay(s)
      BY <1>1, <1>3 DEF UnderWay
    <2>3. QueueWakes'
      BY <1>0, <1>1, <1>3, <2>2 DEF QueueWakes
    <2> QED
      BY <2>1, <2>3 DEF XpInv, NothingStranded
  <1>4. CASE xpCall' = [xpCall EXCEPT ![c] = y] /\ UNCHANGED xpLost
    <2>1. CallOK(y) /\ y # NoCaller /\ y.f = f /\ y.at = "pre"
      BY <1>2 DEF CallOK, NoCaller
    <2> HIDE DEF y
    <2>2. /\ xpCall'[c] = y /\ \A d \in XpCallers \ {c} : xpCall'[d] = xpCall[d]
          /\ xpCall' = [d \in XpCallers |-> xpCall'[d]]
          /\ \A d \in XpCallers : CallOK(xpCall'[d])
      BY <1>0, <1>4, <2>1, CallerMoves
    <2>3. XpTypeOK'
      BY <1>0, <1>1, <2>2 DEF XpTypeOK, CallOK
    <2>4. QueuesListed' /\ NoStrandedFrame'
      BY <1>0, <1>1 DEF QueuesListed, NoStrandedFrame, rtw_txframes_pending
    <2>5. xpCall[c].at # "direct"
      BY <1>1 DEF NoCaller
    <2>6. BufsHeld'
      BY <1>0, <1>1, <2>1, <2>2, <2>5, BufsStay
    <2>7. \A s : UnderWay(s) => UnderWay(s)'
      BY <1>1, <2>2 DEF UnderWay
    <2>8. UnderWay(p.ac)'
      BY <1>2, <2>1, <2>2 DEF UnderWay
    <2>9. QueueWakes'
      BY <1>0, <1>1, <1>4, <2>7, <2>8 DEF QueueWakes
    <2> QED
      BY <2>3, <2>4, <2>6, <2>9 DEF XpInv, NothingStranded
  <1> QED
    BY <1>3, <1>4, <1>a

\* pre_xmitframe takes a buffer for the direct way.
LEMMA PreDirectStep ==
  ASSUME XpInv, NEW c \in XpCallers, PreDirect(c)
  PROVE  XpInv'
  <1>0. XpTypeOK /\ QueuesListed /\ BufsHeld /\ NoStrandedFrame /\ QueueWakes
    BY DEF XpInv, NothingStranded
  <1>1. /\ xpCall[c].at = "pre"
        /\ UNCHANGED <<xpNet, xpBusy, xpStop, xpQ, xpList, xpTask, xpSched, xpHalt, xpLost, xpDry>>
    BY DEF PreDirect
  <1>2. PICK b \in FreeBufs :
          /\ xpBuf' = [xpBuf EXCEPT ![b] = "held"]
          /\ xpCall' = [xpCall EXCEPT ![c] = [at |-> "direct", f |-> xpCall[c].f, b |-> b]]
    BY DEF PreDirect
  <1> DEFINE f == xpCall[c].f
             y == [at |-> "direct", f |-> f, b |-> b]
  <1>3. f \in XpFrame /\ xpCall[c] # NoCaller
    BY <1>0, <1>1 DEF XpTypeOK, NoCaller
  <1>4. b \in XpBufs /\ xpBuf[b] = "free"
    BY DEF FreeBufs
  <1>5. CallOK(y) /\ y # NoCaller /\ y.f = f /\ y.at = "direct" /\ y.b = b
    BY <1>3, <1>4 DEF CallOK, NoCaller
  <1>6. xpCall' = [xpCall EXCEPT ![c] = y]
    BY <1>2
  <1> HIDE DEF y
  <1>7. /\ xpCall'[c] = y /\ \A d \in XpCallers \ {c} : xpCall'[d] = xpCall[d]
        /\ xpCall' = [d \in XpCallers |-> xpCall'[d]]
        /\ \A d \in XpCallers : CallOK(xpCall'[d])
    BY <1>0, <1>5, <1>6, CallerMoves
  <1>8. /\ xpBuf' \in [XpBufs -> {"free", "held", "flight"}] /\ xpBuf'[b] = "held"
        /\ \A d \in XpBufs \ {b} : xpBuf'[d] = xpBuf[d]
    BY <1>0, <1>2, <1>4 DEF XpTypeOK
  <1>9. XpTypeOK'
    BY <1>0, <1>1, <1>7, <1>8 DEF XpTypeOK, CallOK
  <1>10. QueuesListed'
    BY <1>0, <1>1 DEF QueuesListed
  <1>11. NoStrandedFrame'
    BY <1>0, <1>1, <1>4, <1>8 DEF NoStrandedFrame, rtw_txframes_pending
  <1>12. BufsHeld'
    <2>1. ASSUME NEW d \in XpBufs, xpBuf'[d] = "held", d # b
          PROVE  \/ xpTask'.at \in Busy /\ xpTask'.b = d
                 \/ \E e \in XpCallers : xpCall'[e].at = "direct" /\ xpCall'[e].b = d
      BY <1>0, <1>1, <1>7, <1>8, <2>1 DEF BufsHeld
    <2>2. xpCall'[c].at = "direct" /\ xpCall'[c].b = b
      BY <1>5, <1>7
    <2>3. \A d \in XpCallers \ {c} : xpCall'[d].at = "direct" => xpCall'[d].b # b /\ xpBuf'[xpCall'[d].b] = "held"
      <3>1. \A d \in XpCallers \ {c} : xpCall[d].at = "direct" => xpCall[d].b \in XpBufs /\ xpBuf[xpCall[d].b] = "held"
        BY <1>0 DEF XpTypeOK, NoCaller, BufsHeld
      <3> QED
        BY <1>4, <1>7, <1>8, <3>1
    <2>4. xpTask'.at \in Busy => xpTask'.b # b /\ xpBuf'[xpTask'.b] = "held"
      <3>1. xpTask.at \in Busy => xpTask.b \in XpBufs /\ xpBuf[xpTask.b] = "held"
        BY <1>0 DEF XpTypeOK, NoTask, Busy, BufsHeld
      <3> QED
        BY <1>1, <1>4, <1>8, <3>1
    <2>5. \A d \in XpCallers \ {c} : xpCall'[d].at = "direct" =>
             /\ xpTask'.at \in Busy => xpTask'.b # xpCall'[d].b
             /\ \A e \in XpCallers \ {c, d} : xpCall'[e].at = "direct" => xpCall'[e].b # xpCall'[d].b
      BY <1>0, <1>1, <1>7 DEF BufsHeld
    <2> QED
      BY <1>8, <2>1, <2>2, <2>3, <2>4, <2>5 DEF BufsHeld
  <1>13. \A s : UnderWay(s) => UnderWay(s)'
    BY <1>1, <1>3, <1>5, <1>7 DEF UnderWay
  <1>14. QueueWakes'
    BY <1>0, <1>1, <1>13 DEF QueueWakes
  <1> QED
    BY <1>9, <1>10, <1>11, <1>12, <1>14 DEF XpInv, NothingStranded

\* pre_xmitframe queues the frame and schedules nothing: something is under way
\* that will.
LEMMA PreEnqueueStep ==
  ASSUME XpInv, NEW c \in XpCallers, PreEnqueue(c)
  PROVE  XpInv'
  <1>0. XpTypeOK /\ QueuesListed /\ BufsHeld /\ NoStrandedFrame /\ QueueWakes
    BY DEF XpInv, NothingStranded
  <1>a. PICK f : f = xpCall[c].f
    OBVIOUS
  <1>1. /\ xpCall[c].at = "pre" /\ xpCall' = [xpCall EXCEPT ![c] = NoCaller]
        /\ UNCHANGED <<xpNet, xpBusy, xpStop, xpBuf, xpTask, xpSched>>
        /\ Ahead(f) \/ xpBusy = "on" \/ FreeBufs = {}
    BY <1>a DEF PreEnqueue
  <1>d. xpDry' \in BOOLEAN /\ (xpDry => xpDry')
    BY <1>0 DEF PreEnqueue, XpTypeOK
  <1>2. f \in XpFrame /\ xpCall[c] # NoCaller
    BY <1>0, <1>1, <1>a DEF XpTypeOK, NoCaller
  <1>3. CallOK(NoCaller) /\ NoCaller.at # "direct"
    BY DEF CallOK, NoCaller
  <1>4. /\ xpCall'[c] = NoCaller /\ \A d \in XpCallers \ {c} : xpCall'[d] = xpCall[d]
        /\ xpCall' = [d \in XpCallers |-> xpCall'[d]]
        /\ \A d \in XpCallers : CallOK(xpCall'[d])
    BY <1>0, <1>1, <1>3, CallerMoves
  <1>5. BufsHeld'
    BY <1>0, <1>1, <1>3, <1>4, BufsStay
  <1>6. CASE /\ rtw_xmit_classifier(f) /\ UNCHANGED <<xpHalt, xpLost>>
             /\ xpDry' = (xpDry \/ (xpTask = NoTask /\ CallersHoldAll))
    <2>1. /\ xpQ' \in [Qs -> Seq(XpFrame)] /\ xpList' \in [AcSet -> Seq(Rcpts)]
          /\ QueuesListed'
          /\ \A s : (Waits(s) => Waits(s)') /\ Waits(f.sub)'
      BY <1>0, <1>2, <1>6, ClassifierOK
    <2>2. XpTypeOK'
      BY <1>0, <1>1, <1>4, <1>d, <2>1 DEF XpTypeOK, CallOK
    <2>3. \/ xpBusy # "no" \/ xpStop \/ xpSched \/ xpTask # NoTask \/ xpDry'
          \/ \E b \in XpBufs : xpBuf[b] = "flight"
      <3>1. CASE Ahead(f)
        <4>1. rtw_txframes_pending
          BY <1>0, <1>2, <3>1, QType, AheadPending DEF Ahead
        <4> QED
          BY <1>0, <1>d, <4>1 DEF NoStrandedFrame
      <3>2. CASE FreeBufs = {}
        <4>1. xpTask = NoTask => xpTask.at \notin Busy
          BY DEF NoTask, Busy
        <4> QED
          BY <1>0, <1>6, <3>2, <4>1, BufBusy
      <3> QED
        BY <1>1, <3>1, <3>2
    <2>4. NoStrandedFrame'
      BY <1>1, <2>3 DEF NoStrandedFrame
    <2>5. \A s : UnderWay(s) => UnderWay(s)'
      <3> SUFFICES ASSUME NEW s, UnderWay(s) PROVE UnderWay(s)'
        OBVIOUS
      <3>1. CASE Waits(s)
        BY <2>1, <3>1 DEF UnderWay, Waits
      <3>2. CASE xpTask.at = "first" /\ xpTask.f.sub = s
        BY <1>1, <3>2 DEF UnderWay
      <3>3. ASSUME NEW d \in XpCallers, xpCall[d] # NoCaller, xpCall[d].f.sub = s
            PROVE  UnderWay(s)'
        <4>1. CASE d = c
          BY <1>a, <2>1, <3>3, <4>1 DEF UnderWay, Waits
        <4>2. CASE d # c
          BY <1>4, <3>3, <4>2 DEF UnderWay
        <4> QED
          BY <4>1, <4>2
      <3> QED
        BY <3>1, <3>2, <3>3 DEF UnderWay, Waits
    <2>6. QueueWakes'
      BY <1>0, <1>6, <2>5 DEF QueueWakes
    <2> QED
      BY <1>5, <2>1, <2>2, <2>4, <2>6 DEF XpInv, NothingStranded
  <1>7. CASE rtw_os_pkt_complete({f.sub}) /\ UNCHANGED <<xpQ, xpList>>
    <2>1. XpTypeOK' /\ QueuesListed'
      BY <1>0, <1>1, <1>4, <1>7, <1>d DEF XpTypeOK, QueuesListed, CallOK
    <2>2. NoStrandedFrame'
      BY <1>0, <1>1, <1>7, <1>d DEF NoStrandedFrame, rtw_txframes_pending
    <2>3. \A s : UnderWay(s) => UnderWay(s)' \/ s = f.sub
      BY <1>1, <1>4, <1>7, <1>a DEF UnderWay
    <2>4. QueueWakes'
      BY <1>0, <1>7, <2>3 DEF QueueWakes, rtw_os_pkt_complete
    <2> QED
      BY <1>5, <2>1, <2>2, <2>4 DEF XpInv, NothingStranded
  <1> QED
    BY <1>6, <1>7, <1>a DEF PreEnqueue

\* xmitframe_direct gives its buffer up, submitted or not.
LEMMA DirectStep ==
  ASSUME XpInv, NEW c \in XpCallers, xmitframe_direct(c)
  PROVE  XpInv'
  <1>0. XpTypeOK /\ QueuesListed /\ BufsHeld /\ NoStrandedFrame /\ QueueWakes
    BY DEF XpInv, NothingStranded
  <1>a. PICK f, b : f = xpCall[c].f /\ b = xpCall[c].b
    OBVIOUS
  <1>1. /\ xpCall[c].at = "direct" /\ xpCall' = [xpCall EXCEPT ![c] = NoCaller]
        /\ UNCHANGED <<xpNet, xpBusy, xpStop, xpQ, xpList, xpTask, xpSched, xpDry>>
        /\ rtw_os_pkt_complete({f.sub})
        /\ \E st \in {"free", "flight"} : xpBuf' = [xpBuf EXCEPT ![b] = st]
    BY <1>a DEF xmitframe_direct, _rtlw_usb_transmit
  <1>2. f \in XpFrame /\ b \in XpBufs
    BY <1>0, <1>1, <1>a DEF XpTypeOK, NoCaller
  <1>3. CallOK(NoCaller) /\ NoCaller.at # "direct"
    BY DEF CallOK, NoCaller
  <1>4. /\ xpCall'[c] = NoCaller /\ \A d \in XpCallers \ {c} : xpCall'[d] = xpCall[d]
        /\ xpCall' = [d \in XpCallers |-> xpCall'[d]]
        /\ \A d \in XpCallers : CallOK(xpCall'[d])
    BY <1>0, <1>1, <1>3, CallerMoves
  <1>5. /\ xpBuf' \in [XpBufs -> {"free", "held", "flight"}] /\ xpBuf'[b] # "held"
        /\ \A d \in XpBufs \ {b} : xpBuf'[d] = xpBuf[d]
    BY <1>0, <1>1, <1>2 DEF XpTypeOK
  <1>6. XpTypeOK' /\ QueuesListed'
    BY <1>0, <1>1, <1>4, <1>5 DEF XpTypeOK, QueuesListed, CallOK
  <1>b. /\ xpBuf[b] = "held" /\ (xpTask.at \in Busy => xpTask.b # b)
        /\ \A d \in XpCallers \ {c} : xpCall[d].at = "direct" => xpCall[d].b # b
    BY <1>0, <1>1, <1>a DEF BufsHeld
  <1>7. BufsHeld'
    <2>1. ASSUME NEW d \in XpBufs, xpBuf'[d] = "held"
          PROVE  \/ xpTask'.at \in Busy /\ xpTask'.b = d
                 \/ \E e \in XpCallers : xpCall'[e].at = "direct" /\ xpCall'[e].b = d
      <3>1. d # b /\ xpBuf[d] = "held"
        BY <1>5, <2>1
      <3> QED
        BY <1>0, <1>1, <1>4, <1>a, <3>1 DEF BufsHeld
    <2>2. \A d \in XpCallers : xpCall'[d].at = "direct" => d # c /\ xpCall'[d] = xpCall[d]
      BY <1>3, <1>4
    <2>3. \A d \in XpCallers : xpCall[d].at = "direct" => xpCall[d].b \in XpBufs
      BY <1>0 DEF XpTypeOK, NoCaller
    <2>4. xpTask.at \in Busy => xpTask.b \in XpBufs
      BY <1>0 DEF XpTypeOK, NoTask, Busy
    <2> QED
      BY <1>0, <1>1, <1>5, <1>b, <2>1, <2>2, <2>3, <2>4 DEF BufsHeld
  <1>8. NoStrandedFrame'
    BY <1>0, <1>1, <1>5, <1>b DEF NoStrandedFrame, rtw_txframes_pending
  <1>9. \A s : UnderWay(s) => UnderWay(s)' \/ s = f.sub
    BY <1>1, <1>4, <1>a DEF UnderWay
  <1>10. QueueWakes'
    BY <1>0, <1>1, <1>9 DEF QueueWakes, rtw_os_pkt_complete
  <1> QED
    BY <1>6, <1>7, <1>8, <1>10 DEF XpInv, NothingStranded

\* The tasklet keeps its buffer.
LEMMA BufsTask ==
  ASSUME BufsHeld, UNCHANGED <<xpBuf, xpCall>>,
         xpTask'.at \in Busy <=> xpTask.at \in Busy,
         xpTask.at \in Busy => xpTask'.b = xpTask.b
  PROVE  BufsHeld'
  BY DEF BufsHeld

\* The tasklet gives its buffer up.
LEMMA BufReleased ==
  ASSUME XpTypeOK, BufsHeld, xpTask.at \in Busy, xpTask'.at \notin Busy, UNCHANGED xpCall,
         NEW st \in {"free", "flight"}, xpBuf' = [xpBuf EXCEPT ![xpTask.b] = st]
  PROVE  BufsHeld' /\ xpBuf' \in [XpBufs -> {"free", "held", "flight"}]
  <1>1. PICK b : b = xpTask.b
    OBVIOUS
  <1>2. b \in XpBufs /\ xpBuf \in [XpBufs -> {"free", "held", "flight"}]
    BY <1>1 DEF XpTypeOK, NoTask, Busy
  <1>3. /\ xpBuf' \in [XpBufs -> {"free", "held", "flight"}] /\ xpBuf'[b] # "held"
        /\ \A d \in XpBufs \ {b} : xpBuf'[d] = xpBuf[d]
    BY <1>1, <1>2
  <1>4. \A d \in XpCallers : xpCall[d].at = "direct" =>
           xpCall[d].b # b /\ xpBuf[xpCall[d].b] = "held" /\ xpCall[d].b \in XpBufs
    BY <1>1 DEF BufsHeld, XpTypeOK, NoCaller
  <1>5. \A d \in XpCallers : xpCall'[d].at = "direct" => xpBuf'[xpCall'[d].b] = "held"
    BY <1>3, <1>4
  <1>6. \A d \in XpBufs : xpBuf'[d] = "held" =>
           \E c \in XpCallers : xpCall'[c].at = "direct" /\ xpCall'[c].b = d
    BY <1>1, <1>3 DEF BufsHeld
  <1>7. \A c \in XpCallers : xpCall'[c].at = "direct" =>
           \A d \in XpCallers \ {c} : xpCall'[d].at = "direct" => xpCall'[d].b # xpCall'[c].b
    BY DEF BufsHeld
  <1> QED
    BY <1>3, <1>5, <1>6, <1>7 DEF BufsHeld

\* The tasklet starts, or does not because of a survey.
LEMMA TaskStartStep == ASSUME XpInv, TaskStart PROVE XpInv'
  <1>0. XpTypeOK /\ QueuesListed /\ BufsHeld /\ NoStrandedFrame /\ QueueWakes
    BY DEF XpInv, NothingStranded
  <1>1. /\ xpTask = NoTask /\ xpTask' = IF xpBusy = "on" THEN NoTask ELSE [at |-> "loop"]
        /\ xpDry' = FALSE
        /\ UNCHANGED <<xpNet, xpBusy, xpStop, xpQ, xpList, xpBuf, xpCall, xpHalt, xpLost>>
    BY DEF TaskStart
  <1>2. /\ xpTask.at = "idle" /\ xpTask'.at \in {"idle", "loop"} /\ (xpTask' # NoTask \/ xpBusy = "on")
        /\ (xpTask' = NoTask \/ xpTask' = [at |-> "loop"])
    BY <1>1 DEF NoTask
  <1>3. BufsHeld'
    BY <1>0, <1>1, <1>2, BufsTask DEF Busy
  <1>4. XpTypeOK' /\ QueuesListed'
    BY <1>0, <1>1, <1>2 DEF XpTypeOK, QueuesListed
  <1>5. NoStrandedFrame'
    BY <1>1, <1>2 DEF NoStrandedFrame
  <1>6. \A s : UnderWay(s) => UnderWay(s)'
    BY <1>1, <1>2 DEF UnderWay
  <1> QED
    BY <1>0, <1>1, <1>3, <1>4, <1>5, <1>6 DEF XpInv, NothingStranded, QueueWakes

\* The loop of the tasklet ends, or takes a frame.
LEMMA TaskTakeStep == ASSUME XpInv, TaskTake PROVE XpInv'
  <1>0. XpTypeOK /\ QueuesListed /\ BufsHeld /\ NoStrandedFrame /\ QueueWakes
    BY DEF XpInv, NothingStranded
  <1>1. /\ xpTask.at = "loop"
        /\ UNCHANGED <<xpNet, xpBusy, xpStop, xpCall, xpSched, xpHalt, xpLost>>
    BY DEF TaskTake
  <1>2. CASE /\ xpStop \/ FreeBufs = {} \/ ~ rtw_txframes_pending
             /\ xpTask' = NoTask /\ xpDry' = (rtw_txframes_pending /\ CallersHoldAll)
             /\ UNCHANGED <<xpQ, xpList, xpBuf>>
    <2>1. xpTask'.at = "idle"
      BY <1>2 DEF NoTask
    <2>2. BufsHeld'
      BY <1>0, <1>1, <1>2, <2>1, BufsTask DEF Busy
    <2>3. XpTypeOK' /\ QueuesListed'
      BY <1>0, <1>1, <1>2 DEF XpTypeOK, QueuesListed
    <2>4. NoStrandedFrame'
      <3>1. FreeBufs = {} => CallersHoldAll \/ \E b \in XpBufs : xpBuf[b] = "flight"
        BY <1>0, <1>1, BufBusy DEF Busy
      <3> QED
        BY <1>1, <1>2, <3>1 DEF NoStrandedFrame, rtw_txframes_pending
    <2>5. \A s : UnderWay(s) => UnderWay(s)'
      BY <1>1, <1>2 DEF UnderWay
    <2> QED
      BY <1>0, <1>1, <2>2, <2>3, <2>4, <2>5 DEF XpInv, NothingStranded, QueueWakes
  <1>3. ASSUME rtw_txframes_pending, NEW b \in FreeBufs,
               xpBuf' = [xpBuf EXCEPT ![b] = "held"], Dequeue(b), UNCHANGED xpDry
        PROVE  XpInv'
    <2>1. b \in XpBufs /\ xpBuf[b] = "free"
      BY DEF FreeBufs
    <2>2. /\ xpQ' \in [Qs -> Seq(XpFrame)] /\ xpList' \in [AcSet -> Seq(Rcpts)]
          /\ QueuesListed'
          /\ xpTask'.at = "first" /\ xpTask'.f \in XpFrame /\ xpTask'.b = b
          /\ \A s : Waits(s) => Waits(s)' \/ xpTask'.f.sub = s
      BY <1>0, <1>3, <2>1, DequeueOK
    <2>3. /\ xpBuf' \in [XpBufs -> {"free", "held", "flight"}] /\ xpBuf'[b] = "held"
          /\ \A d \in XpBufs \ {b} : xpBuf'[d] = xpBuf[d]
      BY <1>0, <1>3, <2>1 DEF XpTypeOK
    <2>4. XpTypeOK'
      BY <1>0, <1>1, <1>3, <2>1, <2>2, <2>3 DEF XpTypeOK, Busy
    <2>5. BufsHeld'
      <3>0. xpTask.at \notin Busy /\ xpTask'.at \in Busy
        BY <1>1, <2>2 DEF Busy
      <3>1. \A d \in XpCallers : xpCall[d].at = "direct" =>
               xpBuf[xpCall[d].b] = "held" /\ xpCall[d].b \in XpBufs /\ xpCall[d].b # b
        BY <1>0, <2>1 DEF BufsHeld, XpTypeOK, NoCaller
      <3>2. \A d \in XpCallers : xpCall'[d].at = "direct" => xpBuf'[xpCall'[d].b] = "held" /\ xpCall'[d].b # b
        BY <1>1, <2>3, <3>1
      <3>3. \A d \in XpBufs : xpBuf'[d] = "held" /\ d # b =>
               \E c \in XpCallers : xpCall'[c].at = "direct" /\ xpCall'[c].b = d
        BY <1>0, <1>1, <2>3, <3>0 DEF BufsHeld
      <3>4. \A c \in XpCallers : xpCall'[c].at = "direct" =>
               \A d \in XpCallers \ {c} : xpCall'[d].at = "direct" => xpCall'[d].b # xpCall'[c].b
        BY <1>0, <1>1 DEF BufsHeld
      <3> QED
        BY <2>2, <2>3, <3>0, <3>2, <3>3, <3>4 DEF BufsHeld
    <2>6. NoStrandedFrame'
      <3>1. xpTask' # NoTask
        BY <2>2 DEF NoTask
      <3> QED
        BY <3>1 DEF NoStrandedFrame
    <2>7. \A s : UnderWay(s) => UnderWay(s)'
      <3> SUFFICES ASSUME NEW s, UnderWay(s) PROVE UnderWay(s)'
        OBVIOUS
      <3>1. CASE Waits(s)
        BY <2>2, <3>1 DEF UnderWay, Waits
      <3>2. CASE ~ Waits(s)
        BY <1>1, <3>2 DEF UnderWay, Waits
      <3> QED
        BY <3>1, <3>2
    <2> QED
      BY <1>0, <1>1, <2>2, <2>4, <2>5, <2>6, <2>7 DEF XpInv, NothingStranded, QueueWakes
  <1> QED
    BY <1>2, <1>3 DEF TaskTake

\* The first frame of a transfer is coalesced, or freed for the next one.
LEMMA TaskFirstStep == ASSUME XpInv, TaskFirst PROVE XpInv'
  <1>0. XpTypeOK /\ QueuesListed /\ BufsHeld /\ NoStrandedFrame /\ QueueWakes
    BY DEF XpInv, NothingStranded
  <1>a. PICK f, b : f = xpTask.f /\ b = xpTask.b
    OBVIOUS
  <1>1. /\ xpTask.at = "first" /\ rtw_os_pkt_complete({f.sub})
        /\ UNCHANGED <<xpNet, xpBusy, xpStop, xpCall, xpSched, xpDry>>
    BY <1>a DEF TaskFirst
  <1>2. f \in XpFrame /\ b \in XpBufs /\ xpTask.at \in Busy
    BY <1>0, <1>1, <1>a DEF XpTypeOK, NoTask, Busy
  <1>3. \A s : UnderWay(s) => \/ s = f.sub \/ Waits(s)
                              \/ \E c \in XpCallers : xpCall[c] # NoCaller /\ xpCall[c].f.sub = s
    BY <1>a DEF UnderWay, Waits
  <1>4. xpHalt' = xpHalt \ {f.sub} /\ xpLost' = xpLost \ {f.sub}
    BY <1>1 DEF rtw_os_pkt_complete
  <1>5. CASE xpTask' = [at |-> "agg", f |-> f, b |-> b] /\ UNCHANGED <<xpQ, xpList, xpBuf>>
    <2>1. xpTask'.at = "agg" /\ xpTask'.f = f /\ xpTask'.b = b
      BY <1>5
    <2>2. BufsHeld'
      BY <1>0, <1>1, <1>2, <1>5, <1>a, <2>1, BufsTask DEF Busy
    <2>3. XpTypeOK' /\ QueuesListed'
      BY <1>0, <1>1, <1>2, <1>5, <2>1 DEF XpTypeOK, QueuesListed, Busy
    <2>4. NoStrandedFrame'
      BY <2>1 DEF NoStrandedFrame, NoTask
    <2>5. QueueWakes'
      BY <1>0, <1>1, <1>3, <1>4, <1>5 DEF QueueWakes, UnderWay, Waits
    <2> QED
      BY <2>2, <2>3, <2>4, <2>5 DEF XpInv, NothingStranded
  <1>6. CASE rtw_txframes_pending /\ Dequeue(b) /\ UNCHANGED xpBuf
    <2>2. /\ xpQ' \in [Qs -> Seq(XpFrame)] /\ xpList' \in [AcSet -> Seq(Rcpts)]
          /\ QueuesListed'
          /\ xpTask'.at = "first" /\ xpTask'.f \in XpFrame /\ xpTask'.b = b
          /\ \A s : Waits(s) => Waits(s)' \/ xpTask'.f.sub = s
      BY <1>0, <1>2, <1>6, DequeueOK
    <2>3. BufsHeld'
      BY <1>0, <1>1, <1>2, <1>6, <1>a, <2>2, BufsTask DEF Busy
    <2>4. XpTypeOK'
      BY <1>0, <1>1, <1>2, <1>6, <2>2 DEF XpTypeOK, Busy
    <2>5. NoStrandedFrame'
      BY <2>2 DEF NoStrandedFrame, NoTask
    <2>6. QueueWakes'
      <3> SUFFICES ASSUME NEW s \in xpHalt' PROVE UnderWay(s)' \/ s \in xpLost'
        BY DEF QueueWakes
      <3>1. s \in xpHalt /\ s # f.sub
        BY <1>4
      <3>2. CASE s \in xpLost
        BY <1>4, <3>1, <3>2
      <3>3. CASE Waits(s)
        BY <2>2, <3>3 DEF UnderWay, Waits
      <3>4. CASE \E c \in XpCallers : xpCall[c] # NoCaller /\ xpCall[c].f.sub = s
        BY <1>1, <3>4 DEF UnderWay
      <3> QED
        BY <1>0, <1>3, <3>1, <3>2, <3>3, <3>4 DEF QueueWakes
    <2> QED
      BY <2>2, <2>3, <2>4, <2>5, <2>6 DEF XpInv, NothingStranded
  <1>7. CASE /\ ~ rtw_txframes_pending /\ xpBuf' = [xpBuf EXCEPT ![b] = "free"]
             /\ xpTask' = NoTask /\ UNCHANGED <<xpQ, xpList>>
    <2>1. xpTask'.at \notin Busy
      BY <1>7 DEF NoTask, Busy
    <2>2. BufsHeld' /\ xpBuf' \in [XpBufs -> {"free", "held", "flight"}]
      BY <1>0, <1>1, <1>2, <1>7, <1>a, <2>1, BufReleased
    <2>3. XpTypeOK' /\ QueuesListed'
      BY <1>0, <1>1, <1>7, <2>2 DEF XpTypeOK, QueuesListed
    <2>4. NoStrandedFrame'
      BY <1>7 DEF NoStrandedFrame, rtw_txframes_pending
    <2>5. QueueWakes'
      BY <1>0, <1>1, <1>3, <1>4, <1>7 DEF QueueWakes, UnderWay, Waits
    <2> QED
      BY <2>2, <2>3, <2>4, <2>5 DEF XpInv, NothingStranded
  <1> QED
    BY <1>5, <1>6, <1>7, <1>a DEF TaskFirst

\* The aggregation loop.
LEMMA TaskAggregateStep == ASSUME XpInv, TaskAggregate PROVE XpInv'
  <1>0. XpTypeOK /\ QueuesListed /\ BufsHeld /\ NoStrandedFrame /\ QueueWakes
    BY DEF XpInv, NothingStranded
  <1>a. PICK f, b : f = xpTask.f /\ b = xpTask.b
    OBVIOUS
  <1>1. /\ xpTask.at = "agg" /\ UNCHANGED <<xpNet, xpBusy, xpStop, xpCall, xpSched, xpBuf, xpDry>>
        /\ xpTask'.at = "send" /\ xpTask'.f = f /\ xpTask'.b = b
    <2>1. \E m : xpTask' = [at |-> "send", f |-> f, b |-> b, more |-> m]
      <3>1. \/ xpTask' = [at |-> "send", f |-> xpTask.f, b |-> xpTask.b, more |-> << >>]
            \/ xpTask' = [at |-> "send", f |-> xpTask.f, b |-> xpTask.b,
                          more |-> IF CoalesceOk(Head(xpQ[QOf(xpTask.f)])) THEN <<Head(xpQ[QOf(xpTask.f)])>> ELSE << >>]
        BY DEF TaskAggregate
      <3> QED
        BY <1>a, <3>1
    <2>2. xpTask.at = "agg" /\ UNCHANGED <<xpNet, xpBusy, xpStop, xpCall, xpSched, xpBuf, xpDry>>
      BY DEF TaskAggregate
    <2> QED
      BY <2>1, <2>2
  <1>2. f \in XpFrame /\ b \in XpBufs /\ xpTask.at \in Busy
    BY <1>0, <1>1, <1>a DEF XpTypeOK, NoTask, Busy
  <1>3. BufsHeld'
    BY <1>0, <1>1, <1>a, <1>2, BufsTask DEF Busy
  <1>4. NoStrandedFrame'
    BY <1>1 DEF NoStrandedFrame, NoTask
  <1>5. CASE UNCHANGED <<xpQ, xpList, xpHalt, xpLost>>
    <2>1. XpTypeOK' /\ QueuesListed'
      BY <1>0, <1>1, <1>2, <1>5 DEF XpTypeOK, QueuesListed, Busy
    <2>2. QueueWakes'
      BY <1>0, <1>1, <1>5 DEF QueueWakes, UnderWay
    <2> QED
      BY <1>3, <1>4, <2>1, <2>2 DEF XpInv, NothingStranded
  <1>6. ASSUME xpQ[QOf(f)] # << >>,
               xpQ' = [xpQ EXCEPT ![QOf(f)] = Tail(xpQ[QOf(f)])],
               xpList' = IF Tail(xpQ[QOf(f)]) = << >> /\ f.to \in Range(xpList[f.ac])
                         THEN [xpList EXCEPT ![f.ac] = Delisted(@, f.to)] ELSE xpList,
               rtw_os_pkt_complete({Head(xpQ[QOf(f)]).sub})
        PROVE  XpInv'
    <2>1. /\ xpQ' \in [Qs -> Seq(XpFrame)] /\ xpList' \in [AcSet -> Seq(Rcpts)]
          /\ QueuesListed'
          /\ \A s : Waits(s) => Waits(s)' \/ Head(xpQ[QOf(f)]).sub = s
      BY <1>0, <1>2, <1>6, AggregateOK
    <2>2. XpTypeOK'
      BY <1>0, <1>1, <1>2, <2>1 DEF XpTypeOK, Busy
    <2>3. \A s : UnderWay(s) => UnderWay(s)' \/ Head(xpQ[QOf(f)]).sub = s
      <3> SUFFICES ASSUME NEW s, UnderWay(s) PROVE UnderWay(s)' \/ Head(xpQ[QOf(f)]).sub = s
        OBVIOUS
      <3>1. CASE Waits(s)
        BY <2>1, <3>1 DEF UnderWay, Waits
      <3>2. CASE ~ Waits(s)
        BY <1>1, <3>2 DEF UnderWay, Waits
      <3> QED
        BY <3>1, <3>2
    <2>4. QueueWakes'
      BY <1>0, <1>6, <2>3 DEF QueueWakes, rtw_os_pkt_complete
    <2> QED
      BY <1>3, <1>4, <2>1, <2>2, <2>4 DEF XpInv, NothingStranded
  <1> QED
    BY <1>5, <1>6, <1>a DEF TaskAggregate

\* The transfer is submitted, or refused.
LEMMA TaskSendStep == ASSUME XpInv, TaskSend PROVE XpInv'
  <1>0. XpTypeOK /\ QueuesListed /\ BufsHeld /\ NoStrandedFrame /\ QueueWakes
    BY DEF XpInv, NothingStranded
  <1>1. /\ xpTask.at = "send" /\ xpTask' = [at |-> "loop"]
        /\ UNCHANGED <<xpNet, xpBusy, xpStop, xpQ, xpList, xpCall, xpSched, xpHalt, xpLost, xpDry>>
    BY DEF TaskSend
  <1>2. PICK st \in {"free", "flight"} : xpBuf' = [xpBuf EXCEPT ![xpTask.b] = st]
    BY DEF TaskSend, _rtlw_usb_transmit
  <1>3. xpTask.at \in Busy /\ xpTask'.at \notin Busy /\ xpTask' # NoTask
    BY <1>1 DEF Busy, NoTask
  <1>4. BufsHeld' /\ xpBuf' \in [XpBufs -> {"free", "held", "flight"}]
    BY <1>0, <1>1, <1>2, <1>3, BufReleased
  <1>5. XpTypeOK' /\ QueuesListed'
    BY <1>0, <1>1, <1>4 DEF XpTypeOK, QueuesListed
  <1>6. NoStrandedFrame'
    BY <1>3 DEF NoStrandedFrame
  <1>7. QueueWakes'
    BY <1>0, <1>1 DEF QueueWakes, UnderWay
  <1> QED
    BY <1>4, <1>5, <1>6, <1>7 DEF XpInv, NothingStranded

\* _rtl_tx_complete schedules the tasklet.
LEMMA CompleteStep == ASSUME XpInv, NEW b \in XpBufs, _rtl_tx_complete(b) PROVE XpInv'
  <1>0. XpTypeOK /\ QueuesListed /\ BufsHeld /\ NoStrandedFrame /\ QueueWakes
    BY DEF XpInv, NothingStranded
  <1>1. /\ xpBuf[b] = "flight" /\ xpBuf' = [xpBuf EXCEPT ![b] = "free"] /\ xpSched' = TRUE
        /\ UNCHANGED <<xpNet, xpBusy, xpStop, xpQ, xpList, xpCall, xpTask, xpHalt, xpLost, xpDry>>
    BY DEF _rtl_tx_complete
  <1>2. /\ xpBuf' \in [XpBufs -> {"free", "held", "flight"}]
        /\ \A d \in XpBufs : xpBuf'[d] = "held" <=> xpBuf[d] = "held"
    BY <1>0, <1>1 DEF XpTypeOK
  <1>3. \A d \in XpCallers : xpCall[d].at = "direct" => xpCall[d].b \in XpBufs
    BY <1>0 DEF XpTypeOK, NoCaller
  <1>4. xpTask.at \in Busy => xpTask.b \in XpBufs
    BY <1>0 DEF XpTypeOK, NoTask, Busy
  <1>5. BufsHeld'
    BY <1>0, <1>1, <1>2, <1>3, <1>4 DEF BufsHeld
  <1>6. XpTypeOK' /\ QueuesListed' /\ NoStrandedFrame'
    BY <1>0, <1>1, <1>2 DEF XpTypeOK, QueuesListed, NoStrandedFrame
  <1>7. QueueWakes'
    BY <1>0, <1>1 DEF QueueWakes, UnderWay
  <1> QED
    BY <1>5, <1>6, <1>7 DEF XpInv, NothingStranded

\* The peer goes.
LEMMA PeerGoneStep == ASSUME XpInv, PeerGone PROVE XpInv'
  <1>0. XpTypeOK /\ QueuesListed /\ BufsHeld /\ NoStrandedFrame /\ QueueWakes
    BY DEF XpInv, NothingStranded
  <1>1. /\ UNCHANGED <<xpNet, xpBusy, xpStop, xpBuf, xpCall, xpTask, xpSched, xpDry>>
        /\ xpList' = [a \in AcSet |-> Delisted(xpList[a], "sta")]
    BY DEF PeerGone
  <1>2. /\ xpQ' \in [Qs -> Seq(XpFrame)] /\ xpList' \in [AcSet -> Seq(Rcpts)]
        /\ QueuesListed'
        /\ \A s \in xpHalt' : Waits(s) => Waits(s)'
    BY <1>0, PeerGoneOK
  <1>3. XpTypeOK' /\ BufsHeld'
    BY <1>0, <1>1, <1>2 DEF XpTypeOK, BufsHeld
  <1>4. rtw_txframes_pending' => rtw_txframes_pending
    <2> SUFFICES ASSUME NEW a \in AcSet, xpList'[a] # << >>, xpList[a] = << >> PROVE FALSE
      BY DEF rtw_txframes_pending
    <2>1. Range(<< >>) = {}
      BY DEF Range
    <2>2. xpList'[a] = << >>
      BY <1>1, <2>1 DEF Delisted
    <2> QED
      BY <2>2
  <1>5. NoStrandedFrame'
    BY <1>0, <1>1, <1>4 DEF NoStrandedFrame
  <1>6. xpHalt' \subseteq xpHalt /\ \A s \in xpHalt' : s \in xpLost => s \in xpLost'
    BY DEF PeerGone, rtw_os_pkt_complete
  <1>7. QueueWakes'
    <2> SUFFICES ASSUME NEW s \in xpHalt' PROVE UnderWay(s)' \/ s \in xpLost'
      BY DEF QueueWakes
    <2>1. CASE Waits(s)
      BY <1>2, <2>1 DEF UnderWay, Waits
    <2>2. CASE ~ Waits(s)
      BY <1>0, <1>1, <1>6, <2>2 DEF QueueWakes, UnderWay, Waits
    <2> QED
      BY <2>1, <2>2
  <1> QED
    BY <1>2, <1>3, <1>5, <1>7 DEF XpInv, NothingStranded

\* Steps that leave frames and buffers alone.
LEMMA OtherStep ==
  ASSUME XpInv, xpBusy' \in {"no", "on", "ends"},
         UNCHANGED <<xpNet, xpQ, xpList, xpBuf, xpCall, xpTask, xpHalt, xpLost, xpDry>>,
         \/ UNCHANGED <<xpBusy, xpStop, xpSched>>
         \/ xpBusy' # "no" \/ xpStop' \/ (rtw_txframes_pending => xpSched')
  PROVE  XpInv'
  <1>1. XpTypeOK' /\ QueuesListed' /\ BufsHeld' /\ NoStrandedFrame'
    BY DEF XpInv, NothingStranded, XpTypeOK, QueuesListed, BufsHeld, NoStrandedFrame, rtw_txframes_pending
  <1>2. QueueWakes'
    BY DEF XpInv, NothingStranded, QueueWakes, UnderWay
  <1> QED
    BY <1>1, <1>2 DEF XpInv, NothingStranded

\* The invariant holds throughout.
LEMMA XpInvariant == XpSpec => []XpInv
  <1>1. _rtw_init_xmit_priv => XpInv
    <2> SUFFICES ASSUME _rtw_init_xmit_priv PROVE XpInv
      OBVIOUS
    <2>1. \A q \in Qs : xpQ[q] = << >>
      BY DEF _rtw_init_xmit_priv
    <2>2. \A a \in AcSet : xpList[a] = << >> /\ \A r \in Rcpts : <<r, a>> \in Qs
      BY DEF _rtw_init_xmit_priv, Qs
    <2>3. QueuesListed
      BY <2>1, <2>2 DEF QueuesListed, Range, IsInjective
    <2>a. xpDry \in BOOLEAN
      BY DEF _rtw_init_xmit_priv
    <2>b. /\ xpNet \in XpNets /\ xpBusy \in {"no", "on", "ends"} /\ xpTask = NoTask
          /\ xpQ = [q \in Qs |-> << >>] /\ xpList = [a \in AcSet |-> << >>]
          /\ xpBuf = [b \in XpBufs |-> "free"] /\ xpCall = [c \in XpCallers |-> NoCaller]
      BY DEF _rtw_init_xmit_priv
    <2>4. XpTypeOK
      BY <2>a, <2>b DEF XpTypeOK
    <2>5. BufsHeld /\ NothingStranded
      BY <2>2 DEF _rtw_init_xmit_priv, BufsHeld, NothingStranded, NoStrandedFrame,
                  rtw_txframes_pending, QueueWakes, NoCaller, NoTask, Busy
    <2> QED
      BY <2>3, <2>4, <2>5 DEF XpInv
  <1>2. XpInv /\ [XpNext]_xpVars => XpInv'
    <2> SUFFICES ASSUME XpInv, [XpNext]_xpVars PROVE XpInv'
      OBVIOUS
    <2>1. CASE \E c \in XpCallers : \/ \E p \in XpPkts : rtw_xmit_entry(c, p)
                                    \/ PreDirect(c) \/ PreEnqueue(c) \/ xmitframe_direct(c)
      BY <2>1, EntryStep, PreDirectStep, PreEnqueueStep, DirectStep
    <2>2. CASE TaskStart \/ TaskTake \/ TaskFirst \/ TaskAggregate \/ TaskSend
      BY <2>2, TaskStartStep, TaskTakeStep, TaskFirstStep, TaskAggregateStep, TaskSendStep
    <2>3. CASE \E b \in XpBufs : _rtl_tx_complete(b)
      BY <2>3, CompleteStep
    <2>4. xpBusy \in {"no", "on", "ends"}
      BY DEF XpInv, XpTypeOK
    <2>5. CASE SurveyStep \/ rtw_os_xmit_schedule \/ KeysSet \/ DriverStops
      BY <2>4, <2>5, OtherStep DEF SurveyStep, rtw_os_xmit_schedule, KeysSet, DriverStops
    <2>6. CASE \E q \in Qs : IssueAddba(q) \/ AddbaResponse(q)
      BY <2>4, <2>6, OtherStep DEF IssueAddba, AddbaResponse
    <2>7. CASE PeerGone
      BY <2>7, PeerGoneStep
    <2>8. CASE UNCHANGED xpVars
      BY <2>4, <2>8, OtherStep DEF xpVars
    <2> QED
      BY <2>1, <2>2, <2>3, <2>5, <2>6, <2>7, <2>8 DEF XpNext
  <1> QED
    BY <1>1, <1>2, PTL DEF XpSpec

\* However packets, the tasklet, completions, surveys and the end of the link
\* interleave, and for any sets of callers and buffers and any pool of frames,
\* a frame that waits has a tasklet, a transfer or a survey that will have it
\* sent, unless it was queued or left while the callers held every buffer
\* (xpDry); and a stopped queue of the stack has a packet that will wake it,
\* unless the packet that stopped it was refused (rtw_os_xmit_schedule,
\* _rtl_tx_complete, rtw_os_pkt_complete).
THEOREM FramesServed == XpSpec => []NothingStranded
  <1>1. XpInv => NothingStranded
    BY DEF XpInv
  <1> QED
    BY <1>1, XpInvariant, PTL

\* Fewer callers than buffers cannot hold all of them.
LEMMA FewCallers ==
  ASSUME IsFiniteSet(XpCallers), Cardinality(XpCallers) < Cardinality(XpBufs)
  PROVE  ~ CallersHoldAll
  <1> SUFFICES ASSUME CallersHoldAll PROVE FALSE
    OBVIOUS
  <1> DEFINE f == [c \in XpCallers |-> xpCall[c].b]
             T == {xpCall[c].b : c \in XpCallers}
  <1>1. XpBufs \in SUBSET T
    BY DEF CallersHoldAll
  <1>2. f \in Surjection(XpCallers, T)
    BY DEF Surjection
  <1>3. IsFiniteSet(T) /\ Cardinality(T) <= Cardinality(XpCallers)
    BY <1>2, FS_Surjection
  <1>4. Cardinality(XpBufs) <= Cardinality(T) /\ IsFiniteSet(XpBufs)
    BY <1>1, <1>3, FS_Subset
  <1>5. Cardinality(XpBufs) \in Nat /\ Cardinality(T) \in Nat /\ Cardinality(XpCallers) \in Nat
    BY <1>3, <1>4, FS_CardinalityType
  <1> QED
    BY <1>3, <1>4, <1>5

\* As long as fewer contexts than there are transmit buffers are in
\* rtw_xmit_entry at a time, the exception of NothingStranded does not arise:
\* every frame that waits will be sent (pre_xmitframe, rtl8812au_xmit_tasklet).
THEOREM FewNeverDry ==
  ASSUME IsFiniteSet(XpCallers), Cardinality(XpCallers) < Cardinality(XpBufs)
  PROVE  XpSpec => [](NothingStranded /\ ~ xpDry)
  <1>1. _rtw_init_xmit_priv => ~ xpDry
    BY DEF _rtw_init_xmit_priv
  <1>2. ~ xpDry /\ [XpNext]_xpVars => ~ xpDry'
    <2> SUFFICES ASSUME ~ xpDry, [XpNext]_xpVars PROVE ~ xpDry'
      OBVIOUS
    <2>1. ~ CallersHoldAll
      BY FewCallers
    <2>2. CASE \E c \in XpCallers : \/ \E p \in XpPkts : rtw_xmit_entry(c, p)
                                    \/ PreDirect(c) \/ PreEnqueue(c) \/ xmitframe_direct(c)
      BY <2>1, <2>2 DEF rtw_xmit_entry, PreDirect, PreEnqueue, xmitframe_direct
    <2>3. CASE TaskStart \/ TaskTake \/ TaskFirst \/ TaskAggregate \/ TaskSend
      BY <2>1, <2>3 DEF TaskStart, TaskTake, TaskFirst, TaskAggregate, TaskSend
    <2>4. CASE \E b \in XpBufs : _rtl_tx_complete(b)
      BY <2>4 DEF _rtl_tx_complete
    <2>5. CASE SurveyStep \/ rtw_os_xmit_schedule \/ KeysSet \/ DriverStops
      BY <2>5 DEF SurveyStep, rtw_os_xmit_schedule, KeysSet, DriverStops
    <2>6. CASE PeerGone
      BY <2>6 DEF PeerGone
    <2>7. CASE \E q \in Qs : IssueAddba(q) \/ AddbaResponse(q)
      BY <2>7 DEF IssueAddba, AddbaResponse
    <2>8. CASE UNCHANGED xpVars
      BY <2>8 DEF xpVars
    <2> QED
      BY <2>2, <2>3, <2>4, <2>5, <2>6, <2>7, <2>8 DEF XpNext
  <1>3. XpSpec => [](~ xpDry)
    BY <1>1, <1>2, PTL DEF XpSpec
  <1> QED
    BY <1>3, FramesServed, PTL
-----------------------------------------------------------------------------
(* The layout of a transfer *)

\* What rtw_xmitframe_coalesce builds of a packet that needs no fragments is as
\* long as xmitframe_need_length said.
LEMMA SizeFacts ==
  ASSUME xpNet \in XpNets, NEW f \in XpFrame
  PROVE  /\ xmitframe_need_length(f) \in Nat /\ xmitframe_need_length(f) <= 2400
         /\ last_txcmdsz(f) = xmitframe_need_length(f)
  <1> DEFINE icv == Icv(f)
             mic == IF f.enc = "tkip" THEN TxMicLen ELSE 0
  <1>1. /\ f.hdr \in {24, 26} /\ f.iv \in {0, 4, 8} /\ f.icv \in {0, 4, 8}
        /\ f.pktlen \in Nat /\ f.pktlen + 4 + 26 + 8 + 8 + 8 <= xpNet.frag
        /\ xpNet.frag \in Nat /\ xpNet.frag <= 2346
    BY XpSizes DEF XpFrame, LlcLen
  <1>2. icv \in Nat /\ icv <= 8 /\ mic \in {0, 8}
    BY <1>1 DEF Icv, TxMicLen
  <1>3. FirstRoom(f) = xpNet.frag - 4 - f.hdr - f.iv - 8 - icv
    BY DEF FirstRoom, LlcLen
  <1>4. xmitframe_need_length(f) = f.hdr + f.iv + 8 + f.pktlen + icv + mic
    BY DEF xmitframe_need_length, Icv, LlcLen
  <1> HIDE DEF icv, mic
  <1>5. f.pktlen <= FirstRoom(f)
    BY <1>1, <1>2, <1>3
  <1>6. nr_frags(f) = 1
    BY <1>5 DEF nr_frags
  <1>7. last_txcmdsz(f) = f.hdr + f.iv + 8 + icv + f.pktlen + mic
    BY <1>6 DEF last_txcmdsz, LlcLen, icv, mic
  <1> QED
    BY <1>1, <1>2, <1>4, <1>7

\* Eight bytes more, or less, and the transfer does not end on a full packet.
LEMMA Remainders ==
  ASSUME NEW n \in Nat, NEW bulk \in {64, 512, 1024}
  PROVE  /\ n % 64 # 0 => n % bulk # 0
         /\ n % 64 = 0 => (n + 8) % bulk # 0
         /\ n % bulk = 0 => (n + 8) % bulk # 0
         /\ n % bulk = 0 /\ n >= 8 => (n - 8) % bulk # 0
  <1>1. CASE bulk = 64
    BY <1>1, Z3
  <1>2. CASE bulk = 512
    BY <1>2, Z3
  <1>3. CASE bulk = 1024
    BY <1>3, Z3
  <1> QED
    BY <1>1, <1>2, <1>3

\* _RND8 rounds up.
LEMMA Round8Facts == ASSUME NEW n \in Nat PROVE Round8(n) \in Nat /\ n <= Round8(n)
  BY Z3 DEF Round8

\* update_txdesc and rtw_dump_xframe for a single frame.
LEMMA DirectWhole ==
  ASSUME xpNet \in XpNets, NEW f \in XpFrame
  PROVE  Whole(DirectTransfer(f))
  <1> DEFINE sz == last_txcmdsz(f)
             t == DirectTransfer(f)
  <1>1. sz \in Nat /\ sz <= 2400 /\ xmitframe_need_length(f) = sz
    BY SizeFacts
  <1>2. xpNet.bulk \in {64, 512, 1024}
    BY XpSizes
  <1> HIDE DEF sz
  <1>3. CASE rtw_usb_bulk_size_boundary(TXDESC_SIZE + sz)
    <2>1. /\ t.start = 0 /\ t.cnt = sz + 48 /\ t.agg = 1 /\ Len(t.pkts) = 1
          /\ t.pkts[1] = [pos |-> 0, off |-> 1, size |-> sz, data |-> 48, len |-> sz]
      BY <1>1, <1>3 DEF DirectTransfer, Packet, TXDESC_SIZE, PACKET_OFFSET_SZ, sz
    <2>2. (sz + 40) % (IF xpNet.bulk = 512 THEN 512 ELSE 64) = 0
      BY <1>1, <1>3 DEF rtw_usb_bulk_size_boundary, TXDESC_SIZE
    <2>3. ((sz + 40) + 8) % xpNet.bulk # 0
      BY <1>1, <1>2, <2>2, Remainders
    <2>4. t.cnt % xpNet.bulk # 0
      <3>1. t.cnt = (sz + 40) + 8
        BY <1>1, <2>1
      <3> QED
        BY <2>3, <3>1
    <2> QED
      BY <1>1, <2>1, <2>4 DEF Whole, EndOf, TXDESC_SIZE, PACKET_OFFSET_SZ, MAX_XMITBUF_SZ
  <1>4. CASE ~ rtw_usb_bulk_size_boundary(TXDESC_SIZE + sz)
    <2>1. /\ t.start = 8 /\ t.cnt = sz + 40 /\ t.agg = 1 /\ Len(t.pkts) = 1
          /\ t.pkts[1] = [pos |-> 8, off |-> 0, size |-> sz, data |-> 48, len |-> sz]
      BY <1>1, <1>4 DEF DirectTransfer, Packet, TXDESC_SIZE, PACKET_OFFSET_SZ, sz
    <2>2. (sz + 40) % (IF xpNet.bulk = 512 THEN 512 ELSE 64) # 0
      BY <1>1, <1>4 DEF rtw_usb_bulk_size_boundary, TXDESC_SIZE
    <2>3. (sz + 40) % xpNet.bulk # 0
      BY <1>1, <1>2, <2>2, Remainders
    <2> QED
      BY <1>1, <2>1, <2>3 DEF Whole, EndOf, TXDESC_SIZE, PACKET_OFFSET_SZ, MAX_XMITBUF_SZ
  <1> QED
    BY <1>3, <1>4

\* rtl8812au_xmitframe_complete for one frame or two.
LEMMA AggWhole ==
  ASSUME xpNet \in XpNets, NEW f \in XpFrame,
         NEW more, more = << >> \/ \E g \in XpFrame : more = <<g>> /\ Fits(FirstTail(f), g)
  PROVE  Whole(AggTransfer(f, more))
  <1> DEFINE sz == xmitframe_need_length(f)
             t == AggTransfer(f, more)
  <1>1. sz \in Nat /\ sz <= 2400 /\ last_txcmdsz(f) = sz
    BY SizeFacts
  <1>2. xpNet.bulk \in {64, 512, 1024}
    BY XpSizes
  <1>3. FirstTail(f) = sz + 48
    BY <1>1 DEF FirstTail, TXDESC_SIZE, PACKET_OFFSET_SZ
  <1> HIDE DEF sz
  <1>4. PICK tail \in Nat : tail = IF more = << >> THEN FirstTail(f) ELSE NextTail(FirstTail(f), more[1])
    <2>1. CASE more = << >>
      BY <1>1, <1>3, <2>1
    <2>2. ASSUME NEW g \in XpFrame, more = <<g>> PROVE NextTail(FirstTail(f), g) \in Nat /\ more # << >> /\ more[1] = g
      <3>1. Round8(sz + 48) \in Nat /\ xmitframe_need_length(g) \in Nat
        BY <1>1, Round8Facts, SizeFacts
      <3> QED
        BY <1>3, <2>2, <3>1 DEF NextTail, TXDESC_SIZE
    <2> QED
      BY <2>1, <2>2
  <1>5. PICK start, off : /\ start = IF tail % xpNet.bulk = 0 THEN 8 ELSE 0
                          /\ off = IF tail % xpNet.bulk = 0 THEN 0 ELSE 1
    OBVIOUS
  <1>6. PICK p1 : p1 = [pos |-> start, off |-> off, size |-> sz, data |-> 48, len |-> sz]
    OBVIOUS
  <1>7. /\ t.start = start /\ t.cnt = tail - start /\ t.agg = 1 + Len(more)
        /\ more = << >> => t.pkts = <<p1>>
        /\ more # << >> => t.pkts = <<p1, Packet(more[1], Round8(sz + 48), 0, Round8(sz + 48) + 40)>>
    BY <1>1, <1>3, <1>4, <1>5, <1>6 DEF AggTransfer, Packet, TXDESC_SIZE, PACKET_OFFSET_SZ, sz
  <1> HIDE DEF t
  <1>8. tail >= 48 /\ tail <= 20480
    <2>1. CASE more = << >>
      BY <1>1, <1>3, <1>4, <2>1
    <2>2. ASSUME NEW g \in XpFrame, more = <<g>>, Fits(FirstTail(f), g) PROVE tail >= 48 /\ tail <= 20480
      <3>1. Round8(sz + 48) \in Nat /\ sz + 48 <= Round8(sz + 48) /\ xmitframe_need_length(g) \in Nat
        BY <1>1, Round8Facts, SizeFacts
      <3>2. tail = Round8(sz + 48) + xmitframe_need_length(g) + 40
        BY <1>3, <1>4, <2>2 DEF NextTail, TXDESC_SIZE
      <3>3. Round8(tail) <= 20480
        BY <1>3, <2>2, <3>2 DEF Fits, TXDESC_SIZE, MAX_XMITBUF_SZ
      <3>4. tail <= Round8(tail) /\ Round8(tail) \in Nat
        BY Round8Facts
      <3> QED
        BY <1>1, <3>1, <3>2, <3>3, <3>4
    <2> QED
      BY <2>1, <2>2
  <1>9. (tail - start) % xpNet.bulk # 0 /\ start + (tail - start) = tail /\ start \in Nat /\ off \in Nat /\ start + 40 + 8 * off = 48
    <2>1. CASE tail % xpNet.bulk = 0
      <3>1. (tail - 8) % xpNet.bulk # 0
        BY <1>2, <1>8, <2>1, Remainders
      <3> QED
        BY <1>5, <1>8, <2>1, <3>1
    <2>2. CASE tail % xpNet.bulk # 0
      <3>1. start = 0 /\ off = 1 /\ tail - 0 = tail
        BY <1>5, <2>2
      <3> QED
        BY <2>2, <3>1
    <2> QED
      BY <2>1, <2>2
  <1>10. ASSUME more = << >> PROVE Whole(t)
    <2>1. Len(more) = 0 /\ 1 + 0 = 1
      BY <1>10
    <2>2. t.agg = 1 /\ t.pkts = <<p1>> /\ tail = sz + 48
      BY <1>3, <1>4, <1>7, <1>10, <2>1
    <2>3. Len(t.pkts) = 1 /\ t.pkts[1] = p1
      BY <2>2
    <2>4. /\ p1.pos = start /\ p1.pos + 40 + 8 * p1.off = p1.data /\ p1.size = p1.len
          /\ EndOf(p1) = tail
      BY <1>1, <1>6, <1>9, <2>2 DEF EndOf
    <2>5. \A k \in 1 .. t.agg : k = 1
      BY <2>2
    <2>6. \A k \in 1 .. t.agg :
            LET p == t.pkts[k]
            IN  /\ p.pos = IF k = 1 THEN t.start ELSE Round8(EndOf(t.pkts[k - 1]))
                /\ p.pos + 40 + 8 * p.off = p.data
                /\ p.size = p.len
      BY <1>7, <2>3, <2>4, <2>5
    <2>7. t.agg = 1 /\ Len(t.pkts) = 1 /\ t.pkts[1] = p1 /\ EndOf(p1) = tail
      BY <2>2, <2>3, <2>4
    <2> QED
      BY <1>7, <1>8, <1>9, <2>6, <2>7 DEF Whole, TXDESC_SIZE, PACKET_OFFSET_SZ, MAX_XMITBUF_SZ
  <1>11. ASSUME NEW g \in XpFrame, more = <<g>> PROVE Whole(t)
    <2>1. PICK s2 \in Nat : s2 = xmitframe_need_length(g) /\ last_txcmdsz(g) = s2
      BY SizeFacts
    <2>2. PICK pos2 \in Nat : pos2 = Round8(sz + 48)
      BY <1>1, Round8Facts
    <2>3. PICK p2 : p2 = [pos |-> pos2, off |-> 0, size |-> s2, data |-> pos2 + 40, len |-> s2]
      OBVIOUS
    <2>4. t.agg = 2 /\ Len(t.pkts) = 2 /\ t.pkts[1] = p1 /\ t.pkts[2] = p2
      <3>1. Len(more) = 1 /\ 1 + 1 = 2 /\ more # << >> /\ more[1] = g
        BY <1>11
      <3>2. Packet(g, pos2, 0, pos2 + 40) = p2
        BY <2>1, <2>3 DEF Packet
      <3>3. t.agg = 2 /\ t.pkts = <<p1, p2>>
        BY <1>7, <2>2, <3>1, <3>2
      <3> QED
        BY <3>3
    <2>5. tail = pos2 + s2 + 40
      BY <1>3, <1>4, <1>11, <2>1, <2>2 DEF NextTail, TXDESC_SIZE
    <2>6. EndOf(p1) = sz + 48 /\ EndOf(p2) = tail
      BY <1>1, <1>6, <2>3, <2>5 DEF EndOf
    <2>7. \A k \in 1 .. 2 : k = 1 \/ k = 2
      OBVIOUS
    <2>8. /\ p1.pos = start /\ p1.pos + 40 + 8 * p1.off = p1.data /\ p1.size = p1.len
          /\ p2.pos = Round8(EndOf(p1)) /\ p2.pos + 40 + 8 * p2.off = p2.data /\ p2.size = p2.len
      BY <1>6, <1>9, <2>2, <2>3, <2>6
    <2>9. \A k \in 1 .. t.agg :
            LET p == t.pkts[k]
            IN  /\ p.pos = IF k = 1 THEN t.start ELSE Round8(EndOf(t.pkts[k - 1]))
                /\ p.pos + 40 + 8 * p.off = p.data
                /\ p.size = p.len
      <3> SUFFICES ASSUME NEW k \in 1 .. 2
                   PROVE  /\ t.pkts[k].pos = IF k = 1 THEN t.start ELSE Round8(EndOf(t.pkts[k - 1]))
                          /\ t.pkts[k].pos + 40 + 8 * t.pkts[k].off = t.pkts[k].data
                          /\ t.pkts[k].size = t.pkts[k].len
        BY <2>4
      <3>1. CASE k = 1
        BY <1>7, <2>4, <2>8, <3>1
      <3>2. CASE k = 2
        <4>1. k - 1 = 1 /\ k # 1
          BY <3>2
        <4> QED
          BY <2>4, <2>8, <3>2, <4>1
      <3> QED
        BY <2>7, <3>1, <3>2
    <2> QED
      BY <1>7, <1>8, <1>9, <2>4, <2>6, <2>9 DEF Whole, TXDESC_SIZE, PACKET_OFFSET_SZ, MAX_XMITBUF_SZ
  <1> QED
    BY <1>10, <1>11 DEF t

\* What the aggregation loop added to the first frame fits the buffer.
SendOK ==
    xpTask.at = "send" =>
      \/ xpTask.more = << >>
      \/ \E g \in XpFrame : xpTask.more = <<g>> /\ Fits(FirstTail(xpTask.f), g)

\* _rtlw_usb_transmit submits what it is given, or nothing.
LEMMA TransmitWhole ==
  ASSUME TransferWhole, UNCHANGED xpNet, NEW b, NEW t, Whole(t), _rtlw_usb_transmit(b, t)
  PROVE  TransferWhole'
  <1>1. CASE xpOut' = <<t>>
    <2>1. \A i \in DOMAIN xpOut' : xpOut'[i] = t
      BY <1>1
    <2> QED
      BY <2>1 DEF TransferWhole, Whole
  <1>2. CASE xpOut' = << >>
    BY <1>2 DEF TransferWhole
  <1> QED
    BY <1>1, <1>2 DEF _rtlw_usb_transmit

\* For packets of every length up to the fragmentation threshold, every cipher
\* and every speed of the bus, the chip finds each frame of a transfer whole
\* where its descriptor says, and no transfer ends on a full USB packet or
\* exceeds its buffer.
THEOREM TransfersWhole == XpSpec => []TransferWhole
  <1>1. _rtw_init_xmit_priv => SendOK /\ TransferWhole
    BY DEF _rtw_init_xmit_priv, SendOK, TransferWhole, NoTask
  <1>2. XpTypeOK /\ SendOK /\ TransferWhole /\ [XpNext]_xpVars => SendOK' /\ TransferWhole'
    <2> SUFFICES ASSUME XpTypeOK, SendOK, TransferWhole, [XpNext]_xpVars PROVE SendOK' /\ TransferWhole'
      OBVIOUS
    <2>0. xpNet \in XpNets
      BY DEF XpTypeOK
    <2>1. ASSUME NEW c \in XpCallers, xmitframe_direct(c) PROVE SendOK' /\ TransferWhole'
      <3>1. UNCHANGED <<xpTask, xpNet>> /\ xpCall[c].at = "direct"
        BY <2>1 DEF xmitframe_direct
      <3>2. xpCall[c].f \in XpFrame
        BY <3>1 DEF XpTypeOK, NoCaller
      <3>3. SendOK'
        BY <3>1 DEF SendOK
      <3>4. CASE UNCHANGED xpOut
        BY <3>1, <3>3, <3>4 DEF TransferWhole, Whole
      <3>5. CASE _rtlw_usb_transmit(xpCall[c].b, DirectTransfer(xpCall[c].f))
        <4>1. Whole(DirectTransfer(xpCall[c].f))
          BY <2>0, <3>2, DirectWhole
        <4> QED
          BY <3>1, <3>3, <3>5, <4>1, TransmitWhole
      <3> QED
        BY <2>1, <3>3, <3>4, <3>5 DEF xmitframe_direct
    <2>2. CASE TaskSend
      <3>1. xpTask.at = "send" /\ xpTask' = [at |-> "loop"] /\ UNCHANGED xpNet
            /\ _rtlw_usb_transmit(xpTask.b, AggTransfer(xpTask.f, xpTask.more))
        BY <2>2 DEF TaskSend
      <3>2. xpTask.f \in XpFrame
        BY <3>1 DEF XpTypeOK, NoTask
      <3>3. Whole(AggTransfer(xpTask.f, xpTask.more))
        BY <2>0, <3>1, <3>2, AggWhole DEF SendOK
      <3>4. TransferWhole'
        BY <3>1, <3>3, TransmitWhole
      <3>5. SendOK'
        BY <3>1 DEF SendOK
      <3> QED
        BY <3>4, <3>5
    <2>3. CASE TaskAggregate
      <3>1. UNCHANGED <<xpNet, xpOut>> /\ xpTask.at = "agg"
        BY <2>3 DEF TaskAggregate
      <3>2. TransferWhole'
        BY <3>1 DEF TransferWhole, Whole
      <3>3. PICK f : f = xpTask.f
        OBVIOUS
      <3>4. f \in XpFrame
        BY <3>1, <3>3 DEF XpTypeOK, NoTask
      <3>5. \/ xpTask'.more = << >> /\ xpTask'.f = f
            \/ /\ xpQ[QOf(f)] # << >> /\ Fits(FirstTail(f), Head(xpQ[QOf(f)]))
               /\ xpTask'.f = f /\ xpTask'.more \in {<<Head(xpQ[QOf(f)])>>, << >>}
        <4>1. \/ xpTask' = [at |-> "send", f |-> xpTask.f, b |-> xpTask.b, more |-> << >>]
              \/ /\ xpQ[QOf(f)] # << >> /\ Fits(FirstTail(f), Head(xpQ[QOf(f)]))
                 /\ xpTask' = [at |-> "send", f |-> xpTask.f, b |-> xpTask.b,
                               more |-> IF CoalesceOk(Head(xpQ[QOf(f)])) THEN <<Head(xpQ[QOf(f)])>> ELSE << >>]
          BY <2>3, <3>3 DEF TaskAggregate
        <4> QED
          BY <3>3, <4>1
      <3>6. xpQ[QOf(f)] # << >> => Head(xpQ[QOf(f)]) \in XpFrame
        BY <3>4, QType, TailDistinct DEF XpTypeOK
      <3>7. \/ xpTask'.more = << >>
            \/ \E g \in XpFrame : xpTask'.more = <<g>> /\ Fits(FirstTail(xpTask'.f), g)
        BY <3>5, <3>6
      <3>8. \A g \in XpFrame : Fits(FirstTail(xpTask'.f), g) => Fits(FirstTail(xpTask.f), g)'
        BY DEF Fits, FirstTail, Round8, xmitframe_need_length
      <3> QED
        BY <3>2, <3>7, <3>8 DEF SendOK
    <2>4. CASE UNCHANGED <<xpTask, xpOut, xpNet>>
      BY <2>4 DEF SendOK, TransferWhole, Whole
    <2>5. CASE TaskStart \/ TaskTake \/ TaskFirst
      <3>1. xpTask'.at # "send"
        BY <2>5 DEF TaskStart, TaskTake, TaskFirst, Dequeue, NoTask
      <3>2. UNCHANGED <<xpOut, xpNet>>
        BY <2>5 DEF TaskStart, TaskTake, TaskFirst
      <3> QED
        BY <3>1, <3>2 DEF SendOK, TransferWhole, Whole
    <2>6. ASSUME NEW b \in XpBufs, _rtl_tx_complete(b) PROVE SendOK' /\ TransferWhole'
      BY <2>6 DEF _rtl_tx_complete, SendOK, TransferWhole
    <2>7. CASE \E c \in XpCallers : (\E p \in XpPkts : rtw_xmit_entry(c, p)) \/ PreDirect(c) \/ PreEnqueue(c)
      BY <2>4, <2>7 DEF rtw_xmit_entry, PreDirect, PreEnqueue
    <2>8. CASE \/ SurveyStep \/ rtw_os_xmit_schedule \/ KeysSet \/ PeerGone \/ DriverStops
               \/ \E q \in Qs : IssueAddba(q) \/ AddbaResponse(q)
      <3>1. UNCHANGED <<xpTask, xpOut, xpNet>>
        <4>1. CASE SurveyStep \/ rtw_os_xmit_schedule \/ KeysSet \/ PeerGone \/ DriverStops
          BY <4>1 DEF SurveyStep, rtw_os_xmit_schedule, KeysSet, PeerGone, DriverStops
        <4>2. ASSUME NEW q \in Qs, IssueAddba(q) PROVE UNCHANGED <<xpTask, xpOut, xpNet>>
          BY <4>2 DEF IssueAddba
        <4>3. ASSUME NEW q \in Qs, AddbaResponse(q) PROVE UNCHANGED <<xpTask, xpOut, xpNet>>
          BY <4>3 DEF AddbaResponse
        <4> QED
          BY <2>8, <4>1, <4>2, <4>3
      <3> QED
        BY <2>4, <3>1
    <2>9. CASE UNCHANGED xpVars
      BY <2>4, <2>9 DEF xpVars
    <2> QED
      BY <2>1, <2>2, <2>3, <2>5, <2>6, <2>7, <2>8, <2>9 DEF XpNext
  <1>3. XpSpec => []XpTypeOK
    <2>1. XpInv => XpTypeOK
      BY DEF XpInv
    <2> QED
      BY <2>1, XpInvariant, PTL
  <1> QED
    BY <1>1, <1>2, <1>3, PTL DEF XpSpec
-----------------------------------------------------------------------------
(* The agreements *)

\* How many numbers lie between the start of an agreement and the next one.
Lead(t) == (t.seq + 1 - t.start) % 4096
TidType == [seq : Nat, start : Nat, ba : {"off", "asked", "sent", "on"}, broke : {"no", "yes"}]
\* The sequence numbers of a queue, of which at most n were given to frames
\* since the start of the agreement was set.
TidOK(t, n) ==
    /\ t \in TidType /\ t.seq < 4096 /\ t.start < 4096 /\ t.broke = "no"
    /\ t.ba \in {"sent", "on"} => Lead(t) <= n

\* The frames of a queue that have no sequence number yet: those that wait, that
\* a caller has, and the one the tasklet has taken.
CallersFor(q) == {c \in XpCallers : xpCall[c] # NoCaller /\ QOf(xpCall[c].f) = q}
TaskFor(q) == IF xpTask.at = "first" /\ QOf(xpTask.f) = q THEN 1 ELSE 0
Unnumbered(q) == Len(xpQ[q]) + Cardinality(CallersFor(q)) + TaskFor(q)

\* With an agreement, no more numbers were given since its start than there
\* were packets, less those whose frames are still without one.
SeqsCounted ==
    /\ xpTid \in [Qs -> TidType] /\ xpCnt \in [tx : Nat, fail : Nat] /\ xpCnt.tx <= MaxXpTx
    /\ \A q \in Qs : /\ Unnumbered(q) <= xpCnt.tx
                     /\ TidOK(xpTid[q], xpCnt.tx - Unnumbered(q))

\* The numbers wrap: of a frame and the one after it, and how far they are from
\* the start of an agreement.
LEMMA SeqWrap ==
  ASSUME NEW x \in Nat, NEW y \in Nat, x < 4096, y < 4096,
         NEW z, z = (x + 1) % 4096, NEW w, w = (z + 1) % 4096
  PROVE  /\ z \in Nat /\ z < 4096 /\ w \in Nat /\ w < 4096
         /\ (z + 1 - w) % 4096 = 0
         /\ (z - y) % 4096 = (x + 1 - y) % 4096
         /\ (x + 1 - y) % 4096 \in Nat /\ (z + 1 - y) % 4096 <= ((x + 1 - y) % 4096) + 1
  <1>1. z \in Nat /\ z < 4096 /\ z = IF x = 4095 THEN 0 ELSE x + 1
    OBVIOUS
  <1>2. w \in Nat /\ w < 4096 /\ w = IF z = 4095 THEN 0 ELSE z + 1
    BY <1>1
  <1>3. (z + 1 - w) % 4096 = 0
    BY <1>1, <1>2
  <1>4. (x + 1 - y) % 4096 = IF x + 1 >= y THEN (IF x + 1 - y = 4096 THEN 0 ELSE x + 1 - y) ELSE x + 1 - y + 4096
    OBVIOUS
  <1>5. (z - y) % 4096 = IF z >= y THEN z - y ELSE z - y + 4096
    BY <1>1
  <1>6. (z + 1 - y) % 4096 = IF z + 1 >= y THEN (IF z + 1 - y = 4096 THEN 0 ELSE z + 1 - y) ELSE z + 1 - y + 4096
    BY <1>1
  <1>7. (z - y) % 4096 = (x + 1 - y) % 4096
    BY <1>1, <1>4, <1>5
  <1>8. (x + 1 - y) % 4096 \in Nat /\ (z + 1 - y) % 4096 <= ((x + 1 - y) % 4096) + 1
    BY <1>1, <1>4, <1>6
  <1> QED
    BY <1>1, <1>2, <1>3, <1>7, <1>8

\* rtw_make_wlanhdr gives a frame one number, and an agreement whose start is
\* fewer than 2048 numbers behind has the frame aggregated.
LEMMA MakeOK ==
  ASSUME NEW t, NEW n \in Nat, n < 2047, TidOK(t, n)
  PROVE  TidOK(rtw_make_wlanhdr(t), n + 1)
  <1> DEFINE x == t.seq
             y == t.start
             z == (x + 1) % 4096
             w == (z + 1) % 4096
             u == rtw_make_wlanhdr(t)
  <1>0. x \in Nat /\ y \in Nat /\ x < 4096 /\ y < 4096
    BY DEF TidOK, TidType
  <1>1. /\ z \in Nat /\ z < 4096 /\ w \in Nat /\ w < 4096
        /\ (z + 1 - w) % 4096 = 0
        /\ (z - y) % 4096 = (x + 1 - y) % 4096
        /\ (x + 1 - y) % 4096 \in Nat /\ (z + 1 - y) % 4096 <= ((x + 1 - y) % 4096) + 1
    BY <1>0, SeqWrap
  <1>2. /\ t.ba \in {"off", "asked", "sent", "on"}
        /\ t.ba \in {"sent", "on"} => (x + 1 - y) % 4096 <= n
    BY DEF TidOK, TidType, Lead
  <1>3. LET less == t.ba = "on" /\ TX_SN_LESS(z, y)
        IN  u = [seq |-> z, ba |-> t.ba, broke |-> IF less THEN "yes" ELSE "no",
                 start |-> IF t.ba = "on" /\ ~ less THEN w ELSE y]
    BY DEF rtw_make_wlanhdr
  <1> HIDE DEF x, y, z, w, u
  <1>6. CASE t.ba = "on"
    <2>1. (z - y) % 4096 < 2048 /\ (z - y) % 4096 \in Nat
      BY <1>1, <1>2, <1>6
    <2>2. ~ TX_SN_LESS(z, y)
      BY <2>1 DEF TX_SN_LESS
    <2>3. u = [seq |-> z, ba |-> t.ba, broke |-> "no", start |-> w]
      BY <1>3, <1>6, <2>2
    <2>4. u \in TidType /\ u.seq = z /\ u.start = w /\ u.broke = "no"
      BY <1>1, <1>2, <2>3 DEF TidType
    <2>5. Lead(u) = 0
      BY <1>1, <2>4 DEF Lead
    <2>6. TidOK(u, n + 1)
      BY <1>1, <2>4, <2>5 DEF TidOK
    <2> QED
      BY <2>6 DEF u
  <1>7. CASE t.ba # "on"
    <2>1. u = [seq |-> z, ba |-> t.ba, broke |-> "no", start |-> y]
      BY <1>3, <1>7
    <2>2. u \in TidType /\ u.seq = z /\ u.start = y /\ u.ba = t.ba /\ u.broke = "no"
      BY <1>0, <1>1, <1>2, <2>1 DEF TidType
    <2>3. Lead(u) = (z + 1 - y) % 4096
      BY <2>2 DEF Lead
    <2>4. u.ba \in {"sent", "on"} => Lead(u) <= n + 1
      <3> SUFFICES ASSUME u.ba \in {"sent", "on"} PROVE Lead(u) <= n + 1
        OBVIOUS
      <3>1. (x + 1 - y) % 4096 <= n
        BY <1>2, <2>2
      <3>2. PICK a, b \in Int : a = (x + 1 - y) % 4096 /\ b = (z + 1 - y) % 4096
        BY <1>0, <1>1
      <3>3. a <= n /\ b <= a + 1 /\ a \in Nat
        BY <1>1, <3>1, <3>2
      <3>4. b <= n + 1
        BY <3>2, <3>3
      <3> QED
        BY <2>3, <3>2, <3>4
    <2>5. TidOK(u, n + 1)
      BY <1>0, <1>1, <2>2, <2>4 DEF TidOK
    <2> QED
      BY <2>5 DEF u
  <1> QED
    BY <1>6, <1>7

\* A larger bound is a bound.
LEMMA TidMore ==
  ASSUME NEW t, NEW n \in Nat, NEW m \in Nat, n <= m, TidOK(t, n)
  PROVE  TidOK(t, m)
  <1>1. t.seq \in Nat /\ t.start \in Nat
    BY DEF TidOK, TidType
  <1>3. Lead(t) \in Int
    BY <1>1 DEF Lead
  <1> QED
    BY <1>3 DEF TidOK

\* A request for an agreement leaves the numbers alone.
LEMMA AddbaReqOK ==
  ASSUME NEW t, NEW n, TidOK(t, n), NEW f, NEW u \in rtw_issue_addbareq_cmd(t, f)
  PROVE  TidOK(u, n)
  <1>1. u = t \/ u = [t EXCEPT !.ba = "asked"]
    BY DEF rtw_issue_addbareq_cmd
  <1>2. CASE u = [t EXCEPT !.ba = "asked"]
    <2>1. u \in TidType /\ u.seq = t.seq /\ u.start = t.start /\ u.broke = t.broke /\ u.ba = "asked"
      BY <1>2 DEF TidOK, TidType
    <2> QED
      BY <2>1 DEF TidOK
  <1> QED
    BY <1>1, <1>2

\* The numbers given and the packets of a queue: fewer frames without a number
\* leave room for as many numbers.
LEMMA CountStays ==
  ASSUME SeqsCounted, NEW q \in Qs, Unnumbered(q) \in Nat,
         \A n \in Nat : TidOK(xpTid[q], n) => TidOK(xpTid'[q], n),
         NEW k \in Nat, k = Unnumbered(q)', xpCnt.tx - Unnumbered(q) <= xpCnt'.tx - k,
         xpCnt'.tx \in Nat
  PROVE  Unnumbered(q)' <= xpCnt'.tx /\ TidOK(xpTid'[q], xpCnt'.tx - Unnumbered(q)')
  <1>1. PICK n \in Nat, m \in Nat : n = xpCnt.tx - Unnumbered(q) /\ m = xpCnt'.tx - k /\ n <= m
    BY DEF SeqsCounted
  <1>2. TidOK(xpTid[q], n)
    BY <1>1 DEF SeqsCounted
  <1>3. TidOK(xpTid'[q], m)
    BY <1>1, <1>2, TidMore
  <1>4. m = xpCnt'.tx - Unnumbered(q)' /\ Unnumbered(q)' <= xpCnt'.tx
    BY <1>1
  <1> QED
    BY <1>3, <1>4

\* One frame of a queue is numbered.
LEMMA CountMade ==
  ASSUME SeqsCounted, MaxXpTx < 2048, MaxXpTx \in Nat, NEW q \in Qs, Unnumbered(q) \in Nat,
         NEW k \in Nat, k = Unnumbered(q)', k < Unnumbered(q), xpCnt'.tx = xpCnt.tx,
         NEW f, \/ xpTid'[q] = rtw_make_wlanhdr(xpTid[q])
                \/ xpTid'[q] \in rtw_issue_addbareq_cmd(rtw_make_wlanhdr(xpTid[q]), f)
  PROVE  Unnumbered(q)' <= xpCnt'.tx /\ TidOK(xpTid'[q], xpCnt'.tx - Unnumbered(q)')
  <1>1. PICK n \in Nat, m \in Nat : n = xpCnt.tx - Unnumbered(q) /\ m = xpCnt'.tx - k /\ n + 1 <= m /\ n < 2047
    BY DEF SeqsCounted
  <1>2. TidOK(xpTid[q], n)
    BY <1>1 DEF SeqsCounted
  <1>3. TidOK(rtw_make_wlanhdr(xpTid[q]), n + 1)
    BY <1>1, <1>2, MakeOK
  <1>4. TidOK(xpTid'[q], n + 1)
    BY <1>3, AddbaReqOK
  <1>5. TidOK(xpTid'[q], m)
    BY <1>1, <1>4, TidMore
  <1>6. xpCnt'.tx \in Nat
    BY DEF SeqsCounted
  <1>7. m = xpCnt'.tx - Unnumbered(q)' /\ Unnumbered(q)' <= xpCnt'.tx
    BY <1>1, <1>6
  <1> QED
    BY <1>5, <1>7

\* What a queue and the callers hold is counted.
LEMMA CountType ==
  ASSUME XpTypeOK, NEW q \in Qs
  PROVE  /\ Len(xpQ[q]) \in Nat /\ IsFiniteSet(CallersFor(q)) /\ Cardinality(CallersFor(q)) \in Nat
         /\ TaskFor(q) \in {0, 1} /\ Unnumbered(q) \in Nat
  <1>1. Len(xpQ[q]) \in Nat
    BY DEF XpTypeOK
  <1>2. IsFiniteSet(CallersFor(q)) /\ Cardinality(CallersFor(q)) \in Nat
    <2>1. CallersFor(q) \subseteq XpCallers
      BY DEF CallersFor
    <2> QED
      BY <2>1, XpAssumption, FS_Subset, FS_CardinalityType
  <1>3. TaskFor(q) \in {0, 1}
    BY DEF TaskFor
  <1> QED
    BY <1>1, <1>2, <1>3 DEF Unnumbered

\* The same after a step that keeps the types.
LEMMA CountTypeNext ==
  ASSUME XpTypeOK', NEW q \in Qs
  PROVE  /\ Len(xpQ'[q]) \in Nat /\ Cardinality(CallersFor(q)') \in Nat
         /\ TaskFor(q)' \in {0, 1} /\ Unnumbered(q)' \in Nat
  <1>1. Len(xpQ'[q]) \in Nat
    BY DEF XpTypeOK
  <1>2. Cardinality(CallersFor(q)') \in Nat
    <2>1. CallersFor(q)' \subseteq XpCallers
      BY DEF CallersFor
    <2> QED
      BY <2>1, XpAssumption, FS_Subset, FS_CardinalityType
  <1>3. TaskFor(q)' \in {0, 1}
    BY DEF TaskFor
  <1> QED
    BY <1>1, <1>2, <1>3 DEF Unnumbered

\* One caller takes a frame, or gives it up.
LEMMA CallerTakes ==
  ASSUME XpTypeOK, NEW c \in XpCallers, xpCall[c] = NoCaller, xpCall'[c] # NoCaller,
         NEW f \in XpFrame, xpCall'[c].f = f,
         \A d \in XpCallers \ {c} : xpCall'[d] = xpCall[d]
  PROVE  \A q \in Qs : Cardinality(CallersFor(q)') = Cardinality(CallersFor(q)) + IF q = QOf(f) THEN 1 ELSE 0
  <1> SUFFICES ASSUME NEW q \in Qs
               PROVE  Cardinality(CallersFor(q)') = Cardinality(CallersFor(q)) + IF q = QOf(f) THEN 1 ELSE 0
    OBVIOUS
  <1>0. IsFiniteSet(CallersFor(q)) /\ Cardinality(CallersFor(q)) \in Nat /\ c \notin CallersFor(q)
    BY CountType DEF CallersFor
  <1>1. CASE q = QOf(f)
    <2>1. CallersFor(q)' = CallersFor(q) \cup {c}
      BY <1>1 DEF CallersFor
    <2>2. Cardinality(CallersFor(q) \cup {c}) = Cardinality(CallersFor(q)) + 1
      BY <1>0, FS_AddElement
    <2> QED
      BY <1>1, <2>1, <2>2
  <1>2. CASE q # QOf(f)
    <2>1. CallersFor(q)' = CallersFor(q)
      BY <1>2 DEF CallersFor
    <2> QED
      BY <1>0, <1>2, <2>1
  <1> QED
    BY <1>1, <1>2

\* And the other way.
LEMMA CallerGives ==
  ASSUME XpTypeOK, NEW c \in XpCallers, xpCall[c] # NoCaller, xpCall'[c] = NoCaller,
         NEW f \in XpFrame, xpCall[c].f = f,
         \A d \in XpCallers \ {c} : xpCall'[d] = xpCall[d]
  PROVE  \A q \in Qs : Cardinality(CallersFor(q)') = Cardinality(CallersFor(q)) - IF q = QOf(f) THEN 1 ELSE 0
  <1> SUFFICES ASSUME NEW q \in Qs
               PROVE  Cardinality(CallersFor(q)') = Cardinality(CallersFor(q)) - IF q = QOf(f) THEN 1 ELSE 0
    OBVIOUS
  <1>0. IsFiniteSet(CallersFor(q)) /\ Cardinality(CallersFor(q)) \in Nat
    BY CountType
  <1>1. CASE q = QOf(f)
    <2>1. c \in CallersFor(q) /\ CallersFor(q)' = CallersFor(q) \ {c}
      BY <1>1 DEF CallersFor
    <2>2. Cardinality(CallersFor(q) \ {c}) = Cardinality(CallersFor(q)) - 1
      BY <1>0, <2>1, FS_RemoveElement
    <2> QED
      BY <1>1, <2>1, <2>2
  <1>2. CASE q # QOf(f)
    <2>1. CallersFor(q)' = CallersFor(q)
      BY <1>2 DEF CallersFor
    <2> QED
      BY <1>0, <1>2, <2>1
  <1> QED
    BY <1>1, <1>2

\* A frame goes from the head of a queue.
LEMMA HeadTaken ==
  ASSUME XpTypeOK, NEW q \in Qs, xpQ[q] # << >>, xpQ' = [xpQ EXCEPT ![q] = Tail(xpQ[q])]
  PROVE  \A r \in Qs : Len(xpQ'[r]) = Len(xpQ[r]) - IF r = q THEN 1 ELSE 0
  <1>1. xpQ \in [Qs -> Seq(XpFrame)] /\ xpQ[q] \in Seq(XpFrame)
    BY DEF XpTypeOK
  <1>2. Len(Tail(xpQ[q])) = Len(xpQ[q]) - 1
    BY <1>1
  <1>3. \A r \in Qs : Len(xpQ[r]) \in Nat
    BY <1>1
  <1> QED
    BY <1>1, <1>2, <1>3

\* What a step may do to a queue: no number is given, or one is, and an
\* agreement may be asked for.
NumbersKept(q) == \A n \in Nat : TidOK(xpTid[q], n) => TidOK(xpTid'[q], n)
FrameNumbered(q) ==
    \/ xpTid'[q] = rtw_make_wlanhdr(xpTid[q])
    \/ \E f : xpTid'[q] \in rtw_issue_addbareq_cmd(rtw_make_wlanhdr(xpTid[q]), f)
\* A step keeps the count when it gives a number only where a frame leaves
\* those without one.
LEMMA CountedStep ==
  ASSUME SeqsCounted, XpTypeOK, XpTypeOK', MaxXpTx \in Nat, MaxXpTx < 2048,
         xpTid' = [q \in Qs |-> xpTid'[q]], xpCnt' \in [tx : Nat, fail : Nat], xpCnt'.tx <= MaxXpTx,
         \A q \in Qs : \/ NumbersKept(q) /\ xpCnt.tx - Unnumbered(q) <= xpCnt'.tx - Unnumbered(q)'
                       \/ FrameNumbered(q) /\ xpCnt'.tx = xpCnt.tx /\ Unnumbered(q)' < Unnumbered(q)
  PROVE  SeqsCounted'
  <1>1. ASSUME NEW q \in Qs
        PROVE  Unnumbered(q)' <= xpCnt'.tx /\ TidOK(xpTid'[q], xpCnt'.tx - Unnumbered(q)')
    <2>1. Unnumbered(q) \in Nat
      BY CountType
    <2>2. Unnumbered(q)' \in Nat
      BY CountTypeNext
    <2>3. CASE NumbersKept(q) /\ xpCnt.tx - Unnumbered(q) <= xpCnt'.tx - Unnumbered(q)'
      BY <2>1, <2>2, <2>3, CountStays DEF NumbersKept
    <2>4. CASE FrameNumbered(q) /\ xpCnt'.tx = xpCnt.tx /\ Unnumbered(q)' < Unnumbered(q)
      BY <2>1, <2>2, <2>4, CountMade DEF FrameNumbered
    <2> QED
      BY <2>3, <2>4
  <1>2. \A q \in Qs : xpTid'[q] \in TidType
    BY <1>1 DEF TidOK
  <1> QED
    BY <1>1, <1>2 DEF SeqsCounted

\* A frame waits in the queue of its station and category.
OwnQueue == \A q \in Qs : \A f \in Range(xpQ[q]) : QOf(f) = q

\* A queue that only loses frames, or gets one of its own, keeps to that.
LEMMA OwnQueueTail ==
  ASSUME OwnQueue, XpTypeOK, NEW q \in Qs, xpQ[q] # << >>, xpQ' = [xpQ EXCEPT ![q] = Tail(xpQ[q])]
  PROVE  OwnQueue'
  <1>1. xpQ \in [Qs -> Seq(XpFrame)] /\ xpQ[q] \in Seq(XpFrame)
    BY DEF XpTypeOK
  <1>2. Range(Tail(xpQ[q])) \subseteq Range(xpQ[q])
    BY <1>1, TailDistinct
  <1>3. \A r \in Qs : Range(xpQ'[r]) \subseteq Range(xpQ[r])
    BY <1>1, <1>2
  <1> QED
    BY <1>3 DEF OwnQueue, QOf

\* The frame at the head of a queue is one of that queue.
LEMMA HeadOwn ==
  ASSUME OwnQueue, XpTypeOK, NEW q \in Qs, xpQ[q] # << >>
  PROVE  QOf(Head(xpQ[q])) = q
  <1>1. xpQ[q] \in Seq(XpFrame)
    BY DEF XpTypeOK
  <1>2. Head(xpQ[q]) \in Range(xpQ[q])
    BY <1>1, TailDistinct
  <1> QED
    BY <1>2 DEF OwnQueue

\* No step puts a frame into a queue of another station or category.
LEMMA OwnQueueStep ==
  ASSUME OwnQueue, XpInv, [XpNext]_xpVars
  PROVE  OwnQueue'
  <1>0. XpTypeOK /\ QueuesListed
    BY DEF XpInv
  <1>1. CASE UNCHANGED xpQ
    BY <1>1 DEF OwnQueue, QOf
  <1>2. ASSUME NEW c \in XpCallers, PreEnqueue(c) PROVE OwnQueue'
    <2>1. PICK f : f = xpCall[c].f
      OBVIOUS
    <2>2. f \in XpFrame
      BY <1>0, <1>2, <2>1 DEF PreEnqueue, XpTypeOK, NoCaller
    <2>3. CASE rtw_xmit_classifier(f)
      <3>1. xpQ' = [xpQ EXCEPT ![QOf(f)] = Append(@, f)]
        BY <2>3 DEF rtw_xmit_classifier
      <3>2. xpQ \in [Qs -> Seq(XpFrame)] /\ QOf(f) \in Qs
        BY <1>0, <2>2, QType DEF XpTypeOK
      <3>3. Range(Append(xpQ[QOf(f)], f)) = Range(xpQ[QOf(f)]) \cup {f}
        BY <2>2, <3>2, AppendDistinct
      <3>4. \A r \in Qs : Range(xpQ'[r]) \subseteq Range(xpQ[r]) \cup (IF r = QOf(f) THEN {f} ELSE {})
        BY <3>1, <3>2, <3>3
      <3> QED
        BY <3>4 DEF OwnQueue, QOf
    <2>4. CASE UNCHANGED xpQ
      BY <1>1, <2>4
    <2> QED
      BY <1>2, <2>1, <2>3, <2>4 DEF PreEnqueue
  <1>3. ASSUME NEW b, rtw_txframes_pending, Dequeue(b) PROVE OwnQueue'
    <2>1. FirstListed \in Qs /\ xpQ[FirstListed] # << >>
      BY <1>0, <1>3, FirstListedOne
    <2>2. xpQ' = [xpQ EXCEPT ![FirstListed] = Tail(xpQ[FirstListed])]
      BY <1>3 DEF Dequeue
    <2> QED
      BY <1>0, <2>1, <2>2, OwnQueueTail
  <1>4. CASE TaskTake
    BY <1>1, <1>3, <1>4 DEF TaskTake
  <1>5. CASE TaskFirst
    BY <1>1, <1>3, <1>5 DEF TaskFirst
  <1>6. CASE TaskAggregate
    <2>1. PICK f : f = xpTask.f
      OBVIOUS
    <2>2. f \in XpFrame
      BY <1>0, <1>6, <2>1 DEF TaskAggregate, XpTypeOK, NoTask
    <2>3. QOf(f) \in Qs
      BY <2>2, QType
    <2>4. CASE xpQ[QOf(f)] # << >> /\ xpQ' = [xpQ EXCEPT ![QOf(f)] = Tail(xpQ[QOf(f)])]
      BY <1>0, <2>3, <2>4, OwnQueueTail
    <2> QED
      BY <1>1, <1>6, <2>1, <2>4 DEF TaskAggregate
  <1>7. CASE PeerGone
    <2>1. \A r \in Qs : xpQ'[r] = << >> \/ xpQ'[r] = xpQ[r]
      BY <1>7 DEF PeerGone
    <2>2. Range(<< >>) = {}
      BY DEF Range
    <2>3. \A r \in Qs : Range(xpQ'[r]) \subseteq Range(xpQ[r])
      BY <2>1, <2>2
    <2> QED
      BY <2>3 DEF OwnQueue, QOf
  <1>8. ASSUME NEW c \in XpCallers, (\E p \in XpPkts : rtw_xmit_entry(c, p)) \/ PreDirect(c) \/ xmitframe_direct(c)
        PROVE  OwnQueue'
    BY <1>1, <1>8 DEF rtw_xmit_entry, PreDirect, xmitframe_direct
  <1>9. CASE \/ TaskStart \/ TaskSend \/ \E b \in XpBufs : _rtl_tx_complete(b)
    BY <1>1, <1>9 DEF TaskStart, TaskSend, _rtl_tx_complete
  <1>10. CASE \/ SurveyStep \/ rtw_os_xmit_schedule \/ KeysSet \/ DriverStops
              \/ \E q \in Qs : IssueAddba(q) \/ AddbaResponse(q)
              \/ UNCHANGED xpVars
    BY <1>1, <1>10 DEF SurveyStep, rtw_os_xmit_schedule, KeysSet, DriverStops, IssueAddba, AddbaResponse, xpVars
  <1> QED
    BY <1>2, <1>4, <1>5, <1>6, <1>7, <1>8, <1>9, <1>10 DEF XpNext

\* The numbers of a queue that no step touches.
LEMMA SameTid == ASSUME NEW q \in Qs, xpTid'[q] = xpTid[q] PROVE NumbersKept(q)
  BY DEF NumbersKept, TidOK, Lead

\* Everything the step lemmas need.
CountInv ==
    /\ XpTypeOK /\ QueuesListed /\ OwnQueue /\ SeqsCounted
    /\ MaxXpTx \in Nat /\ MaxXpTx < 2048

\* Steps that leave the frames and numbers alone, or only lose frames.
LEMMA QuietSeq ==
  ASSUME CountInv, XpTypeOK', UNCHANGED xpTid, xpCnt' \in [tx : Nat, fail : Nat], xpCnt'.tx = xpCnt.tx,
         \A q \in Qs : Unnumbered(q)' <= Unnumbered(q)
  PROVE  SeqsCounted'
  <1>1. /\ xpTid \in [Qs -> TidType] /\ xpCnt.tx <= MaxXpTx /\ xpCnt.tx \in Nat
    BY DEF CountInv, SeqsCounted
  <1>2. \A q \in Qs : NumbersKept(q)
    BY SameTid
  <1>3. \A q \in Qs : Unnumbered(q) \in Nat /\ Unnumbered(q)' \in Nat
    BY CountType, CountTypeNext DEF CountInv
  <1>4. \A q \in Qs : xpCnt.tx - Unnumbered(q) <= xpCnt'.tx - Unnumbered(q)'
    BY <1>1, <1>3
  <1>5. SeqsCounted /\ XpTypeOK /\ MaxXpTx \in Nat /\ MaxXpTx < 2048
    BY DEF CountInv
  <1>6. xpTid' = [q \in Qs |-> xpTid'[q]] /\ xpCnt'.tx <= MaxXpTx
    BY <1>1
  <1> QED
    BY <1>2, <1>4, <1>5, <1>6, CountedStep

\* rtw_xmit_entry: a packet more, and at most one frame more without a number.
LEMMA EntrySeq ==
  ASSUME CountInv, XpTypeOK', NEW c \in XpCallers, NEW p \in XpPkts, rtw_xmit_entry(c, p)
  PROVE  SeqsCounted'
  <1>0. SeqsCounted /\ XpTypeOK /\ MaxXpTx \in Nat /\ MaxXpTx < 2048
    BY DEF CountInv
  <1>1. /\ xpTid \in [Qs -> TidType] /\ xpCnt \in [tx : Nat, fail : Nat]
    BY <1>0 DEF SeqsCounted
  <1>2. /\ xpCall[c] = NoCaller /\ UNCHANGED <<xpTid, xpQ, xpTask>>
        /\ xpCnt.tx < MaxXpTx /\ xpCnt' = [xpCnt EXCEPT !.tx = @ + 1]
    BY DEF rtw_xmit_entry
  <1>3. xpCnt' \in [tx : Nat, fail : Nat] /\ xpCnt'.tx = xpCnt.tx + 1 /\ xpCnt'.tx <= MaxXpTx
    BY <1>0, <1>1, <1>2
  <1>4. \A q \in Qs : /\ Len(xpQ[q]) \in Nat /\ Cardinality(CallersFor(q)) \in Nat
                      /\ TaskFor(q) \in {0, 1} /\ TaskFor(q)' = TaskFor(q) /\ Len(xpQ'[q]) = Len(xpQ[q])
    BY <1>0, <1>2, CountType DEF TaskFor, QOf
  <1>5. \A q \in Qs : Cardinality(CallersFor(q)') \in Nat /\ Cardinality(CallersFor(q)') <= Cardinality(CallersFor(q)) + 1
    <2>1. CASE UNCHANGED xpCall
      <3>1. \A q \in Qs : CallersFor(q)' = CallersFor(q)
        BY <2>1 DEF CallersFor, QOf
      <3> QED
        BY <1>4, <3>1
    <2>2. ASSUME NEW f, f = update_attrib(p, ToOf(p)), xpCall' = [xpCall EXCEPT ![c] = [at |-> "pre", f |-> f]]
          PROVE  \A q \in Qs : Cardinality(CallersFor(q)') \in Nat /\ Cardinality(CallersFor(q)') <= Cardinality(CallersFor(q)) + 1
      <3>1. f \in XpFrame
        <4>1. xpNet \in XpNets
          BY <1>0 DEF XpTypeOK
        <4> QED
          BY <2>2, <4>1, FrameType, ToOfType
      <3>2. PICK y : y = [at |-> "pre", f |-> f]
        OBVIOUS
      <3>3. CallOK(y) /\ y # NoCaller /\ y.f = f
        BY <3>1, <3>2 DEF CallOK, NoCaller
      <3>4. xpCall'[c] = y /\ \A d \in XpCallers \ {c} : xpCall'[d] = xpCall[d]
        <4>1. xpCall' = [xpCall EXCEPT ![c] = y]
          BY <2>2, <3>2
        <4>2. xpCall = [d \in XpCallers |-> xpCall[d]]
          BY <1>0 DEF XpTypeOK
        <4> QED
          BY <4>1, <4>2
      <3>5. \A q \in Qs : Cardinality(CallersFor(q)') = Cardinality(CallersFor(q)) + IF q = QOf(f) THEN 1 ELSE 0
        BY <1>0, <1>2, <3>1, <3>3, <3>4, CallerTakes
      <3> QED
        BY <1>4, <3>5
    <2> QED
      BY <2>1, <2>2 DEF rtw_xmit_entry
  <1>6. \A q \in Qs : NumbersKept(q)
    BY <1>2, SameTid
  <1>7. \A q \in Qs : xpCnt.tx - Unnumbered(q) <= xpCnt'.tx - Unnumbered(q)'
    <2> SUFFICES ASSUME NEW q \in Qs PROVE xpCnt.tx - Unnumbered(q) <= xpCnt'.tx - Unnumbered(q)'
      OBVIOUS
    <2>1. /\ Unnumbered(q) \in Nat /\ Unnumbered(q)' \in Nat /\ Unnumbered(q)' <= Unnumbered(q) + 1
      <3>1. /\ Len(xpQ[q]) \in Nat /\ Cardinality(CallersFor(q)) \in Nat /\ TaskFor(q) \in {0, 1}
            /\ TaskFor(q)' = TaskFor(q) /\ Len(xpQ'[q]) = Len(xpQ[q])
            /\ Cardinality(CallersFor(q)') \in Nat /\ Cardinality(CallersFor(q)') <= Cardinality(CallersFor(q)) + 1
        BY <1>4, <1>5
      <3>2. PICK l \in Nat, m \in Nat, n \in Nat, k \in Nat :
              /\ l = Len(xpQ[q]) /\ m = Cardinality(CallersFor(q)) /\ k = TaskFor(q)
              /\ n = Cardinality(CallersFor(q)')
        BY <3>1
      <3>3. Unnumbered(q) = l + m + k
        BY <3>2 DEF Unnumbered
      <3>4. Unnumbered(q)' = l + n + k
        BY <3>1, <3>2 DEF Unnumbered
      <3>5. n <= m + 1
        BY <3>1, <3>2
      <3> QED
        BY <3>3, <3>4, <3>5
    <2>2. xpCnt.tx \in Nat
      BY <1>1
    <2> QED
      BY <1>3, <2>1, <2>2
  <1>8. xpTid' = [q \in Qs |-> xpTid'[q]]
    BY <1>1, <1>2
  <1> QED
    BY <1>0, <1>3, <1>6, <1>7, <1>8, CountedStep

\* pre_xmitframe, the direct way: the caller keeps its frame.
LEMMA PreDirectSeq ==
  ASSUME CountInv, XpTypeOK', NEW c \in XpCallers, PreDirect(c)
  PROVE  SeqsCounted'
  <1>0. SeqsCounted /\ XpTypeOK
    BY DEF CountInv
  <1>1. xpCnt \in [tx : Nat, fail : Nat]
    BY <1>0 DEF SeqsCounted
  <1>2. PICK f : f = xpCall[c].f
    OBVIOUS
  <1>3. /\ xpCall[c].at = "pre" /\ UNCHANGED <<xpTid, xpQ, xpTask, xpCnt>>
        /\ \E b \in XpBufs : xpCall' = [xpCall EXCEPT ![c] = [at |-> "direct", f |-> f, b |-> b]]
    BY <1>2 DEF PreDirect, FreeBufs
  <1>4. f \in XpFrame /\ xpCall[c] # NoCaller
    BY <1>0, <1>2, <1>3 DEF XpTypeOK, NoCaller
  <1>5. PICK b, y : b \in XpBufs /\ xpCall' = [xpCall EXCEPT ![c] = y] /\ y = [at |-> "direct", f |-> f, b |-> b]
    BY <1>3
  <1>6. CallOK(y) /\ y # NoCaller /\ y.f = f
    BY <1>4, <1>5 DEF CallOK, NoCaller
  <1>7. xpCall'[c] = y /\ \A d \in XpCallers \ {c} : xpCall'[d] = xpCall[d]
    BY <1>0, <1>5, <1>6, CallerMoves
  <1>8. \A d \in XpCallers : (xpCall'[d] # NoCaller <=> xpCall[d] # NoCaller)
                             /\ (xpCall[d] # NoCaller => xpCall'[d].f = xpCall[d].f)
    BY <1>2, <1>4, <1>6, <1>7
  <1>9. \A q \in Qs : CallersFor(q)' = CallersFor(q)
    BY <1>8 DEF CallersFor, QOf
  <1>10. \A q \in Qs : Unnumbered(q)' = Unnumbered(q) /\ Unnumbered(q) \in Nat
    BY <1>0, <1>3, <1>9, CountType DEF Unnumbered, TaskFor, QOf
  <1> QED
    BY <1>1, <1>3, <1>10, QuietSeq

\* pre_xmitframe, the queue: the frame passes from the caller to its queue.
LEMMA PreEnqueueSeq ==
  ASSUME CountInv, XpTypeOK', NEW c \in XpCallers, PreEnqueue(c)
  PROVE  SeqsCounted'
  <1>0. SeqsCounted /\ XpTypeOK
    BY DEF CountInv
  <1>1. xpCnt \in [tx : Nat, fail : Nat]
    BY <1>0 DEF SeqsCounted
  <1>2. PICK f : f = xpCall[c].f
    OBVIOUS
  <1>3. /\ xpCall[c].at = "pre" /\ UNCHANGED <<xpTid, xpTask, xpCnt>>
        /\ xpCall' = [xpCall EXCEPT ![c] = NoCaller]
        /\ rtw_xmit_classifier(f) \/ UNCHANGED xpQ
    BY <1>2 DEF PreEnqueue
  <1>4. f \in XpFrame /\ xpCall[c] # NoCaller
    BY <1>0, <1>2, <1>3 DEF XpTypeOK, NoCaller
  <1>5. CallOK(NoCaller)
    BY DEF CallOK
  <1>6. xpCall'[c] = NoCaller /\ \A d \in XpCallers \ {c} : xpCall'[d] = xpCall[d]
    BY <1>0, <1>3, <1>5, CallerMoves
  <1>7. \A q \in Qs : Cardinality(CallersFor(q)') = Cardinality(CallersFor(q)) - IF q = QOf(f) THEN 1 ELSE 0
    BY <1>0, <1>2, <1>4, <1>6, CallerGives
  <1>8. \A q \in Qs : Len(xpQ'[q]) \in Nat /\ Len(xpQ'[q]) <= Len(xpQ[q]) + IF q = QOf(f) THEN 1 ELSE 0
    <2>0. \A q \in Qs : Len(xpQ[q]) \in Nat
      BY <1>0, CountType
    <2>1. CASE UNCHANGED xpQ
      <3>1. \A n \in Nat : n <= n + 1 /\ n <= n + 0
        OBVIOUS
      <3> SUFFICES ASSUME NEW q \in Qs PROVE Len(xpQ[q]) <= Len(xpQ[q]) + IF q = QOf(f) THEN 1 ELSE 0
        BY <2>0, <2>1
      <3>2. Len(xpQ[q]) <= Len(xpQ[q]) + 1 /\ Len(xpQ[q]) <= Len(xpQ[q]) + 0
        BY <2>0, <3>1
      <3>3. CASE q = QOf(f)
        BY <3>2, <3>3
      <3>4. CASE q # QOf(f)
        BY <3>2, <3>4
      <3> QED
        BY <3>3, <3>4
    <2>2. CASE rtw_xmit_classifier(f)
      <3>1. xpQ' = [xpQ EXCEPT ![QOf(f)] = Append(@, f)]
        BY <2>2 DEF rtw_xmit_classifier
      <3>2. xpQ \in [Qs -> Seq(XpFrame)] /\ QOf(f) \in Qs
        BY <1>0, <1>4, QType DEF XpTypeOK
      <3>3. Len(Append(xpQ[QOf(f)], f)) = Len(xpQ[QOf(f)]) + 1
        BY <1>4, <3>2
      <3> QED
        BY <2>0, <3>1, <3>2, <3>3
    <2> QED
      BY <1>3, <2>1, <2>2
  <1>9. \A q \in Qs : Unnumbered(q)' <= Unnumbered(q)
    <2> SUFFICES ASSUME NEW q \in Qs PROVE Unnumbered(q)' <= Unnumbered(q)
      OBVIOUS
    <2>1. /\ Len(xpQ[q]) \in Nat /\ Cardinality(CallersFor(q)) \in Nat /\ TaskFor(q) \in {0, 1}
          /\ TaskFor(q)' = TaskFor(q)
      BY <1>0, <1>3, CountType DEF TaskFor, QOf
    <2>2. CASE q = QOf(f)
      <3>1. /\ Cardinality(CallersFor(q)') = Cardinality(CallersFor(q)) - 1
            /\ Len(xpQ'[q]) \in Nat /\ Len(xpQ'[q]) <= Len(xpQ[q]) + 1
        BY <1>7, <1>8, <2>2
      <3> QED
        BY <2>1, <3>1 DEF Unnumbered
    <2>3. CASE q # QOf(f)
      <3>1. /\ Cardinality(CallersFor(q)') = Cardinality(CallersFor(q)) - 0
            /\ Len(xpQ'[q]) \in Nat /\ Len(xpQ'[q]) <= Len(xpQ[q]) + 0
        BY <1>7, <1>8, <2>3
      <3> QED
        BY <2>1, <3>1 DEF Unnumbered
    <2> QED
      BY <2>2, <2>3
  <1> QED
    BY <1>1, <1>3, <1>9, QuietSeq

\* Steps that number the frame of one queue, which is no longer counted, or
\* that leave its numbers alone.
LEMMA MakeSeq ==
  ASSUME CountInv, XpTypeOK', NEW q \in Qs,
         xpCnt' \in [tx : Nat, fail : Nat], xpCnt'.tx = xpCnt.tx,
         \A r \in Qs : Unnumbered(r)' <= Unnumbered(r),
         \/ UNCHANGED xpTid
         \/ /\ xpTid' = [xpTid EXCEPT ![q] = xpTid'[q]]
            /\ (FrameNumbered(q) /\ Unnumbered(q)' < Unnumbered(q)) \/ NumbersKept(q)
  PROVE  SeqsCounted'
  <1>0. SeqsCounted /\ XpTypeOK /\ MaxXpTx \in Nat /\ MaxXpTx < 2048
    BY DEF CountInv
  <1>1. /\ xpTid \in [Qs -> TidType] /\ xpCnt.tx <= MaxXpTx /\ xpCnt.tx \in Nat
    BY <1>0 DEF SeqsCounted
  <1>2. CASE UNCHANGED xpTid
    BY <1>2, QuietSeq
  <1>3. CASE /\ xpTid' = [xpTid EXCEPT ![q] = xpTid'[q]]
             /\ (FrameNumbered(q) /\ Unnumbered(q)' < Unnumbered(q)) \/ NumbersKept(q)
    <2>1. xpTid' = [r \in Qs |-> xpTid'[r]] /\ \A r \in Qs \ {q} : xpTid'[r] = xpTid[r]
      BY <1>1, <1>3
    <2>2. \A r \in Qs \ {q} : NumbersKept(r)
      BY <2>1, SameTid
    <2>3. \A r \in Qs : Unnumbered(r) \in Nat /\ Unnumbered(r)' \in Nat
      BY <1>0, CountType, CountTypeNext
    <2>4. \A r \in Qs : xpCnt.tx - Unnumbered(r) <= xpCnt'.tx - Unnumbered(r)'
      BY <1>1, <2>3
    <2>5. \A r \in Qs : \/ NumbersKept(r) /\ xpCnt.tx - Unnumbered(r) <= xpCnt'.tx - Unnumbered(r)'
                        \/ FrameNumbered(r) /\ xpCnt'.tx = xpCnt.tx /\ Unnumbered(r)' < Unnumbered(r)
      BY <1>3, <2>2, <2>4
    <2>6. xpCnt'.tx <= MaxXpTx
      BY <1>1
    <2> QED
      BY <1>0, <2>1, <2>5, <2>6, CountedStep
  <1> QED
    BY <1>2, <1>3

\* xmitframe_direct: the caller's frame is numbered, or freed without.
LEMMA DirectSeq ==
  ASSUME CountInv, XpTypeOK', NEW c \in XpCallers, xmitframe_direct(c)
  PROVE  SeqsCounted'
  <1>0. SeqsCounted /\ XpTypeOK
    BY DEF CountInv
  <1>1. xpCnt \in [tx : Nat, fail : Nat] /\ xpTid \in [Qs -> TidType]
    BY <1>0 DEF SeqsCounted
  <1>2. PICK f, q : f = xpCall[c].f /\ q = QOf(f)
    OBVIOUS
  <1>3. /\ xpCall[c].at = "direct" /\ UNCHANGED <<xpQ, xpTask>>
        /\ xpCall' = [xpCall EXCEPT ![c] = NoCaller]
        /\ xpCnt' = xpCnt \/ xpCnt' = [xpCnt EXCEPT !.fail = @ + 1]
    BY DEF xmitframe_direct, _rtlw_usb_transmit
  <1>4. f \in XpFrame /\ xpCall[c] # NoCaller
    BY <1>0, <1>2, <1>3 DEF XpTypeOK, NoCaller
  <1>5. CallOK(NoCaller) /\ q \in Qs
    BY <1>2, <1>4, QType DEF CallOK
  <1>6. xpCall'[c] = NoCaller /\ \A d \in XpCallers \ {c} : xpCall'[d] = xpCall[d]
    BY <1>0, <1>3, <1>5, CallerMoves
  <1>7. \A r \in Qs : Cardinality(CallersFor(r)') = Cardinality(CallersFor(r)) - IF r = QOf(f) THEN 1 ELSE 0
    BY <1>0, <1>2, <1>4, <1>6, CallerGives
  <1>8. \A r \in Qs : Unnumbered(r)' = Unnumbered(r) - (IF r = q THEN 1 ELSE 0) /\ Unnumbered(r) \in Nat
    <2> SUFFICES ASSUME NEW r \in Qs
                 PROVE  Unnumbered(r)' = Unnumbered(r) - (IF r = q THEN 1 ELSE 0) /\ Unnumbered(r) \in Nat
      OBVIOUS
    <2>1. /\ Len(xpQ[r]) \in Nat /\ Cardinality(CallersFor(r)) \in Nat /\ TaskFor(r) \in {0, 1}
          /\ TaskFor(r)' = TaskFor(r) /\ Len(xpQ'[r]) = Len(xpQ[r])
      BY <1>0, <1>3, CountType DEF TaskFor, QOf
    <2> QED
      BY <1>2, <1>7, <2>1 DEF Unnumbered
  <1>9. xpCnt' \in [tx : Nat, fail : Nat] /\ xpCnt'.tx = xpCnt.tx
    BY <1>1, <1>3
  <1>10. \/ UNCHANGED xpTid
         \/ \E t \in rtw_issue_addbareq_cmd(rtw_make_wlanhdr(xpTid[q]), f) : xpTid' = [xpTid EXCEPT ![q] = t]
    BY <1>2 DEF xmitframe_direct
  <1>11. \/ UNCHANGED xpTid
         \/ xpTid' = [xpTid EXCEPT ![q] = xpTid'[q]] /\ FrameNumbered(q)
    BY <1>1, <1>5, <1>10 DEF FrameNumbered
  <1>12. Unnumbered(q)' < Unnumbered(q) /\ \A r \in Qs : Unnumbered(r)' <= Unnumbered(r)
    BY <1>5, <1>8
  <1> QED
    BY <1>5, <1>9, <1>11, <1>12, MakeSeq

\* The tasklet takes the first frame of a listed queue, and holds no other.
LEMMA DequeueSeq ==
  ASSUME CountInv, XpTypeOK', rtw_txframes_pending, NEW b \in XpBufs, Dequeue(b), UNCHANGED xpCall,
         NEW n \in [Qs -> {0, 1}], \A q \in Qs : TaskFor(q) = n[q]
  PROVE  \A q \in Qs : Unnumbered(q)' = Unnumbered(q) - n[q] /\ Unnumbered(q) \in Nat
  <1>0. XpTypeOK /\ QueuesListed /\ OwnQueue
    BY DEF CountInv
  <1>1. PICK p : p = FirstListed
    OBVIOUS
  <1>2. p \in Qs /\ xpQ[p] # << >>
    BY <1>0, <1>1, FirstListedOne
  <1>3. xpQ' = [xpQ EXCEPT ![p] = Tail(xpQ[p])] /\ xpTask'.at = "first" /\ xpTask'.f = Head(xpQ[p])
    BY <1>1 DEF Dequeue
  <1>4. QOf(Head(xpQ[p])) = p
    BY <1>0, <1>2, HeadOwn
  <1>5. \A q \in Qs : Len(xpQ'[q]) = Len(xpQ[q]) - IF q = p THEN 1 ELSE 0
    BY <1>0, <1>2, <1>3, HeadTaken
  <1>6. \A q \in Qs : TaskFor(q)' = IF q = p THEN 1 ELSE 0
    BY <1>3, <1>4 DEF TaskFor, QOf
  <1>7. \A q \in Qs : CallersFor(q)' = CallersFor(q)
    BY DEF CallersFor, QOf
  <1> SUFFICES ASSUME NEW q \in Qs PROVE Unnumbered(q)' = Unnumbered(q) - n[q] /\ Unnumbered(q) \in Nat
    OBVIOUS
  <1>8. /\ Len(xpQ[q]) \in Nat /\ Cardinality(CallersFor(q)) \in Nat /\ TaskFor(q) = n[q] /\ n[q] \in {0, 1}
        /\ Unnumbered(q) \in Nat
    BY <1>0, CountType
  <1>9. CASE q = p
    <2>1. Len(xpQ'[q]) = Len(xpQ[q]) - 1 /\ TaskFor(q)' = 1 /\ CallersFor(q)' = CallersFor(q)
      BY <1>5, <1>6, <1>7, <1>9
    <2> QED
      BY <1>8, <2>1 DEF Unnumbered
  <1>10. CASE q # p
    <2>1. Len(xpQ'[q]) = Len(xpQ[q]) - 0 /\ TaskFor(q)' = 0 /\ CallersFor(q)' = CallersFor(q)
      BY <1>5, <1>6, <1>7, <1>10
    <2> QED
      BY <1>8, <2>1 DEF Unnumbered
  <1> QED
    BY <1>9, <1>10

\* The tasklet takes its first frame.
LEMMA TaskTakeSeq == ASSUME CountInv, XpTypeOK', TaskTake PROVE SeqsCounted'
  <1>0. SeqsCounted /\ XpTypeOK
    BY DEF CountInv
  <1>1. xpCnt \in [tx : Nat, fail : Nat]
    BY <1>0 DEF SeqsCounted
  <1>2. xpTask.at = "loop" /\ UNCHANGED <<xpTid, xpCnt, xpCall>>
    BY DEF TaskTake
  <1>3. \A q \in Qs : TaskFor(q) = 0
    BY <1>2 DEF TaskFor
  <1>4. CASE xpTask' = NoTask /\ UNCHANGED xpQ
    <2>1. \A q \in Qs : TaskFor(q)' = 0
      BY <1>4 DEF TaskFor, NoTask
    <2>2. \A q \in Qs : CallersFor(q)' = CallersFor(q)
      BY <1>2 DEF CallersFor, QOf
    <2>3. \A q \in Qs : Unnumbered(q)' = Unnumbered(q) /\ Unnumbered(q) \in Nat
      BY <1>0, <1>3, <1>4, <2>1, <2>2, CountType DEF Unnumbered
    <2> QED
      BY <1>1, <1>2, <2>3, QuietSeq
  <1>5. CASE rtw_txframes_pending /\ \E b \in XpBufs : Dequeue(b)
    <2>1. PICK n : n = [q \in Qs |-> 0]
      OBVIOUS
    <2>2. n \in [Qs -> {0, 1}] /\ \A q \in Qs : n[q] = 0
      BY <2>1
    <2>3. \A q \in Qs : Unnumbered(q)' = Unnumbered(q) - n[q] /\ Unnumbered(q) \in Nat
      BY <1>2, <1>3, <1>5, <2>2, DequeueSeq
    <2>4. \A q \in Qs : Unnumbered(q)' <= Unnumbered(q)
      BY <2>2, <2>3
    <2> QED
      BY <1>1, <1>2, <2>4, QuietSeq
  <1> QED
    BY <1>4, <1>5 DEF TaskTake, FreeBufs

\* The tasklet numbers its first frame, or frees it and takes the next one.
LEMMA TaskFirstSeq == ASSUME CountInv, XpTypeOK', TaskFirst PROVE SeqsCounted'
  <1>0. SeqsCounted /\ XpTypeOK
    BY DEF CountInv
  <1>1. xpCnt \in [tx : Nat, fail : Nat] /\ xpTid \in [Qs -> TidType]
    BY <1>0 DEF SeqsCounted
  <1>2. PICK f, q, b : f = xpTask.f /\ q = QOf(f) /\ b = xpTask.b
    OBVIOUS
  <1>3. xpTask.at = "first" /\ UNCHANGED <<xpCnt, xpCall>>
    BY DEF TaskFirst
  <1>4. f \in XpFrame /\ b \in XpBufs /\ q \in Qs
    BY <1>0, <1>2, <1>3, QType DEF XpTypeOK, NoTask, Busy
  <1>5. \A r \in Qs : TaskFor(r) = IF r = q THEN 1 ELSE 0
    BY <1>2, <1>3 DEF TaskFor
  <1>6. \A r \in Qs : CallersFor(r)' = CallersFor(r)
    BY <1>3 DEF CallersFor, QOf
  <1>7. CASE xpTask'.at # "first" /\ UNCHANGED xpQ
    <2>1. \A r \in Qs : TaskFor(r)' = 0
      BY <1>7 DEF TaskFor
    <2>2. \A r \in Qs : Unnumbered(r)' <= Unnumbered(r) /\ Unnumbered(q)' < Unnumbered(q)
      <3> SUFFICES ASSUME NEW r \in Qs
                   PROVE  Unnumbered(r)' <= Unnumbered(r) /\ (r = q => Unnumbered(r)' < Unnumbered(r))
        BY <1>4
      <3>1. /\ Len(xpQ[r]) \in Nat /\ Cardinality(CallersFor(r)) \in Nat /\ TaskFor(r) \in {0, 1}
            /\ (r = q => TaskFor(r) = 1) /\ TaskFor(r)' = 0
            /\ CallersFor(r)' = CallersFor(r) /\ xpQ'[r] = xpQ[r]
        BY <1>0, <1>5, <1>6, <1>7, <2>1, CountType
      <3> QED
        BY <3>1 DEF Unnumbered
    <2>3. \/ UNCHANGED xpTid
          \/ xpTid' = [xpTid EXCEPT ![q] = rtw_make_wlanhdr(@)]
      BY <1>2 DEF TaskFirst
    <2>4. \/ UNCHANGED xpTid
          \/ xpTid' = [xpTid EXCEPT ![q] = xpTid'[q]] /\ FrameNumbered(q)
      BY <1>1, <1>4, <2>3 DEF FrameNumbered
    <2> QED
      BY <1>1, <1>3, <1>4, <2>2, <2>4, MakeSeq
  <1>8. CASE rtw_txframes_pending /\ Dequeue(b) /\ UNCHANGED xpTid
    <2>1. PICK n : n = [r \in Qs |-> IF r = q THEN 1 ELSE 0]
      OBVIOUS
    <2>2. n \in [Qs -> {0, 1}] /\ \A r \in Qs : TaskFor(r) = n[r]
      BY <1>5, <2>1
    <2>3. \A r \in Qs : Unnumbered(r)' = Unnumbered(r) - n[r] /\ Unnumbered(r) \in Nat
      BY <1>3, <1>4, <1>8, <2>2, DequeueSeq
    <2>4. \A r \in Qs : Unnumbered(r)' <= Unnumbered(r)
      BY <2>2, <2>3
    <2> QED
      BY <1>1, <1>3, <1>8, <2>4, QuietSeq
  <1>9. \/ xpTask'.at # "first" /\ UNCHANGED xpQ
        \/ rtw_txframes_pending /\ Dequeue(b) /\ UNCHANGED xpTid
    BY <1>2 DEF TaskFirst, NoTask
  <1> QED
    BY <1>7, <1>8, <1>9

\* Steps of the tasklet that hold no frame before or after, and take none.
LEMMA IdleSeq ==
  ASSUME CountInv, XpTypeOK', UNCHANGED <<xpQ, xpCall>>,
         xpTask.at # "first", xpTask'.at # "first"
  PROVE  \A q \in Qs : Unnumbered(q)' = Unnumbered(q) /\ Unnumbered(q) \in Nat
  <1>0. XpTypeOK
    BY DEF CountInv
  <1>1. \A q \in Qs : TaskFor(q) = 0 /\ TaskFor(q)' = 0
    BY DEF TaskFor
  <1>2. \A q \in Qs : CallersFor(q)' = CallersFor(q)
    BY DEF CallersFor, QOf
  <1> QED
    BY <1>0, <1>1, <1>2, CountType DEF Unnumbered

\* The tasklet starts.
LEMMA TaskStartSeq == ASSUME CountInv, XpTypeOK', TaskStart PROVE SeqsCounted'
  <1>0. xpCnt \in [tx : Nat, fail : Nat]
    BY DEF CountInv, SeqsCounted
  <1>1. UNCHANGED <<xpQ, xpCall, xpCnt, xpTid>> /\ xpTask.at # "first" /\ xpTask'.at # "first"
    BY DEF TaskStart, NoTask
  <1>2. \A q \in Qs : Unnumbered(q)' = Unnumbered(q) /\ Unnumbered(q) \in Nat
    BY <1>1, IdleSeq
  <1>3. \A q \in Qs : Unnumbered(q)' <= Unnumbered(q)
    BY <1>2
  <1> QED
    BY <1>0, <1>1, <1>3, QuietSeq

\* The aggregation loop numbers the head of the queue, or frees it.
LEMMA TaskAggregateSeq == ASSUME CountInv, XpTypeOK', TaskAggregate PROVE SeqsCounted'
  <1>0. SeqsCounted /\ XpTypeOK
    BY DEF CountInv
  <1>1. xpCnt \in [tx : Nat, fail : Nat] /\ xpTid \in [Qs -> TidType]
    BY <1>0 DEF SeqsCounted
  <1>2. PICK f, q, g : f = xpTask.f /\ q = QOf(f) /\ g = Head(xpQ[q])
    OBVIOUS
  <1>3. xpTask.at = "agg" /\ xpTask'.at = "send" /\ UNCHANGED <<xpCnt, xpCall>>
    <2>1. xpTask.at = "agg" /\ UNCHANGED <<xpCnt, xpCall>>
      BY DEF TaskAggregate
    <2>2. \E m : xpTask' = [at |-> "send", f |-> xpTask.f, b |-> xpTask.b, more |-> m]
      BY ZenonT(60) DEF TaskAggregate
    <2>3. xpTask'.at = "send"
      BY <2>2
    <2> QED
      BY <2>1, <2>3
  <1>4. f \in XpFrame /\ q \in Qs
    BY <1>0, <1>2, <1>3, QType DEF XpTypeOK, NoTask, Busy
  <1>5. \A r \in Qs : TaskFor(r) = 0 /\ TaskFor(r)' = 0
    BY <1>3 DEF TaskFor
  <1>6. \A r \in Qs : CallersFor(r)' = CallersFor(r)
    BY <1>3 DEF CallersFor, QOf
  <1>7. CASE UNCHANGED <<xpQ, xpTid>>
    <2>1. \A r \in Qs : Unnumbered(r)' = Unnumbered(r) /\ Unnumbered(r) \in Nat
      BY <1>3, <1>7, IdleSeq
    <2>2. \A r \in Qs : Unnumbered(r)' <= Unnumbered(r)
      BY <2>1
    <2> QED
      BY <1>1, <1>3, <1>7, <2>2, QuietSeq
  <1>8. CASE /\ xpQ[q] # << >> /\ xpQ' = [xpQ EXCEPT ![q] = Tail(xpQ[q])]
             /\ xpTid' = xpTid \/ xpTid' = [xpTid EXCEPT ![q] = rtw_make_wlanhdr(@)]
    <2>1. \A r \in Qs : Len(xpQ'[r]) = Len(xpQ[r]) - IF r = q THEN 1 ELSE 0
      BY <1>0, <1>4, <1>8, HeadTaken
    <2>2. \A r \in Qs : Unnumbered(r)' = Unnumbered(r) - (IF r = q THEN 1 ELSE 0) /\ Unnumbered(r) \in Nat
      <3> SUFFICES ASSUME NEW r \in Qs
                   PROVE  Unnumbered(r)' = Unnumbered(r) - (IF r = q THEN 1 ELSE 0) /\ Unnumbered(r) \in Nat
        OBVIOUS
      <3>1. /\ Len(xpQ[r]) \in Nat /\ Cardinality(CallersFor(r)) \in Nat
            /\ TaskFor(r) = 0 /\ TaskFor(r)' = 0 /\ CallersFor(r)' = CallersFor(r)
        BY <1>0, <1>5, <1>6, CountType
      <3>2. CASE r = q
        <4>1. Len(xpQ'[r]) = Len(xpQ[r]) - 1
          BY <2>1, <3>2
        <4>2. Unnumbered(r)' = Unnumbered(r) - 1 /\ Unnumbered(r) \in Nat
          BY <3>1, <4>1 DEF Unnumbered
        <4> QED
          BY <3>2, <4>2
      <3>3. CASE r # q
        <4>1. Len(xpQ'[r]) = Len(xpQ[r]) - 0
          BY <2>1, <3>3
        <4> QED
          BY <3>1, <3>3, <4>1 DEF Unnumbered
      <3> QED
        BY <3>2, <3>3
    <2>3. Unnumbered(q)' < Unnumbered(q) /\ \A r \in Qs : Unnumbered(r)' <= Unnumbered(r)
      BY <1>4, <2>2
    <2>4. \/ UNCHANGED xpTid
          \/ xpTid' = [xpTid EXCEPT ![q] = xpTid'[q]] /\ FrameNumbered(q)
      BY <1>1, <1>4, <1>8 DEF FrameNumbered
    <2> QED
      BY <1>1, <1>3, <1>4, <2>3, <2>4, MakeSeq
  <1>9. \/ UNCHANGED <<xpQ, xpTid>>
        \/ /\ xpQ[q] # << >> /\ xpQ' = [xpQ EXCEPT ![q] = Tail(xpQ[q])]
           /\ xpTid' = xpTid \/ xpTid' = [xpTid EXCEPT ![q] = rtw_make_wlanhdr(@)]
    BY <1>2 DEF TaskAggregate
  <1> QED
    BY <1>7, <1>8, <1>9

\* The transfer is submitted, and an agreement may be asked for.
LEMMA TaskSendSeq == ASSUME CountInv, XpTypeOK', TaskSend PROVE SeqsCounted'
  <1>0. SeqsCounted /\ XpTypeOK
    BY DEF CountInv
  <1>1. xpCnt \in [tx : Nat, fail : Nat] /\ xpTid \in [Qs -> TidType]
    BY <1>0 DEF SeqsCounted
  <1>2. PICK f, q : f = xpTask.f /\ q = QOf(f)
    OBVIOUS
  <1>3. /\ xpTask.at = "send" /\ xpTask'.at # "first" /\ UNCHANGED <<xpQ, xpCall>>
        /\ xpCnt' = xpCnt \/ xpCnt' = [xpCnt EXCEPT !.fail = @ + 1]
    BY DEF TaskSend, _rtlw_usb_transmit
  <1>4. f \in XpFrame /\ q \in Qs
    BY <1>0, <1>2, <1>3, QType DEF XpTypeOK, NoTask, Busy
  <1>5. \A r \in Qs : Unnumbered(r)' = Unnumbered(r) /\ Unnumbered(r) \in Nat
    BY <1>3, IdleSeq
  <1>6. \A r \in Qs : Unnumbered(r)' <= Unnumbered(r)
    BY <1>5
  <1>7. xpCnt' \in [tx : Nat, fail : Nat] /\ xpCnt'.tx = xpCnt.tx
    BY <1>1, <1>3
  <1>8. PICK t \in rtw_issue_addbareq_cmd(xpTid[q], f) : xpTid' = [xpTid EXCEPT ![q] = t]
    BY <1>2 DEF TaskSend
  <1>9. xpTid'[q] = t /\ xpTid' = [xpTid EXCEPT ![q] = xpTid'[q]]
    BY <1>1, <1>4, <1>8
  <1>10. NumbersKept(q)
    BY <1>8, <1>9, AddbaReqOK DEF NumbersKept
  <1> QED
    BY <1>4, <1>6, <1>7, <1>9, <1>10, MakeSeq

\* The request for an agreement sets its start to the next number.
LEMMA IssueAddbaSeq == ASSUME CountInv, XpTypeOK', NEW q \in Qs, IssueAddba(q) PROVE SeqsCounted'
  <1>0. SeqsCounted /\ XpTypeOK
    BY DEF CountInv
  <1>1. xpCnt \in [tx : Nat, fail : Nat] /\ xpTid \in [Qs -> TidType]
    BY <1>0 DEF SeqsCounted
  <1>2. UNCHANGED <<xpQ, xpCall, xpTask, xpCnt>>
    BY DEF IssueAddba
  <1>3. \A r \in Qs : Unnumbered(r)' = Unnumbered(r) /\ Unnumbered(r) \in Nat
    BY <1>0, <1>2, CountType DEF Unnumbered, CallersFor, TaskFor, QOf
  <1>4. \A r \in Qs : Unnumbered(r)' <= Unnumbered(r)
    BY <1>3
  <1> DEFINE t == xpTid[q]
             x == t.seq
             y == (x + 1) % 4096
             u == [seq |-> x, start |-> y, ba |-> "sent", broke |-> t.broke]
  <1>5. /\ x = xpTid[q].seq /\ y = (x + 1) % 4096 /\ t = xpTid[q] /\ x = t.seq
        /\ u = [seq |-> x, start |-> y, ba |-> "sent", broke |-> t.broke]
    OBVIOUS
  <1> HIDE DEF t, x, y, u
  <1>6. xpTid' = [xpTid EXCEPT ![q] = u]
    BY DEF IssueAddba, t, x, y, u
  <1>7. xpTid'[q] = u /\ xpTid' = [xpTid EXCEPT ![q] = xpTid'[q]]
    BY <1>1, <1>6
  <1>8. ASSUME NEW n \in Nat, TidOK(t, n) PROVE TidOK(u, n)
    <2>1. x \in Nat /\ x < 4096 /\ t.broke = "no"
      BY <1>5, <1>8 DEF TidOK, TidType
    <2>2. y \in Nat /\ y < 4096 /\ (x + 1 - y) % 4096 = 0
      BY <1>5, <2>1
    <2>3. u \in TidType /\ u.seq = x /\ u.start = y /\ u.broke = "no"
      BY <1>5, <2>1, <2>2 DEF TidType
    <2>4. Lead(u) = 0
      BY <2>2, <2>3 DEF Lead
    <2> QED
      BY <2>1, <2>2, <2>3, <2>4 DEF TidOK
  <1>9. NumbersKept(q)
    BY <1>5, <1>7, <1>8 DEF NumbersKept
  <1> QED
    BY <1>1, <1>2, <1>4, <1>7, <1>9, MakeSeq

\* The answer leaves the start and the numbers alone.
LEMMA AddbaResponseSeq == ASSUME CountInv, XpTypeOK', NEW q \in Qs, AddbaResponse(q) PROVE SeqsCounted'
  <1>0. SeqsCounted /\ XpTypeOK
    BY DEF CountInv
  <1>1. xpCnt \in [tx : Nat, fail : Nat] /\ xpTid \in [Qs -> TidType]
    BY <1>0 DEF SeqsCounted
  <1>2. UNCHANGED <<xpQ, xpCall, xpTask, xpCnt>>
    BY DEF AddbaResponse
  <1>3. \A r \in Qs : Unnumbered(r)' = Unnumbered(r) /\ Unnumbered(r) \in Nat
    BY <1>0, <1>2, CountType DEF Unnumbered, CallersFor, TaskFor, QOf
  <1>4. \A r \in Qs : Unnumbered(r)' <= Unnumbered(r)
    BY <1>3
  <1>5. PICK t, u : t = xpTid[q] /\ u = [t EXCEPT !.ba = "on"]
    OBVIOUS
  <1>6. xpTid' = [xpTid EXCEPT ![q] = u] /\ t.ba = "sent"
    BY <1>5 DEF AddbaResponse
  <1>7. xpTid'[q] = u /\ xpTid' = [xpTid EXCEPT ![q] = xpTid'[q]]
    BY <1>1, <1>6
  <1>8. ASSUME NEW n \in Nat, TidOK(t, n) PROVE TidOK(u, n)
    <2>1. /\ u \in TidType /\ u.seq = t.seq /\ u.start = t.start /\ u.broke = t.broke /\ u.ba = "on"
      BY <1>5, <1>8 DEF TidOK, TidType
    <2>2. Lead(u) = Lead(t)
      BY <2>1 DEF Lead
    <2> QED
      BY <1>6, <1>8, <2>1, <2>2 DEF TidOK
  <1>9. NumbersKept(q)
    BY <1>5, <1>7, <1>8 DEF NumbersKept
  <1> QED
    BY <1>1, <1>2, <1>4, <1>7, <1>9, MakeSeq

\* The frames that wait for a peer that is gone are freed without a number.
LEMMA PeerGoneSeq == ASSUME CountInv, XpTypeOK', PeerGone PROVE SeqsCounted'
  <1>0. SeqsCounted /\ XpTypeOK
    BY DEF CountInv
  <1>1. xpCnt \in [tx : Nat, fail : Nat]
    BY <1>0 DEF SeqsCounted
  <1>2. UNCHANGED <<xpCall, xpTask, xpCnt, xpTid>>
    BY DEF PeerGone
  <1>3. \A q \in Qs : xpQ'[q] = << >> \/ xpQ'[q] = xpQ[q]
    BY DEF PeerGone
  <1>4. Len(<< >>) = 0
    OBVIOUS
  <1>5. ASSUME NEW q \in Qs PROVE Unnumbered(q)' <= Unnumbered(q)
    <2>1. /\ Len(xpQ[q]) \in Nat /\ Cardinality(CallersFor(q)) \in Nat /\ TaskFor(q) \in {0, 1}
          /\ TaskFor(q)' = TaskFor(q) /\ CallersFor(q)' = CallersFor(q)
      BY <1>0, <1>2, CountType DEF TaskFor, CallersFor, QOf
    <2>2. Len(xpQ'[q]) = 0 \/ Len(xpQ'[q]) = Len(xpQ[q])
      BY <1>3, <1>4
    <2> QED
      BY <2>1, <2>2 DEF Unnumbered
  <1> QED
    BY <1>1, <1>2, <1>5, QuietSeq

\* The steps that touch neither frames nor numbers.
LEMMA OtherSeq ==
  ASSUME CountInv, XpTypeOK', UNCHANGED <<xpQ, xpCall, xpTask, xpTid, xpCnt>>
  PROVE  SeqsCounted'
  <1>0. SeqsCounted /\ XpTypeOK
    BY DEF CountInv
  <1>1. xpCnt \in [tx : Nat, fail : Nat]
    BY <1>0 DEF SeqsCounted
  <1>2. \A r \in Qs : Unnumbered(r)' = Unnumbered(r) /\ Unnumbered(r) \in Nat
    BY <1>0, CountType DEF Unnumbered, CallersFor, TaskFor, QOf
  <1>3. \A r \in Qs : Unnumbered(r)' <= Unnumbered(r)
    BY <1>2
  <1> QED
    BY <1>1, <1>3, QuietSeq

\* Every step keeps the count.
LEMMA SeqsStep ==
  ASSUME CountInv, XpTypeOK', [XpNext]_xpVars
  PROVE  SeqsCounted'
  <1>1. ASSUME NEW c \in XpCallers, \/ \E p \in XpPkts : rtw_xmit_entry(c, p)
                                    \/ PreDirect(c) \/ PreEnqueue(c) \/ xmitframe_direct(c)
        PROVE  SeqsCounted'
    BY <1>1, EntrySeq, PreDirectSeq, PreEnqueueSeq, DirectSeq
  <1>2. CASE TaskStart \/ TaskTake \/ TaskFirst \/ TaskAggregate \/ TaskSend
    BY <1>2, TaskStartSeq, TaskTakeSeq, TaskFirstSeq, TaskAggregateSeq, TaskSendSeq
  <1>3. ASSUME NEW q \in Qs, IssueAddba(q) \/ AddbaResponse(q) PROVE SeqsCounted'
    BY <1>3, IssueAddbaSeq, AddbaResponseSeq
  <1>4. CASE PeerGone
    BY <1>4, PeerGoneSeq
  <1>5. CASE \/ SurveyStep \/ rtw_os_xmit_schedule \/ KeysSet \/ DriverStops
             \/ \E b \in XpBufs : _rtl_tx_complete(b)
             \/ UNCHANGED xpVars
    <2>1. UNCHANGED <<xpQ, xpCall, xpTask, xpTid, xpCnt>>
      BY <1>5 DEF SurveyStep, rtw_os_xmit_schedule, KeysSet, DriverStops, _rtl_tx_complete, xpVars
    <2> QED
      BY <2>1, OtherSeq
  <1> QED
    BY <1>1, <1>2, <1>3, <1>4, <1>5 DEF XpNext

\* No frame and no agreement at first.
LEMMA SeqsInit ==
  ASSUME MaxXpTx \in Nat, XpSeq0 \in Nat, XpSeq0 < 4096, _rtw_init_xmit_priv
  PROVE  OwnQueue /\ SeqsCounted
  <1>1. /\ xpQ = [q \in Qs |-> << >>] /\ xpTask = NoTask /\ xpCall = [c \in XpCallers |-> NoCaller]
        /\ xpTid = [q \in Qs |-> [seq |-> XpSeq0, start |-> 0, ba |-> "off", broke |-> "no"]]
        /\ xpCnt = [tx |-> 0, fail |-> 0]
    BY DEF _rtw_init_xmit_priv
  <1>2. OwnQueue
    BY <1>1 DEF OwnQueue, Range
  <1> DEFINE t == [seq |-> XpSeq0, start |-> 0, ba |-> "off", broke |-> "no"]
  <1>3. t = [seq |-> XpSeq0, start |-> 0, ba |-> "off", broke |-> "no"]
    OBVIOUS
  <1> HIDE DEF t
  <1>4. t \in TidType /\ t.seq = XpSeq0 /\ t.start = 0 /\ t.ba = "off" /\ t.broke = "no"
    BY <1>3 DEF TidType
  <1>5. TidOK(t, 0)
    BY <1>4 DEF TidOK
  <1>6. \A q \in Qs : Unnumbered(q) = 0
    <2> SUFFICES ASSUME NEW q \in Qs PROVE Unnumbered(q) = 0
      OBVIOUS
    <2>1. Len(xpQ[q]) = 0 /\ TaskFor(q) = 0
      BY <1>1 DEF TaskFor, NoTask
    <2>2. CallersFor(q) = {}
      BY <1>1 DEF CallersFor
    <2>3. Cardinality(CallersFor(q)) = 0
      BY <2>2, FS_EmptySet
    <2> QED
      BY <2>1, <2>3 DEF Unnumbered
  <1>7. xpCnt.tx = 0 /\ xpCnt \in [tx : Nat, fail : Nat]
    BY <1>1
  <1>8. xpTid = [q \in Qs |-> t]
    BY <1>1, <1>3
  <1>9. xpTid \in [Qs -> TidType] /\ \A q \in Qs : xpTid[q] = t
    BY <1>4, <1>8
  <1>10. \A q \in Qs : Unnumbered(q) <= xpCnt.tx /\ TidOK(xpTid[q], xpCnt.tx - Unnumbered(q))
    BY <1>5, <1>6, <1>7, <1>9
  <1> QED
    BY <1>2, <1>7, <1>9, <1>10 DEF SeqsCounted

\* While there are fewer than 2048 packets every frame under an agreement may be
\* part of an A-MPDU, wherever the numbers start and wrap and however many
\* frames go out between request and answer (AmpduUsed).  The bound is the
\* code's: the start stays at the number of the request, and frames half the
\* number space ahead of it are taken for old ones by TX_SN_LESS.
THEOREM AgreementsUsed ==
  ASSUME MaxXpTx \in Nat, MaxXpTx < 2048, XpSeq0 \in Nat, XpSeq0 < 4096
  PROVE  XpSpec => []AmpduUsed
  <1>1. _rtw_init_xmit_priv => OwnQueue /\ SeqsCounted
    BY SeqsInit
  <1>2. XpInv /\ XpInv' /\ OwnQueue /\ SeqsCounted /\ [XpNext]_xpVars => OwnQueue' /\ SeqsCounted'
    <2> SUFFICES ASSUME XpInv, XpInv', OwnQueue, SeqsCounted, [XpNext]_xpVars
                 PROVE  OwnQueue' /\ SeqsCounted'
      OBVIOUS
    <2>1. CountInv /\ XpTypeOK'
      BY DEF CountInv, XpInv
    <2> QED
      BY <2>1, OwnQueueStep, SeqsStep
  <1>3. SeqsCounted => AmpduUsed
    BY DEF SeqsCounted, TidOK, AmpduUsed
  <1> QED
    BY <1>1, <1>2, <1>3, XpInvariant, PTL DEF XpSpec

\* A queue's agreement is in step: the next frame has the number it starts at.
InStep(t) == t.ba = "on" /\ t.broke = "no" /\ Lead(t) = 0
\* What a step may do to the numbers of a queue.
TidStep(t, u) ==
    \/ u = t \/ u = rtw_make_wlanhdr(t)
    \/ \E f : u \in rtw_issue_addbareq_cmd(t, f) \/ u \in rtw_issue_addbareq_cmd(rtw_make_wlanhdr(t), f)
    \/ t.ba = "asked" /\ u = [seq |-> t.seq, start |-> (t.seq + 1) % 4096, ba |-> "sent", broke |-> t.broke]
    \/ t.ba = "sent" /\ u = [t EXCEPT !.ba = "on"]
TidInRange(t) == t \in TidType /\ t.seq < 4096 /\ t.start < 4096
TidsInRange == xpTid \in [Qs -> TidType] /\ \A q \in Qs : TidInRange(xpTid[q])

\* A frame gets the next number; an agreement in step gets the one after it as
\* its start.
LEMMA TidMade ==
  ASSUME NEW t, TidInRange(t)
  PROVE  /\ TidInRange(rtw_make_wlanhdr(t)) /\ rtw_make_wlanhdr(t).ba = t.ba
         /\ InStep(t) => InStep(rtw_make_wlanhdr(t))
  <1> DEFINE x == t.seq
             y == t.start
             z == (x + 1) % 4096
             w == (z + 1) % 4096
             u == rtw_make_wlanhdr(t)
  <1>0. x \in Nat /\ y \in Nat /\ x < 4096 /\ y < 4096 /\ t.ba \in {"off", "asked", "sent", "on"}
    BY DEF TidInRange, TidType
  <1>1. /\ z \in Nat /\ z < 4096 /\ w \in Nat /\ w < 4096
        /\ (z + 1 - w) % 4096 = 0
        /\ (z - y) % 4096 = (x + 1 - y) % 4096
    BY <1>0, SeqWrap
  <1>2. LET less == t.ba = "on" /\ TX_SN_LESS(z, y)
        IN  u = [seq |-> z, ba |-> t.ba, broke |-> IF less THEN "yes" ELSE "no",
                 start |-> IF t.ba = "on" /\ ~ less THEN w ELSE y]
    BY DEF rtw_make_wlanhdr
  <1>3. Lead(t) = (x + 1 - y) % 4096
    BY DEF Lead
  <1> HIDE DEF x, y, z, w, u
  <1>4. \/ u = [seq |-> z, ba |-> t.ba, broke |-> "no", start |-> w]
        \/ u = [seq |-> z, ba |-> t.ba, broke |-> "yes", start |-> y]
        \/ u = [seq |-> z, ba |-> t.ba, broke |-> "no", start |-> y]
    <2>1. CASE t.ba # "on"
      BY <1>2, <2>1
    <2>2. CASE t.ba = "on" /\ TX_SN_LESS(z, y)
      BY <1>2, <2>2
    <2>3. CASE t.ba = "on" /\ ~ TX_SN_LESS(z, y)
      BY <1>2, <2>3
    <2> QED
      BY <2>1, <2>2, <2>3
  <1>5. u \in TidType /\ u.seq = z /\ u.ba = t.ba /\ u.start \in {w, y}
    BY <1>0, <1>1, <1>4 DEF TidType
  <1>6. TidInRange(u)
    BY <1>0, <1>1, <1>5 DEF TidInRange
  <1>7. ASSUME InStep(t) PROVE InStep(u)
    <2>1. (z - y) % 4096 = 0 /\ t.ba = "on"
      BY <1>1, <1>3, <1>7 DEF InStep
    <2>2. ~ TX_SN_LESS(z, y)
      BY <2>1 DEF TX_SN_LESS
    <2>3. u = [seq |-> z, ba |-> t.ba, broke |-> "no", start |-> w]
      BY <1>2, <2>1, <2>2
    <2>4. u.seq = z /\ u.start = w /\ u.broke = "no" /\ u.ba = "on"
      BY <2>1, <2>3
    <2> QED
      BY <1>1, <2>4 DEF InStep, Lead
  <1> QED
    BY <1>5, <1>6, <1>7 DEF u

\* An agreement is asked for only where there is none.
LEMMA TidAsked ==
  ASSUME NEW t, TidInRange(t), NEW f, NEW u \in rtw_issue_addbareq_cmd(t, f)
  PROVE  TidInRange(u) /\ (InStep(t) => InStep(u))
  <1>1. u = t \/ (t.ba = "off" /\ u = [t EXCEPT !.ba = "asked"])
    BY DEF rtw_issue_addbareq_cmd
  <1>2. CASE t.ba = "off" /\ u = [t EXCEPT !.ba = "asked"]
    <2>1. u \in TidType /\ u.seq = t.seq /\ u.start = t.start
      BY <1>2 DEF TidInRange, TidType
    <2> QED
      BY <1>2, <2>1 DEF TidInRange, InStep
  <1> QED
    BY <1>1, <1>2

\* None of these steps leaves the numbers or takes an agreement out of step.
LEMMA TidMoves ==
  ASSUME NEW t, NEW u, TidInRange(t), TidStep(t, u)
  PROVE  TidInRange(u) /\ (InStep(t) => InStep(u))
  <1>1. CASE u = t \/ u = rtw_make_wlanhdr(t)
    BY <1>1, TidMade
  <1>2. CASE \E f : u \in rtw_issue_addbareq_cmd(t, f) \/ u \in rtw_issue_addbareq_cmd(rtw_make_wlanhdr(t), f)
    BY <1>2, TidMade, TidAsked
  <1>3. CASE t.ba = "asked" /\ u = [seq |-> t.seq, start |-> (t.seq + 1) % 4096, ba |-> "sent", broke |-> t.broke]
    <2> DEFINE y == (t.seq + 1) % 4096
    <2>1. t.seq \in Nat /\ t.seq < 4096 /\ t.broke \in {"no", "yes"}
      BY DEF TidInRange, TidType
    <2>2. y \in Nat /\ y < 4096
      BY <2>1
    <2> HIDE DEF y
    <2>3. u = [seq |-> t.seq, start |-> y, ba |-> "sent", broke |-> t.broke]
      BY <1>3 DEF y
    <2>4. u \in TidType /\ u.seq = t.seq /\ u.start = y
      BY <2>1, <2>2, <2>3 DEF TidType
    <2> QED
      BY <1>3, <2>1, <2>2, <2>4 DEF TidInRange, InStep
  <1>4. CASE t.ba = "sent" /\ u = [t EXCEPT !.ba = "on"]
    <2>1. u \in TidType /\ u.seq = t.seq /\ u.start = t.start
      BY <1>4 DEF TidInRange, TidType
    <2> QED
      BY <1>4, <2>1 DEF TidInRange, InStep
  <1> QED
    BY <1>1, <1>2, <1>3, <1>4 DEF TidStep

\* Every step of the transmit path does one of these, to one queue.
LEMMA NumbersMove ==
  ASSUME [XpNext]_xpVars
  PROVE  xpTid' = xpTid \/ \E q, u : TidStep(xpTid[q], u) /\ xpTid' = [xpTid EXCEPT ![q] = u]
  <1> DEFINE Goal == xpTid' = xpTid \/ \E q, u : TidStep(xpTid[q], u) /\ xpTid' = [xpTid EXCEPT ![q] = u]
  <1>1. ASSUME NEW c \in XpCallers, \/ \E p \in XpPkts : rtw_xmit_entry(c, p)
                                    \/ PreDirect(c) \/ PreEnqueue(c)
        PROVE  xpTid' = xpTid
    BY <1>1 DEF rtw_xmit_entry, PreDirect, PreEnqueue
  <1>2. ASSUME NEW c \in XpCallers, xmitframe_direct(c) PROVE Goal
    <2>1. PICK f : f = xpCall[c].f
      OBVIOUS
    <2>2. xpTid' = xpTid \/ \E t \in rtw_issue_addbareq_cmd(rtw_make_wlanhdr(xpTid[QOf(f)]), f) :
                              xpTid' = [xpTid EXCEPT ![QOf(f)] = t]
      BY <1>2, <2>1 DEF xmitframe_direct
    <2>3. \A t \in rtw_issue_addbareq_cmd(rtw_make_wlanhdr(xpTid[QOf(f)]), f) : TidStep(xpTid[QOf(f)], t)
      BY DEF TidStep
    <2> QED
      BY <2>2, <2>3
  <1>3. CASE TaskFirst \/ TaskAggregate
    <2>1. xpTid' = xpTid \/ xpTid' = [xpTid EXCEPT ![QOf(xpTask.f)] = rtw_make_wlanhdr(@)]
      BY <1>3 DEF TaskFirst, TaskAggregate
    <2> QED
      BY <2>1 DEF TidStep
  <1>4. CASE TaskSend
    <2>1. PICK f : f = xpTask.f
      OBVIOUS
    <2>2. \E t \in rtw_issue_addbareq_cmd(xpTid[QOf(f)], f) : xpTid' = [xpTid EXCEPT ![QOf(f)] = t]
      BY <1>4, <2>1 DEF TaskSend
    <2>3. \A t \in rtw_issue_addbareq_cmd(xpTid[QOf(f)], f) : TidStep(xpTid[QOf(f)], t)
      BY DEF TidStep
    <2> QED
      BY <2>2, <2>3
  <1>5. ASSUME NEW q \in Qs, IssueAddba(q) \/ AddbaResponse(q) PROVE Goal
    <2>1. CASE IssueAddba(q)
      <3> DEFINE u == [seq |-> xpTid[q].seq, start |-> (xpTid[q].seq + 1) % 4096,
                       ba |-> "sent", broke |-> xpTid[q].broke]
      <3>1. xpTid' = [xpTid EXCEPT ![q] = u] /\ xpTid[q].ba = "asked"
        BY <2>1 DEF IssueAddba
      <3>2. TidStep(xpTid[q], u)
        BY <3>1 DEF TidStep
      <3> HIDE DEF u
      <3> QED
        BY <3>1, <3>2
    <2>2. CASE AddbaResponse(q)
      <3>1. PICK t, u : /\ t = xpTid[q] /\ xpTid' = [xpTid EXCEPT ![q] = u] /\ t.ba = "sent"
                        /\ u = [t EXCEPT !.ba = "on"]
        BY <2>2, Zenon DEF AddbaResponse
      <3>2. TidStep(t, u)
        BY <3>1 DEF TidStep
      <3> QED
        BY <3>1, <3>2
    <2> QED
      BY <1>5, <2>1, <2>2
  <1>6. CASE \/ TaskStart \/ TaskTake \/ SurveyStep \/ rtw_os_xmit_schedule \/ KeysSet \/ DriverStops
             \/ PeerGone \/ \E b \in XpBufs : _rtl_tx_complete(b)
             \/ UNCHANGED xpVars
    BY <1>6 DEF TaskStart, TaskTake, SurveyStep, rtw_os_xmit_schedule, KeysSet, DriverStops,
                PeerGone, _rtl_tx_complete, xpVars
  <1> QED
    BY <1>1, <1>2, <1>3, <1>4, <1>5, <1>6 DEF XpNext

\* Once an agreement is in step, as IssueAddba sets it and the first frame under
\* it sets it again, it stays in step for every frame to come, and each may be
\* part of an A-MPDU (rtw_make_wlanhdr).
AgreementsStay == \A q \in Qs : InStep(xpTid[q]) => InStep(xpTid'[q])

\* An agreement in step stays so: however many frames follow, on whatever way
\* and in whatever interleaving of callers and tasklet, and across the wrap of
\* the sequence numbers, rtw_make_wlanhdr finds each at the start it keeps.
THEOREM AgreementsInStep ==
  ASSUME XpSeq0 \in Nat, XpSeq0 < 4096
  PROVE  XpSpec => [][AgreementsStay]_xpVars
  <1>1. _rtw_init_xmit_priv => TidsInRange
    <2> SUFFICES ASSUME _rtw_init_xmit_priv PROVE TidsInRange
      OBVIOUS
    <2> DEFINE t == [seq |-> XpSeq0, start |-> 0, ba |-> "off", broke |-> "no"]
    <2>1. t \in TidType /\ t.seq = XpSeq0 /\ t.start = 0
      BY DEF TidType
    <2>2. xpTid = [q \in Qs |-> t]
      BY DEF _rtw_init_xmit_priv
    <2> HIDE DEF t
    <2> QED
      BY <2>1, <2>2 DEF TidsInRange, TidInRange
  <1>2. TidsInRange /\ [XpNext]_xpVars => TidsInRange' /\ AgreementsStay
    <2> SUFFICES ASSUME TidsInRange, [XpNext]_xpVars PROVE TidsInRange' /\ AgreementsStay
      OBVIOUS
    <2>1. CASE xpTid' = xpTid
      BY <2>1 DEF TidsInRange, TidInRange, InStep, AgreementsStay, Lead
    <2>2. ASSUME NEW q, NEW u, TidStep(xpTid[q], u), xpTid' = [xpTid EXCEPT ![q] = u]
          PROVE  TidsInRange' /\ AgreementsStay
      <3>1. CASE q \in Qs
        <4>1. TidInRange(u) /\ (InStep(xpTid[q]) => InStep(u))
          BY <2>2, <3>1, TidMoves DEF TidsInRange
        <4>2. u \in TidType
          BY <4>1 DEF TidInRange
        <4>3. xpTid' \in [Qs -> TidType] /\ \A r \in Qs : xpTid'[r] = IF r = q THEN u ELSE xpTid[r]
          BY <2>2, <3>1, <4>2 DEF TidsInRange
        <4>4. ASSUME NEW r \in Qs PROVE TidInRange(xpTid'[r]) /\ (InStep(xpTid[r]) => InStep(xpTid'[r]))
          <5>1. CASE r = q
            BY <4>1, <4>3, <5>1
          <5>2. CASE r # q
            BY <4>3, <5>2 DEF TidsInRange
          <5> QED
            BY <5>1, <5>2
        <4>5. TidsInRange'
          BY <4>3, <4>4 DEF TidsInRange, TidInRange
        <4> QED
          BY <4>4, <4>5 DEF AgreementsStay
      <3>2. CASE q \notin Qs
        <4>1. xpTid' = xpTid
          BY <2>2, <3>2 DEF TidsInRange
        <4> QED
          BY <2>1, <4>1
      <3> QED
        BY <3>1, <3>2
    <2> QED
      BY <2>1, <2>2, NumbersMove
  <1> QED
    BY <1>1, <1>2, PTL DEF XpSpec
-----------------------------------------------------------------------------
(* The receive frames *)

\* The queues of receive frames, and whatever else the record holds.
RqType(s) ==
    s \in [free : Seq(RpFrames), cnt : {s.cnt}, pend : Seq(RpFrames), defrag : [Entries -> Seq(RpFrames)],
           cache : {s.cache}, at : {s.at}, mic : {s.mic}, drop : {s.drop}]
\* A frame is in one list at most, once.
RqOnce(s) ==
    /\ IsInjective(s.free) /\ IsInjective(s.pend) /\ Range(s.pend) \cap Range(s.free) = {}
    /\ \A a \in Entries : /\ IsInjective(s.defrag[a])
                          /\ Range(s.defrag[a]) \cap (Range(s.free) \cup Range(s.pend)) = {}
    /\ \A a \in Entries : \A b \in Entries \ {a} : Range(s.defrag[a]) \cap Range(s.defrag[b]) = {}
RqOK(s) == RqType(s) /\ RqOnce(s)
\* A frame is in none.
Away(s, f) ==
    f \notin Range(s.free) /\ f \notin Range(s.pend) /\ \A a \in Entries : f \notin Range(s.defrag[a])

\* The lists are all that matters.
LEMMA SameLists ==
  ASSUME NEW s, RqOK(s), NEW t, RqType(t), t.free = s.free, t.pend = s.pend, t.defrag = s.defrag
  PROVE  RqOK(t) /\ \A g : Away(s, g) <=> Away(t, g)
  BY DEF RqOK, RqOnce, Away

\* list_del_init takes one frame out of a list and leaves the others.
LEMMA UnlinkedFacts ==
  ASSUME NEW list \in Seq(RpFrames), IsInjective(list), NEW f \in RpFrames
  PROVE  /\ Unlinked(list, f) \in Seq(RpFrames) /\ IsInjective(Unlinked(list, f))
         /\ Range(Unlinked(list, f)) = Range(list) \ {f}
  <1>1. Unlinked(list, f) = Delisted(list, f)
    BY DEF Unlinked, Delisted
  <1> QED
    BY <1>1, DelistedFacts

\* Once unlinked a frame is in no list.
LEMMA ListDelOK ==
  ASSUME NEW s, RqOK(s), NEW f \in RpFrames, NEW t, t = ListDel(s, f)
  PROVE  /\ RqOK(t) /\ Away(t, f) /\ \A g : Away(s, g) => Away(t, g)
         /\ t.free = Unlinked(s.free, f) /\ t.pend = Unlinked(s.pend, f)
         /\ \A a \in Entries : t.defrag[a] = Unlinked(s.defrag[a], f)
  <1>1. RqType(s) /\ RqOnce(s)
    BY DEF RqOK
  <1>2. s.pend \in Seq(RpFrames) /\ s.defrag \in [Entries -> Seq(RpFrames)] /\ s.free \in Seq(RpFrames)
    BY <1>1 DEF RqType
  <1>3. PICK d : d = [a \in Entries |-> Unlinked(s.defrag[a], f)]
    OBVIOUS
  <1>4. /\ Unlinked(s.pend, f) \in Seq(RpFrames) /\ IsInjective(Unlinked(s.pend, f))
        /\ Range(Unlinked(s.pend, f)) = Range(s.pend) \ {f}
        /\ Unlinked(s.free, f) \in Seq(RpFrames) /\ IsInjective(Unlinked(s.free, f))
        /\ Range(Unlinked(s.free, f)) = Range(s.free) \ {f}
    BY <1>1, <1>2, UnlinkedFacts DEF RqOnce
  <1>5. \A a \in Entries : /\ d[a] \in Seq(RpFrames) /\ IsInjective(d[a]) /\ d[a] = Unlinked(s.defrag[a], f)
                           /\ Range(d[a]) = Range(s.defrag[a]) \ {f}
    BY <1>1, <1>2, <1>3, UnlinkedFacts DEF RqOnce
  <1>6. d \in [Entries -> Seq(RpFrames)]
    BY <1>3, <1>5
  <1>7. PICK x, y : x = Unlinked(s.free, f) /\ y = Unlinked(s.pend, f)
    OBVIOUS
  <1>8. t = [s EXCEPT !.free = x, !.pend = y, !.defrag = d]
    BY <1>1, <1>3, <1>7 DEF ListDel, RqType
  <1>9. RqType(t) /\ t.free = x /\ t.pend = y /\ t.defrag = d
    BY <1>1, <1>2, <1>4, <1>6, <1>7, <1>8 DEF RqType
  <1>10. RqOnce(t)
    BY <1>1, <1>4, <1>5, <1>7, <1>9 DEF RqOnce
  <1>11. Away(t, f) /\ \A g : Away(s, g) => Away(t, g)
    BY <1>4, <1>5, <1>7, <1>9 DEF Away
  <1> QED
    BY <1>5, <1>7, <1>9, <1>10, <1>11 DEF RqOK

\* A freed frame is in the pool and in no other list.
LEMMA FreeOK ==
  ASSUME NEW s, RqOK(s), NEW f \in RpFrames, NEW t, t = rtw_free_recvframe(s, f)
  PROVE  RqOK(t) /\ \A g : g # f /\ Away(s, g) => Away(t, g)
  <1>1. PICK u : u = ListDel(s, f)
    OBVIOUS
  <1>2. RqOK(u) /\ Away(u, f) /\ \A g : Away(s, g) => Away(u, g)
    BY <1>1, ListDelOK
  <1>3. RqType(u) /\ RqOnce(u)
    BY <1>2 DEF RqOK
  <1>4. PICK x, y, z : x = Append(u.free, f) /\ y = u.cnt + 1 /\ z = [u.at EXCEPT ![f] = NoAttrib]
    OBVIOUS
  <1>5. t = [u EXCEPT !.free = x, !.cnt = y, !.at = z]
    BY <1>1, <1>3, <1>4 DEF rtw_free_recvframe, RqType
  <1>0. u.free \in Seq(RpFrames) /\ IsInjective(u.free) /\ f \notin Range(u.free)
    BY <1>2, <1>3 DEF RqType, RqOnce, Away
  <1>6. x \in Seq(RpFrames) /\ Range(x) = Range(u.free) \cup {f} /\ IsInjective(x)
    BY <1>0, <1>4, AppendDistinct
  <1>7. RqType(t) /\ t.free = x /\ t.pend = u.pend /\ t.defrag = u.defrag
    BY <1>3, <1>5, <1>6 DEF RqType
  <1>8. RqOnce(t)
    BY <1>2, <1>3, <1>6, <1>7 DEF RqOnce, Away
  <1>9. \A g : g # f /\ Away(u, g) => Away(t, g)
    BY <1>6, <1>7 DEF Away
  <1> QED
    BY <1>2, <1>7, <1>8, <1>9 DEF RqOK

\* One list after another.
LEMMA JoinDistinct ==
  ASSUME NEW S, NEW p \in Seq(S), NEW q \in Seq(S), IsInjective(p), IsInjective(q), Range(p) \cap Range(q) = {}
  PROVE  p \o q \in Seq(S) /\ IsInjective(p \o q) /\ Range(p \o q) = Range(p) \cup Range(q)
  <1> DEFINE r == p \o q
  <1>1. /\ r \in Seq(S) /\ DOMAIN r = 1 .. Len(p) + Len(q) /\ DOMAIN p = 1 .. Len(p) /\ DOMAIN q = 1 .. Len(q)
        /\ Len(p) \in Nat /\ Len(q) \in Nat
        /\ \A i \in 1 .. Len(p) : r[i] = p[i]
        /\ \A i \in 1 .. Len(q) : r[Len(p) + i] = q[i]
    BY ConcatProperties
  <1> HIDE DEF r
  <1>2. \A i \in DOMAIN r : i \in 1 .. Len(p) \/ \E j \in 1 .. Len(q) : i = Len(p) + j
    <2> TAKE i \in DOMAIN r
    <2>1. CASE i > Len(p)
      <3>1. i - Len(p) \in 1 .. Len(q) /\ i = Len(p) + (i - Len(p))
        BY <1>1, <2>1
      <3> QED
        BY <3>1
    <2>2. CASE ~ (i > Len(p))
      BY <1>1, <2>2
    <2> QED
      BY <2>1, <2>2
  <1>3. Range(r) = Range(p) \cup Range(q)
    <2>1. ASSUME NEW x \in Range(r) PROVE x \in Range(p) \cup Range(q)
      <3>1. PICK i \in DOMAIN r : x = r[i]
        BY <2>1 DEF Range
      <3>2. CASE i \in 1 .. Len(p)
        BY <1>1, <3>1, <3>2 DEF Range
      <3>3. ASSUME NEW j \in 1 .. Len(q), i = Len(p) + j PROVE x \in Range(q)
        BY <1>1, <3>1, <3>3 DEF Range
      <3> QED
        BY <1>2, <3>2, <3>3
    <2>2. ASSUME NEW x \in Range(p) PROVE x \in Range(r)
      BY <1>1, <2>2 DEF Range
    <2>3. ASSUME NEW x \in Range(q) PROVE x \in Range(r)
      <3>1. PICK j \in 1 .. Len(q) : x = q[j]
        BY <1>1, <2>3 DEF Range
      <3>2. Len(p) + j \in DOMAIN r /\ r[Len(p) + j] = x
        BY <1>1, <3>1
      <3> QED
        BY <3>2 DEF Range
    <2> QED
      BY <2>1, <2>2, <2>3
  <1>4. ASSUME NEW i \in DOMAIN r, NEW j \in DOMAIN r, r[i] = r[j] PROVE i = j
    <2>1. CASE i \in 1 .. Len(p) /\ j \in 1 .. Len(p)
      BY <1>1, <1>4, <2>1 DEF IsInjective
    <2>2. ASSUME NEW k \in 1 .. Len(q), NEW l \in 1 .. Len(q), i = Len(p) + k, j = Len(p) + l PROVE i = j
      BY <1>1, <1>4, <2>2 DEF IsInjective
    <2>3. ASSUME NEW k \in 1 .. Len(p), NEW l \in 1 .. Len(q), p[k] = q[l] PROVE FALSE
      BY <1>1, <2>3 DEF Range
    <2> QED
      BY <1>1, <1>2, <1>4, <2>1, <2>2, <2>3
  <1> QED
    BY <1>1, <1>3, <1>4 DEF r, IsInjective

\* The frames of a list go to the pool, the list is empty after.
LEMMA AllFreedOK ==
  ASSUME NEW s, RqOK(s), NEW list \in Seq(RpFrames), NEW u, u = AllFreed(s, list),
         IsInjective(list), Range(list) \cap Range(s.free) = {}
  PROVE  /\ RqType(u) /\ IsInjective(u.free) /\ Range(u.free) = Range(s.free) \cup Range(list)
         /\ u.pend = s.pend /\ u.defrag = s.defrag
  <1>1. RqType(s)
    BY DEF RqOK
  <1>2. PICK x, y, z : /\ x = s.free \o list /\ y = s.cnt + Len(list)
                       /\ z = [f \in RpFrames |-> IF f \in Range(list) THEN NoAttrib ELSE s.at[f]]
    OBVIOUS
  <1>3. u = [s EXCEPT !.free = x, !.cnt = y, !.at = z]
    BY <1>1, <1>2 DEF AllFreed, RqType
  <1>5. s.free \in Seq(RpFrames) /\ IsInjective(s.free)
    BY <1>1 DEF RqOK, RqType, RqOnce
  <1>4. x \in Seq(RpFrames) /\ IsInjective(x) /\ Range(x) = Range(s.free) \cup Range(list)
    BY <1>2, <1>5, JoinDistinct
  <1> QED
    BY <1>1, <1>2, <1>3, <1>4 DEF RqType
\* Freeing the fragments of a station moves them to the pool.
LEMMA FreeQueueOK ==
  ASSUME NEW s, RqOK(s), NEW a \in Entries, NEW t, t = rtw_free_recvframe_queue(s, a)
  PROVE  RqOK(t) /\ \A g : Away(s, g) => Away(t, g)
  <1>0. RqType(s) /\ RqOnce(s) /\ s.defrag \in [Entries -> Seq(RpFrames)]
    BY DEF RqOK, RqType
  <1>1. PICK u : u = AllFreed(s, s.defrag[a])
    OBVIOUS
  <1>2. /\ RqType(u) /\ u.pend = s.pend /\ u.defrag = s.defrag
        /\ IsInjective(u.free) /\ Range(u.free) = Range(s.free) \cup Range(s.defrag[a])
    <2>1. s.defrag[a] \in Seq(RpFrames) /\ IsInjective(s.defrag[a]) /\ Range(s.defrag[a]) \cap Range(s.free) = {}
      BY <1>0 DEF RqOnce
    <2> QED
      BY <1>1, <2>1, AllFreedOK
  <1>3. PICK d : d = [s.defrag EXCEPT ![a] = << >>]
    OBVIOUS
  <1>4. d \in [Entries -> Seq(RpFrames)] /\ d[a] = << >> /\ \A b \in Entries \ {a} : d[b] = s.defrag[b]
    BY <1>0, <1>3
  <1>5. t = [u EXCEPT !.defrag = d]
    BY <1>1, <1>2, <1>3 DEF rtw_free_recvframe_queue, RqType
  <1>6. RqType(t) /\ t.free = u.free /\ t.pend = s.pend /\ t.defrag = d
    BY <1>2, <1>4, <1>5 DEF RqType
  <1>7. Range(<< >>) = {} /\ IsInjective(<< >>)
    BY DEF Range, IsInjective
  <1>8. RqOnce(t)
    <2>1. IsInjective(t.free) /\ IsInjective(t.pend) /\ Range(t.pend) \cap Range(t.free) = {}
      BY <1>0, <1>2, <1>6 DEF RqOnce
    <2>2. ASSUME NEW b \in Entries
          PROVE  /\ IsInjective(t.defrag[b]) /\ Range(t.defrag[b]) \subseteq Range(s.defrag[b])
                 /\ Range(t.defrag[b]) \cap (Range(t.free) \cup Range(t.pend)) = {}
      <3>1. CASE b = a
        BY <1>4, <1>6, <1>7, <3>1
      <3>2. CASE b # a
        <4>1. t.defrag[b] = s.defrag[b] /\ Range(s.defrag[b]) \cap Range(s.defrag[a]) = {}
          BY <1>0, <1>4, <1>6, <3>2 DEF RqOnce
        <4> QED
          BY <1>0, <1>2, <1>6, <4>1 DEF RqOnce
      <3> QED
        BY <3>1, <3>2
    <2>3. \A b \in Entries : \A c \in Entries \ {b} : Range(t.defrag[b]) \cap Range(t.defrag[c]) = {}
      BY <1>0, <2>2 DEF RqOnce
    <2> QED
      BY <2>1, <2>2, <2>3 DEF RqOnce
  <1>9. \A g : Away(s, g) => Away(t, g)
    BY <1>2, <1>4, <1>6, <1>7 DEF Away
  <1> QED
    BY <1>6, <1>8, <1>9 DEF RqOK
\* Freeing the frames that wait for the key moves them to the pool.
LEMMA FreePendOK ==
  ASSUME NEW s, RqOK(s), NEW t, t = [AllFreed(s, s.pend) EXCEPT !.pend = << >>]
  PROVE  RqOK(t) /\ \A g : Away(s, g) => Away(t, g)
  <1>0. RqType(s) /\ RqOnce(s) /\ s.pend \in Seq(RpFrames)
    BY DEF RqOK, RqType
  <1>1. PICK u : u = AllFreed(s, s.pend)
    OBVIOUS
  <1>2. /\ RqType(u) /\ u.pend = s.pend /\ u.defrag = s.defrag
        /\ IsInjective(u.free) /\ Range(u.free) = Range(s.free) \cup Range(s.pend)
    <2>1. s.pend \in Seq(RpFrames) /\ IsInjective(s.pend) /\ Range(s.pend) \cap Range(s.free) = {}
      BY <1>0 DEF RqOnce
    <2> QED
      BY <1>1, <2>1, AllFreedOK
  <1>3. t = [u EXCEPT !.pend = << >>]
    BY <1>1
  <1>4. RqType(t) /\ t.free = u.free /\ t.pend = << >> /\ t.defrag = s.defrag
    <2> DEFINE e == << >>
    <2>1. e = << >> /\ e \in Seq(RpFrames)
      OBVIOUS
    <2> HIDE DEF e
    <2>2. t = [u EXCEPT !.pend = e]
      BY <1>3, <2>1
    <2>3. RqType(t) /\ t.free = u.free /\ t.pend = e /\ t.defrag = u.defrag
      BY <1>2, <2>1, <2>2 DEF RqType
    <2> QED
      BY <1>2, <2>1, <2>3
  <1>5. Range(<< >>) = {} /\ IsInjective(<< >>)
    BY DEF Range, IsInjective
  <1>6. RqOnce(t)
    BY <1>0, <1>2, <1>4, <1>5 DEF RqOnce
  <1>7. \A g : Away(s, g) => Away(t, g)
    BY <1>2, <1>4, <1>5 DEF Away
  <1> QED
    BY <1>4, <1>6, <1>7 DEF RqOK

\* A frame that is in no list joins the fragments of a station.
Queued(s, a, f) == [s EXCEPT !.defrag[a] = Append(@, f)]
\* It was in no list and is now in that one.
LEMMA QueuedOK ==
  ASSUME NEW s, RqOK(s), NEW f \in RpFrames, Away(s, f), NEW a \in Entries, NEW t, t = Queued(s, a, f)
  PROVE  /\ RqOK(t) /\ t.defrag[a] # << >>
         /\ \A g : g # f /\ Away(s, g) => Away(t, g)
  <1>0. RqType(s) /\ RqOnce(s) /\ s.defrag \in [Entries -> Seq(RpFrames)]
    BY DEF RqOK, RqType
  <1>1. PICK q, d : q = Append(s.defrag[a], f) /\ d = [s.defrag EXCEPT ![a] = q]
    OBVIOUS
  <1>2. /\ q \in Seq(RpFrames) /\ Range(q) = Range(s.defrag[a]) \cup {f} /\ IsInjective(q) /\ q # << >>
    BY <1>0, <1>1, AppendDistinct DEF RqOnce, Away
  <1>3. d \in [Entries -> Seq(RpFrames)] /\ d[a] = q /\ \A b \in Entries \ {a} : d[b] = s.defrag[b]
    BY <1>0, <1>1, <1>2
  <1>4. t = [s EXCEPT !.defrag = d]
    BY <1>0, <1>1 DEF Queued, RqType
  <1>5. RqType(t) /\ t.free = s.free /\ t.pend = s.pend /\ t.defrag = d
    BY <1>0, <1>3, <1>4 DEF RqType
  <1>6. RqOnce(t)
    <2>1. IsInjective(t.free) /\ IsInjective(t.pend) /\ Range(t.pend) \cap Range(t.free) = {}
      BY <1>0, <1>5 DEF RqOnce
    <2>2. \A b \in Entries : IsInjective(d[b]) /\ Range(d[b]) = Range(s.defrag[b]) \cup IF b = a THEN {f} ELSE {}
      BY <1>0, <1>2, <1>3 DEF RqOnce
    <2>3. ASSUME NEW b \in Entries
          PROVE  /\ Range(d[b]) \cap (Range(t.free) \cup Range(t.pend)) = {}
                 /\ \A c \in Entries \ {b} : Range(d[b]) \cap Range(s.defrag[c]) = {} /\ f \notin Range(s.defrag[b])
      <3>1. /\ Range(s.defrag[b]) \cap (Range(s.free) \cup Range(s.pend)) = {}
            /\ \A c \in Entries \ {b} : Range(s.defrag[b]) \cap Range(s.defrag[c]) = {}
        BY <1>0 DEF RqOnce
      <3>2. f \notin Range(s.free) \cup Range(s.pend) /\ \A c \in Entries : f \notin Range(s.defrag[c])
        BY DEF Away
      <3>3. Range(d[b]) \subseteq Range(s.defrag[b]) \cup {f}
        BY <2>2
      <3> QED
        BY <1>5, <3>1, <3>2, <3>3
    <2>4. ASSUME NEW b \in Entries, NEW c \in Entries \ {b} PROVE Range(d[b]) \cap Range(d[c]) = {}
      <3>1. CASE c = a
        <4>1. d[b] = s.defrag[b] /\ Range(d[c]) = Range(s.defrag[c]) \cup {f}
          BY <1>2, <1>3, <3>1
        <4> QED
          BY <1>0, <2>3, <4>1 DEF RqOnce
      <3>2. CASE c # a
        <4>1. d[c] = s.defrag[c]
          BY <1>3, <3>2
        <4> QED
          BY <2>3, <4>1
      <3> QED
        BY <3>1, <3>2
    <2> QED
      BY <1>5, <2>1, <2>2, <2>3, <2>4 DEF RqOnce
  <1>7. \A g : g # f /\ Away(s, g) => Away(t, g)
    BY <1>2, <1>3, <1>5 DEF Away
  <1> QED
    BY <1>2, <1>3, <1>5, <1>6, <1>7 DEF RqOK

\* What a step of the reassembly may do: the frame it goes on with, if there is
\* one, is in no list, and other frames in no list stay so.
Going(s, f, r) ==
    /\ RqOK(r.s) /\ (r.f = NoRframe \/ (r.f \in RpFrames /\ Away(r.s, r.f)))
    /\ \A g \in RpFrames \ {f} : Away(s, g) => Away(r.s, g) /\ g # r.f

\* recvframe_defrag: the fragments go back to the pool, and the first one, if
\* they are in sequence, goes on outside the lists.
LEMMA DefragOK ==
  ASSUME NEW s, RqOK(s), NEW a \in Entries, s.defrag[a] # << >>, NEW r, r = recvframe_defrag(s, a)
  PROVE  /\ RqOK(r.s) /\ (r.f = NoRframe \/ (r.f \in RpFrames /\ Away(r.s, r.f)))
         /\ \A g \in RpFrames : Away(s, g) => Away(r.s, g) /\ g # r.f
  <1>0. RqType(s) /\ s.defrag[a] \in Seq(RpFrames)
    BY DEF RqOK, RqType
  <1>1. PICK q, first : q = s.defrag[a] /\ first = Head(q)
    OBVIOUS
  <1>2. first \in RpFrames /\ ~ Away(s, first)
    BY <1>0, <1>1, TailDistinct DEF Away
  <1>n. NoRframe \notin RpFrames
    BY RpAssumption
  <1>3. CASE ~ InSequence(s, q)
    <2>1. PICK t : t = rtw_free_recvframe_queue(s, a)
      OBVIOUS
    <2>2. r = [s |-> t, f |-> NoRframe]
      BY <1>1, <1>3, <2>1 DEF recvframe_defrag
    <2>3. RqOK(t) /\ \A g : Away(s, g) => Away(t, g)
      BY <2>1, FreeQueueOK
    <2> QED
      BY <1>n, <2>2, <2>3
  <1>4. CASE InSequence(s, q)
    <2>1. PICK u, v, w, t : /\ u = ListDel(s, first) /\ w = [u.at EXCEPT ![first] = Joined(s, q)]
                            /\ v = [u EXCEPT !.at = w] /\ t = rtw_free_recvframe_queue(v, a)
      OBVIOUS
    <2>2. RqOK(u) /\ Away(u, first) /\ \A g : Away(s, g) => Away(u, g)
      BY <1>2, <2>1, ListDelOK
    <2>3. RqType(v) /\ v.free = u.free /\ v.pend = u.pend /\ v.defrag = u.defrag
      BY <2>1, <2>2 DEF RqOK, RqType
    <2>4. RqOK(v) /\ \A g : Away(u, g) <=> Away(v, g)
      BY <2>2, <2>3, SameLists
    <2>5. RqOK(t) /\ \A g : Away(v, g) => Away(t, g)
      BY <2>1, <2>4, FreeQueueOK
    <2>6. v = [u EXCEPT !.at[first] = Joined(s, q)]
      BY <2>1, <2>2 DEF RqOK, RqType
    <2>7. r = [s |-> t, f |-> first]
      BY <1>1, <1>4, <2>1, <2>6 DEF recvframe_defrag
    <2> QED
      BY <1>2, <2>2, <2>4, <2>5, <2>7
  <1> QED
    BY <1>3, <1>4

\* recvframe_chk_defrag: the frame is queued, goes on, or is freed.
LEMMA ReassembledOK ==
  ASSUME NEW s, RqOK(s), NEW f \in RpFrames, Away(s, f), rpSta \subseteq Entries,
         NEW r, r = Reassembled(s, f)
  PROVE  Going(s, f, r)
  <1>1. PICK m, a : m = s.at[f].m /\ a = m.from
    OBVIOUS
  <1>n. NoRframe \notin RpFrames
    BY RpAssumption
  <1>2. CASE r = [s |-> s, f |-> f]
    BY <1>2 DEF Going
  <1>3. CASE r = [s |-> rtw_free_recvframe(s, f), f |-> NoRframe]
    <2>1. PICK t : t = rtw_free_recvframe(s, f)
      OBVIOUS
    <2>2. RqOK(t) /\ \A g : g # f /\ Away(s, g) => Away(t, g)
      BY <2>1, FreeOK
    <2>3. r = [s |-> t, f |-> NoRframe]
      BY <1>3, <2>1
    <2> QED
      BY <1>n, <2>2, <2>3 DEF Going
  <1>4. CASE a \in rpSta \cup {Bc} /\ r = recvframe_defrag(Queued(s, a, f), a)
    <2>1. PICK t : t = Queued(s, a, f)
      OBVIOUS
    <2>2. a \in Entries
      BY <1>4 DEF Entries
    <2>3. RqOK(t) /\ t.defrag[a] # << >> /\ \A g : g # f /\ Away(s, g) => Away(t, g)
      BY <2>1, <2>2, QueuedOK
    <2>4. /\ RqOK(r.s) /\ (r.f = NoRframe \/ (r.f \in RpFrames /\ Away(r.s, r.f)))
          /\ \A g \in RpFrames : Away(t, g) => Away(r.s, g) /\ g # r.f
      BY <1>4, <2>1, <2>2, <2>3, DefragOK
    <2> QED
      BY <2>3, <2>4 DEF Going
  <1>5. CASE /\ a \in rpSta \cup {Bc}
             /\ r = [s |-> Queued(IF m.frag = 0 THEN rtw_free_recvframe_queue(s, a) ELSE s, a, f), f |-> NoRframe]
    <2>1. PICK u, t : u = (IF m.frag = 0 THEN rtw_free_recvframe_queue(s, a) ELSE s) /\ t = Queued(u, a, f)
      OBVIOUS
    <2>2. a \in Entries
      BY <1>5 DEF Entries
    <2>3. RqOK(u) /\ \A g : Away(s, g) => Away(u, g)
      BY <2>1, <2>2, FreeQueueOK
    <2>4. RqOK(t) /\ \A g : g # f /\ Away(u, g) => Away(t, g)
      BY <2>1, <2>2, <2>3, QueuedOK
    <2>5. r = [s |-> t, f |-> NoRframe]
      BY <1>5, <2>1
    <2> QED
      BY <1>n, <2>3, <2>4, <2>5 DEF Going
  <1> QED
    BY <1>1, <1>2, <1>3, <1>4, <1>5 DEF Reassembled, Queued

\* The Michael check touches no list, and frees the frame when it fails.
LEMMA MicOK ==
  ASSUME NEW s, NEW f \in RpFrames, NEW r, Going(s, f, r), NEW luck, NEW d, d = WithMic(r, luck)
  PROVE  Going(s, f, d)
  <1>1. PICK c : c = recvframe_chkmic(r.s, r.f, luck)
    OBVIOUS
  <1>2. \/ d = r
        \/ r.f # NoRframe /\ d = [s |-> c.s, f |-> r.f]
        \/ r.f # NoRframe /\ d = [s |-> rtw_free_recvframe(c.s, r.f), f |-> NoRframe]
    BY <1>1 DEF WithMic, MicChecked
  <1>3. CASE d = r
    BY <1>3
  <1>4. CASE r.f # NoRframe
    <2>0. RqOK(r.s) /\ RqType(r.s) /\ r.f \in RpFrames /\ Away(r.s, r.f)
      BY <1>4 DEF Going, RqOK
    <2>1. RqType(c.s) /\ c.s.free = r.s.free /\ c.s.pend = r.s.pend /\ c.s.defrag = r.s.defrag
      <3>1. PICK u, x : u = r.s /\ x = u.at[r.f]
        OBVIOUS
      <3>2. PICK told : /\ told = u \/ told = rtw_handle_tkip_mic_err(u, luck.soon)
                        /\ c.s = u \/ c.s = [told EXCEPT !.at[r.f] = PullTail(x, MicLen)]
        BY <1>1, <3>1 DEF recvframe_chkmic
      <3>3. RqType(told) /\ told.free = u.free /\ told.pend = u.pend /\ told.defrag = u.defrag
        BY <2>0, <3>1, <3>2 DEF rtw_handle_tkip_mic_err, RqType
      <3> QED
        BY <2>0, <3>1, <3>2, <3>3 DEF RqType
    <2>2. RqOK(c.s) /\ \A g : Away(r.s, g) <=> Away(c.s, g)
      BY <2>0, <2>1, SameLists
    <2>3. CASE d = [s |-> c.s, f |-> r.f]
      BY <2>0, <2>2, <2>3 DEF Going
    <2>4. CASE d = [s |-> rtw_free_recvframe(c.s, r.f), f |-> NoRframe]
      <3>1. PICK t : t = rtw_free_recvframe(c.s, r.f)
        OBVIOUS
      <3>2. RqOK(t) /\ \A g : g # r.f /\ Away(c.s, g) => Away(t, g)
        BY <2>0, <2>2, <3>1, FreeOK
      <3> QED
        BY <2>2, <2>4, <3>1, <3>2, RpAssumption DEF Going
    <2> QED
      BY <1>2, <1>3, <2>3, <2>4
  <1> QED
    BY <1>2, <1>3, <1>4

\* The frame goes up, or is freed; only other frames stay in hand.
LEMMA PosthandledOK ==
  ASSUME NEW s, RqOK(s), NEW f \in RpFrames, Away(s, f), rpSta \subseteq Entries,
         NEW luck, NEW r, r = recv_func_posthandle(s, f, luck)
  PROVE  RqOK(r.s) /\ \A g \in RpFrames \ {f} : Away(s, g) => Away(r.s, g)
  <1>1. PICK d : d = recvframe_chk_defrag(s, f, luck)
    OBVIOUS
  <1>2. Going(s, f, d)
    <2>1. PICK e : e = Reassembled(s, f)
      OBVIOUS
    <2>2. Going(s, f, e)
      BY <2>1, ReassembledOK
    <2> QED
      BY <1>1, <2>1, <2>2, MicOK DEF recvframe_chk_defrag
  <1>3. PICK t : /\ \/ t = rtw_free_recvframe(s, f) \/ t = d.s
                    \/ t = rtw_free_recvframe(d.s, f)
                    \/ d.f # NoRframe /\ t = rtw_free_recvframe(d.s, d.f)
                 /\ r.s = t \/ r.s = [t EXCEPT !.drop = 1]
    BY <1>1 DEF recv_func_posthandle, Posthandled
  <1>4. RqOK(t) /\ \A g \in RpFrames \ {f} : Away(s, g) => Away(t, g)
    <2>1. CASE t = rtw_free_recvframe(s, f)
      BY <2>1, FreeOK
    <2>2. CASE t = d.s
      BY <1>2, <2>2 DEF Going
    <2>3. CASE t = rtw_free_recvframe(d.s, f)
      <3>1. RqOK(d.s) /\ \A g \in RpFrames \ {f} : Away(s, g) => Away(d.s, g)
        BY <1>2 DEF Going
      <3>2. RqOK(t) /\ \A g : g # f /\ Away(d.s, g) => Away(t, g)
        BY <2>3, <3>1, FreeOK
      <3> QED
        BY <3>1, <3>2
    <2>4. CASE d.f # NoRframe /\ t = rtw_free_recvframe(d.s, d.f)
      <3>1. /\ RqOK(d.s) /\ d.f \in RpFrames
            /\ \A g \in RpFrames \ {f} : Away(s, g) => Away(d.s, g) /\ g # d.f
        BY <1>2, <2>4 DEF Going
      <3>2. RqOK(t) /\ \A g : g # d.f /\ Away(d.s, g) => Away(t, g)
        BY <2>4, <3>1, FreeOK
      <3> QED
        BY <3>1, <3>2
    <2> QED
      BY <1>3, <2>1, <2>2, <2>3, <2>4
  <1>5. CASE r.s = [t EXCEPT !.drop = 1]
    <2>1. PICK u : u = [t EXCEPT !.drop = 1]
      OBVIOUS
    <2>2. RqType(u) /\ u.free = t.free /\ u.pend = t.pend /\ u.defrag = t.defrag
      BY <1>4, <2>1 DEF RqOK, RqType
    <2>3. RqOK(u) /\ \A g : Away(t, g) <=> Away(u, g)
      BY <1>4, <2>2, SameLists
    <2> QED
      BY <1>4, <1>5, <2>1, <2>3
  <1> QED
    BY <1>3, <1>4, <1>5

\* The inductive invariant of the receive path.
RpInv ==
    /\ RqOK(rq) /\ rpSta \subseteq Entries /\ rpCur \in RpFrames \cup {NoRframe}
    /\ rpCur # NoRframe => Away(rq, rpCur)

\* At first every frame is in the pool.
LEMMA RpInitOK == ASSUME RpInit PROVE RpInv
  <1>1. rq = _rtw_init_recv_priv /\ rpSta = Senders /\ rpCur = NoRframe
    BY DEF RpInit
  <1>2. << >> \in Seq(RpFrames) /\ Range(<< >>) = {} /\ IsInjective(<< >>)
    BY DEF Range, IsInjective
  <1>3. PICK s : s = rq
    OBVIOUS
  <1>7. Enumerated(RpFrames) \in Seq(RpFrames) /\ IsInjective(Enumerated(RpFrames))
    <2>1. Cardinality(RpFrames) \in Nat /\ \E q : q \in Bijection(1 .. Cardinality(RpFrames), RpFrames)
      BY RpAssumption, FS_CardinalityType DEF ExistsBijection
    <2>2. \E q \in [1 .. Cardinality(RpFrames) -> RpFrames] : IsInjective(q)
      BY <2>1 DEF Bijection, Injection
    <2>3. Enumerated(RpFrames) \in [1 .. Cardinality(RpFrames) -> RpFrames] /\ IsInjective(Enumerated(RpFrames))
      BY <2>2 DEF Enumerated
    <2> QED
      BY <2>1, <2>3
  <1>4. RqType(s) /\ s.free = Enumerated(RpFrames) /\ s.pend = << >> /\ s.defrag = [a \in Entries |-> << >>]
    BY <1>1, <1>2, <1>3, <1>7 DEF RqType, _rtw_init_recv_priv
  <1>5. RqOnce(s)
    BY <1>2, <1>4, <1>7 DEF RqOnce
  <1>6. rpSta \subseteq Entries
    BY <1>1 DEF Senders, Entries
  <1> QED
    BY <1>1, <1>3, <1>4, <1>5, <1>6 DEF RpInv, RqOK

\* A frame taken from the pool is in no list.
LEMMA AllocOK ==
  ASSUME NEW s, RqOK(s), s.free # << >>, NEW u, u = rtw_alloc_recvframe(s)
  PROVE  RqOK(u) /\ Head(s.free) \in RpFrames /\ Away(u, Head(s.free))
  <1>1. RqType(s) /\ RqOnce(s)
    BY DEF RqOK
  <1>2. PICK y, z : y = Tail(s.free) /\ z = s.cnt - 1
    OBVIOUS
  <1>3. s.free \in Seq(RpFrames) /\ IsInjective(s.free)
    BY <1>1 DEF RqType, RqOnce
  <1>4. /\ y \in Seq(RpFrames) /\ IsInjective(y) /\ Head(s.free) \in RpFrames /\ Head(s.free) \notin Range(y)
        /\ Range(y) \subseteq Range(s.free) /\ Head(s.free) \in Range(s.free)
    BY <1>2, <1>3, TailDistinct
  <1>5. u = [s EXCEPT !.free = y, !.cnt = z]
    BY <1>1, <1>2 DEF rtw_alloc_recvframe, RqType
  <1>6. RqType(u) /\ u.free = y /\ u.pend = s.pend /\ u.defrag = s.defrag
    BY <1>1, <1>4, <1>5 DEF RqType
  <1>7. RqOnce(u)
    BY <1>1, <1>4, <1>6 DEF RqOnce
  <1>8. Away(u, Head(s.free))
    BY <1>1, <1>4, <1>6 DEF RqOnce, Away
  <1> QED
    BY <1>4, <1>6, <1>7, <1>8 DEF RqOK

\* The frame in hand is in no list, and the rest of the record is of no matter.
LEMMA ReceiveOK == ASSUME RpInv, NEW a, Receive(a) PROVE RpInv'
  <1>1. PICK f : f = Head(rq.free)
    OBVIOUS
  <1>2. rq.free # << >> /\ rpCur' = f /\ UNCHANGED rpSta /\ RqOK(rq) /\ rpSta \subseteq Entries
    BY <1>1 DEF Receive, rpEnv, RpInv
  <1>3. PICK x : rq' = [rtw_alloc_recvframe(rq) EXCEPT !.at[f] = x]
    BY <1>2 DEF Receive
  <1>4. PICK u, t : u = rtw_alloc_recvframe(rq) /\ t = [u EXCEPT !.at[f] = x]
    OBVIOUS
  <1>5. RqOK(u) /\ f \in RpFrames /\ Away(u, f)
    BY <1>1, <1>2, <1>4, AllocOK
  <1>6. RqType(t) /\ t.free = u.free /\ t.pend = u.pend /\ t.defrag = u.defrag
    BY <1>4, <1>5 DEF RqOK, RqType
  <1>7. RqOK(t) /\ Away(t, f)
    BY <1>5, <1>6, SameLists
  <1> QED
    BY <1>2, <1>3, <1>4, <1>5, <1>7 DEF RpInv

\* A frame that waited for the key leaves its list and goes on; the one in hand
\* is another.
LEMMA DrainOK == ASSUME RpInv, DrainPending PROVE RpInv'
  <1>1. PICK f : f = Head(rq.pend)
    OBVIOUS
  <1>2. rpCur # NoRframe /\ rq.pend # << >> /\ UNCHANGED <<rpCur, rpSta>>
    BY DEF DrainPending, rpEnv
  <1>3. RqOK(rq) /\ rq.pend \in Seq(RpFrames) /\ rpSta \subseteq Entries /\ rpCur \in RpFrames /\ Away(rq, rpCur)
    BY <1>2 DEF RpInv, RqOK, RqType
  <1>4. f \in RpFrames /\ f # rpCur
    BY <1>1, <1>2, <1>3, TailDistinct DEF Away
  <1>5. PICK luck, r : r = recv_func_posthandle(ListDel(rq, f), f, luck) /\ rq' = r.s
    BY <1>1 DEF DrainPending
  <1>6. PICK u : u = ListDel(rq, f)
    OBVIOUS
  <1>7. RqOK(u) /\ Away(u, f) /\ Away(u, rpCur)
    BY <1>3, <1>4, <1>6, ListDelOK
  <1>8. RqOK(r.s) /\ Away(r.s, rpCur)
    BY <1>3, <1>4, <1>5, <1>6, <1>7, PosthandledOK
  <1> QED
    BY <1>2, <1>3, <1>5, <1>8 DEF RpInv

\* The frame in hand is freed, waits for the key, or goes on.
LEMMA RecvFuncOK == ASSUME RpInv, recv_func PROVE RpInv'
  <1>1. PICK f, x : f = rpCur /\ x = rq.at[f]
    OBVIOUS
  <1>2. PICK s : s = [rq EXCEPT !.cache[x.m.from] = <<x.m.seq, x.m.frag>>]
    OBVIOUS
  <1>3. f # NoRframe /\ rpCur' = NoRframe /\ UNCHANGED rpSta
    BY <1>1 DEF recv_func, rpEnv
  <1>11. \/ rq' = [rtw_free_recvframe(rq, f) EXCEPT !.drop = 1]
         \/ rq' = [ListDel(s, f) EXCEPT !.pend = Append(@, f)]
         \/ \E luck : \E r : r = recv_func_posthandle(s, f, luck) /\ rq' = r.s
    <2> DEFINE refused == rq' = [rtw_free_recvframe(rq, f) EXCEPT !.drop = 1]
               waits == rq' = [ListDel(s, f) EXCEPT !.pend = Append(@, f)]
               goes == \E luck \in Luck(x) : \E r \in {recv_func_posthandle(s, f, luck)} : rq' = r.s
    <2>1. refused \/ waits \/ goes
      BY <1>1, <1>2 DEF recv_func
    <2>2. goes => \E luck : \E r : r = recv_func_posthandle(s, f, luck) /\ rq' = r.s
      OBVIOUS
    <2> QED
      BY <2>1, <2>2
  <1>4. RqOK(rq) /\ RqType(rq) /\ rpSta \subseteq Entries /\ f \in RpFrames /\ Away(rq, f)
    BY <1>1, <1>3 DEF RpInv, RqOK
  <1>5. RqType(s) /\ s.free = rq.free /\ s.pend = rq.pend /\ s.defrag = rq.defrag
    BY <1>2, <1>4 DEF RqType
  <1>6. RqOK(s) /\ Away(s, f)
    BY <1>4, <1>5, SameLists
  <1>7. ASSUME NEW t, RqOK(t), rq' = t PROVE RpInv'
    BY <1>3, <1>4, <1>7 DEF RpInv
  <1>8. CASE rq' = [rtw_free_recvframe(rq, f) EXCEPT !.drop = 1]
    <2>1. PICK u, t : u = rtw_free_recvframe(rq, f) /\ t = [u EXCEPT !.drop = 1]
      OBVIOUS
    <2>2. RqOK(u) /\ RqType(u)
      BY <1>4, <2>1, FreeOK DEF RqOK
    <2>3. RqType(t) /\ t.free = u.free /\ t.pend = u.pend /\ t.defrag = u.defrag
      BY <2>1, <2>2 DEF RqType
    <2> QED
      BY <1>7, <1>8, <2>1, <2>2, <2>3, SameLists
  <1>9. CASE rq' = [ListDel(s, f) EXCEPT !.pend = Append(@, f)]
    <2>1. PICK u, q, t : u = ListDel(s, f) /\ q = Append(u.pend, f) /\ t = [u EXCEPT !.pend = q]
      OBVIOUS
    <2>7. RqOK(u) /\ Away(u, f)
      BY <1>4, <1>6, <2>1, ListDelOK
    <2>8. RqType(u) /\ RqOnce(u)
      BY <2>7 DEF RqOK
    <2>9. u.pend \in Seq(RpFrames)
      BY <2>8 DEF RqType
    <2>2. RqOK(u) /\ RqType(u) /\ RqOnce(u) /\ Away(u, f) /\ u.pend \in Seq(RpFrames)
      BY <2>7, <2>8, <2>9
    <2>3. q \in Seq(RpFrames) /\ Range(q) = Range(u.pend) \cup {f} /\ IsInjective(q)
      BY <1>4, <2>1, <2>2, AppendDistinct DEF RqOnce, Away
    <2>4. RqType(t) /\ t.free = u.free /\ t.pend = q /\ t.defrag = u.defrag
      BY <2>1, <2>2, <2>3 DEF RqType
    <2>5. RqOnce(t)
      BY <2>2, <2>3, <2>4 DEF RqOnce, Away
    <2>6. t = [u EXCEPT !.pend = Append(@, f)]
      BY <2>1, <2>2 DEF RqType
    <2> QED
      BY <1>7, <1>9, <2>1, <2>4, <2>5, <2>6 DEF RqOK
  <1>10. ASSUME NEW luck, NEW r, r = recv_func_posthandle(s, f, luck), rq' = r.s PROVE RpInv'
    <2>1. RqOK(r.s)
      BY <1>4, <1>6, <1>10, PosthandledOK
    <2> QED
      BY <1>7, <1>10, <2>1
  <1> QED
    BY <1>11, <1>8, <1>9, <1>10

\* A foreign frame is taken and freed.
LEMMA ForeignOK == ASSUME RpInv, ReceiveForeign PROVE RpInv'
  <1>1. rpCur = NoRframe /\ UNCHANGED <<rpCur, rpSta>> /\ rq.free # << >> /\ RqOK(rq) /\ rpSta \subseteq Entries
    BY DEF ReceiveForeign, rpEnv, RpInv
  <1>2. PICK f, u : f = Head(rq.free) /\ u = rtw_alloc_recvframe(rq)
    OBVIOUS
  <1>3. PICK v : rq' = [rtw_free_recvframe(u, f) EXCEPT !.drop = v]
    BY <1>2 DEF ReceiveForeign
  <1>4. RqOK(u) /\ f \in RpFrames
    BY <1>1, <1>2, AllocOK
  <1>5. PICK w, t : w = rtw_free_recvframe(u, f) /\ t = [w EXCEPT !.drop = v]
    OBVIOUS
  <1>6. RqOK(w)
    BY <1>4, <1>5, FreeOK
  <1>7. RqType(t) /\ t.free = w.free /\ t.pend = w.pend /\ t.defrag = w.defrag
    BY <1>5, <1>6 DEF RqOK, RqType
  <1>8. RqOK(t)
    BY <1>6, <1>7, SameLists
  <1> QED
    BY <1>1, <1>3, <1>5, <1>8 DEF RpInv

\* A freed station leaves an empty list behind.
LEMMA FreeStationOK == ASSUME RpInv, NEW a, FreeStation(a) PROVE RpInv'
  <1>1. rpCur = NoRframe /\ UNCHANGED rpCur /\ a \in rpSta /\ rpSta' = rpSta \ {a} /\ rpSta \subseteq Entries
    BY DEF FreeStation, RpInv
  <1>2. RqType(rq) /\ RqOnce(rq) /\ rq.defrag \in [Entries -> Seq(RpFrames)]
    BY DEF RpInv, RqOK, RqType
  <1> DEFINE e == << >>
  <1>3. e \in Seq(RpFrames) /\ Range(e) = {} /\ IsInjective(e)
    BY DEF Range, IsInjective
  <1>4. rq' = [rq EXCEPT !.defrag[a] = e]
    BY DEF FreeStation
  <1> HIDE DEF e
  <1>5. PICK d, t : d = [rq.defrag EXCEPT ![a] = e] /\ t = [rq EXCEPT !.defrag = d]
    OBVIOUS
  <1>6. d \in [Entries -> Seq(RpFrames)] /\ \A b \in Entries : d[b] = e \/ d[b] = rq.defrag[b]
    BY <1>2, <1>3, <1>5
  <1>7. RqType(t) /\ t.free = rq.free /\ t.pend = rq.pend /\ t.defrag = d
    BY <1>2, <1>5, <1>6 DEF RqType
  <1>8. \A b \in Entries : IsInjective(d[b]) /\ Range(d[b]) \subseteq Range(rq.defrag[b])
    BY <1>2, <1>3, <1>6 DEF RqOnce
  <1>9. RqOnce(t)
    BY <1>2, <1>7, <1>8 DEF RqOnce
  <1>10. rq' = t
    BY <1>2, <1>4, <1>5 DEF RqType
  <1> QED
    BY <1>1, <1>7, <1>9, <1>10 DEF RpInv, RqOK

\* Every step keeps the invariant.
LEMMA RpStep == ASSUME RpInv, [RpNext]_rpVars PROVE RpInv'
  <1>1. ASSUME NEW a, Receive(a) \/ FreeStation(a) PROVE RpInv'
    BY <1>1, ReceiveOK, FreeStationOK
  <1>2. CASE DrainPending \/ recv_func \/ ReceiveForeign
    BY <1>2, DrainOK, RecvFuncOK, ForeignOK
  <1>3. CASE rtw_free_uc_swdec_pending_queue
    <2>1. PICK t : t = [AllFreed(rq, rq.pend) EXCEPT !.pend = << >>]
      OBVIOUS
    <2>2. RqOK(t)
      BY <2>1, FreePendOK DEF RpInv
    <2>3. rq' = t /\ UNCHANGED <<rpCur, rpSta>> /\ rpCur = NoRframe
      BY <1>3, <2>1 DEF rtw_free_uc_swdec_pending_queue, rpEnv
    <2> QED
      BY <2>2, <2>3 DEF RpInv
  <1>4. CASE InstallKey \/ StopDriver \/ UNCHANGED rpVars \/ \E a : OpenPort(a)
    <2>1. UNCHANGED <<rq, rpSta, rpCur>>
      BY <1>4 DEF InstallKey, StopDriver, rpVars, OpenPort
    <2> QED
      BY <2>1 DEF RpInv
  <1> QED
    BY <1>1, <1>2, <1>3, <1>4 DEF RpNext

\* A receive frame is in the pool, in the hands of recv_func, waiting for the
\* key, or among the fragments of one station: in one list, once (the
\* list_del_init of rtw_free_recvframe and of recvframe_defrag), for every
\* number of frames, mix of senders and sequence of calls.
THEOREM FramesInOneList == RpSpec => []FrameOnce
  <1>1. RpInv => FrameOnce
    <2> SUFFICES ASSUME RpInv PROVE FrameOnce
      OBVIOUS
    <2> DEFINE list == [n \in {"free", "pend"} \cup Entries |->
                          IF n = "free" THEN rq.free ELSE IF n = "pend" THEN rq.pend ELSE rq.defrag[n]]
    <2>1. RqOnce(rq) /\ RqType(rq) /\ \A f : f \in {rpCur} /\ f # NoRframe => Away(rq, f)
      BY DEF RpInv, RqOK
    <2>2. "pend" \notin Entries /\ "free" \notin Entries
      BY DEF Entries, Ap, Bc
    <2>3. /\ DOMAIN list = {"free", "pend"} \cup Entries /\ list["free"] = rq.free /\ list["pend"] = rq.pend
          /\ \A a \in Entries : list[a] = rq.defrag[a]
      BY <2>2
    <2>4. NoRframe \notin RpFrames
      BY RpAssumption
    <2>5. rpCur \notin Range(rq.free) /\ rpCur \notin Range(rq.pend) /\ \A a \in Entries : rpCur \notin Range(rq.defrag[a])
      <3>1. CASE rpCur = NoRframe
        <4>1. /\ rq.free \in Seq(RpFrames) /\ rq.pend \in Seq(RpFrames)
              /\ \A a \in Entries : rq.defrag[a] \in Seq(RpFrames)
          BY <2>1 DEF RqType
        <4>2. ASSUME NEW q \in Seq(RpFrames) PROVE NoRframe \notin Range(q)
          BY <2>4 DEF Range
        <4> QED
          BY <2>4, <3>1, <4>1, <4>2
      <3>2. CASE rpCur # NoRframe
        BY <2>1, <3>2 DEF Away
      <3> QED
        BY <3>1, <3>2
    <2> HIDE DEF list
    <2>6. ASSUME NEW n \in DOMAIN list
          PROVE  /\ IsInjective(list[n]) /\ rpCur \notin Range(list[n])
                 /\ \A m \in DOMAIN list \ {n} : Range(list[m]) \cap Range(list[n]) = {}
      BY <2>1, <2>2, <2>3, <2>5, <2>6 DEF RqOnce
    <2> QED
      BY <2>6 DEF FrameOnce, list
  <1> QED
    BY <1>1, RpInitOK, RpStep, PTL DEF RpSpec
=============================================================================
