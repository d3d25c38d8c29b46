---------------------------- MODULE MgmtProofs ----------------------------
(***************************************************************************)
(* Proofs about MgntTx, for any number of extension buffers and any        *)
(* callers: where the buffers are, and what the submit context on the      *)
(* stack of dump_mgntframe_and_wait may be told.                           *)
(*                                                                         *)
(* BufsAccounted says that a buffer never has two holders; the context     *)
(* pointer of a buffer is sound only because of that, and the buffer goes  *)
(* back to the pool unbound only because the pointer is. MgInv states both *)
(* at once, with the ghost variables owner and real that remember whose    *)
(* URB a buffer carries and how it ended.                                  *)
(***************************************************************************)
EXTENDS MgntTx, FiniteSetTheorems, SequenceTheorems, TLAPS

\* A caller between two frames, or that has not begun.
Quiet == {"idle", "begin", "after"}

\* The state of a caller.
MgCall ==
    [pc : {"idle", "begin", "after", "dump", "transmit", "wait", "clear"},
     op : Ops \cup {"none"}, buf : Bufs \cup {NoBuf}, i : Nat, ret : BOOLEAN,
     status : {"none", "submitted", "success", "error", "deny", "buf_alloc", "buf_free"}]

\* Where a buffer may be lost.
Wheres == {"beacon", "probersp", "stopped"}

\* The types of the variables.
MgTypeOK ==
    /\ gone \in BOOLEAN
    /\ freeBufs \in Seq(Bufs) /\ freeFrames \in Int
    /\ flight \in SUBSET Bufs /\ ending \in SUBSET Bufs
    /\ lost \in SUBSET (Bufs \X Wheres) /\ IsFiniteSet(lost)
    /\ sctx \in [Bufs -> MgCallers \cup {Nobody}] /\ owner \in [Bufs -> MgCallers \cup {Nobody}]
    /\ call \in [MgCallers -> MgCall]
    /\ real \in [MgCallers -> {"none", "success", "error"}]

\* What a caller knows: it has a buffer from the allocation on; only a beacon is
\* waited for; its context says "success" only once the URB it waits for has ended so.
CallSound ==
    \A p \in MgCallers :
      /\ call[p].pc \notin Quiet => call[p].buf \in Bufs
      /\ call[p].pc \in {"wait", "clear"} => call[p].op = "beacon"
      /\ At(p, "transmit") /\ call[p].op = "beacon" => call[p].status = "submitted"
      /\ At(p, "wait") /\ call[p].status = "success" => real[p] = "success" /\ \A b \in Bufs : owner[b] # p
      /\ At(p, "clear") /\ call[p].ret => real[p] = "success" /\ \A b \in Bufs : owner[b] # p

\* Buffer b points to the context of caller p, who is still inside
\* dump_mgntframe_and_wait and, once the URB is submitted, waits for that URB.
BoundTo(b, p) ==
    /\ call[p].buf = b /\ call[p].op = "beacon"
    /\ \/ At(p, "transmit")
       \/ call[p].pc \in {"wait", "clear"} /\ b \in flight /\ owner[b] = p

\* Every context pointer is bound so, and every URB waited for is in flight.
CtxBound ==
    \A b \in Bufs :
      /\ sctx[b] # Nobody => BoundTo(b, sctx[b])
      /\ owner[b] # Nobody => /\ b \in flight /\ call[owner[b]].pc \in {"wait", "clear"}
                              /\ call[owner[b]].buf = b

\* A lost buffer is not in use.
LostApart == LostBufs \cap (flight \cup ending \cup Held) = {}

\* The inductive invariant.
MgInv == MgTypeOK /\ CallSound /\ CtxBound /\ LostApart /\ BufsAccounted
-----------------------------------------------------------------------------
\* The null pointer is no caller, and no buffer.
LEMMA NobodyElse == Nobody \notin MgCallers /\ NoBuf \notin Bufs
  BY MgntAssumption DEF Nobody, NoBuf

\* How the set of held buffers changes when only caller p moves.
LEMMA HeldMoves ==
  ASSUME NEW p \in MgCallers,
         \A q \in MgCallers \ {p} : call'[q].pc = call[q].pc /\ call'[q].buf = call[q].buf,
         \A q \in MgCallers \ {p} : Holds(p) /\ Holds(q) => call[p].buf # call[q].buf
  PROVE  /\ Holds(p) /\ ~ Holds(p)' => Held' = Held \ {call[p].buf}
         /\ ~ Holds(p) /\ Holds(p)' => Held' = Held \cup {call'[p].buf}
         /\ Holds(p) /\ Holds(p)' /\ call'[p].buf = call[p].buf => Held' = Held
         /\ ~ Holds(p) /\ ~ Holds(p)' => Held' = Held
         /\ Holds(p) => call[p].buf \in Held
  <1>1. \A q \in MgCallers \ {p} : Holds(q)' <=> Holds(q)
    BY DEF Holds
  <1>2. ASSUME Holds(p), ~ Holds(p)' PROVE Held' = Held \ {call[p].buf}
    BY <1>1, <1>2 DEF Held
  <1>3. ASSUME ~ Holds(p), Holds(p)' PROVE Held' = Held \cup {call'[p].buf}
    BY <1>1, <1>3 DEF Held
  <1>4. ASSUME Holds(p), Holds(p)', call'[p].buf = call[p].buf PROVE Held' = Held
    BY <1>1, <1>4 DEF Held
  <1>5. ASSUME ~ Holds(p), ~ Holds(p)' PROVE Held' = Held
    BY <1>1, <1>5 DEF Held
  <1>6. Holds(p) => call[p].buf \in Held
    BY DEF Held
  <1> QED
    BY <1>2, <1>3, <1>4, <1>5, <1>6

\* The held buffers are finitely many buffers of the pool.
LEMMA HeldBufs ==
  ASSUME MgTypeOK, CallSound
  PROVE  Held \in SUBSET Bufs /\ IsFiniteSet(Held) /\ Cardinality(Held) \in Nat
         /\ Cardinality(lost) \in Nat /\ Cardinality(Bufs) \in Nat
  <1>1. \A p \in MgCallers : Holds(p) => call[p].buf \in Bufs
    BY DEF CallSound, Holds, Quiet
  <1>2. Held \in SUBSET Bufs
    BY <1>1 DEF Held
  <1>3. IsFiniteSet(Bufs) /\ IsFiniteSet(lost)
    BY MgntAssumption DEF MgTypeOK
  <1>4. IsFiniteSet(Held)
    BY <1>2, <1>3, FS_Subset
  <1> QED
    BY <1>2, <1>3, <1>4, FS_CardinalityType

\* rtw_alloc_xmitbuf_ext: what is left in a queue without repetitions once its
\* head is taken.
LEMMA PoolTakes ==
  ASSUME NEW s \in Seq(Bufs), \A i, j \in DOMAIN s : s[i] = s[j] => i = j, s # << >>
  PROVE  /\ Tail(s) \in Seq(Bufs) /\ Head(s) \in Bufs /\ Head(s) = s[1] /\ 1 \in DOMAIN s
         /\ \A i, j \in DOMAIN Tail(s) : Tail(s)[i] = Tail(s)[j] => i = j
         /\ {Tail(s)[i] : i \in DOMAIN Tail(s)} = {s[i] : i \in DOMAIN s} \ {Head(s)}
  <1> DEFINE t == Tail(s)
  <1>1. /\ t \in Seq(Bufs) /\ Len(t) = Len(s) - 1 /\ Len(s) \in Nat /\ Len(s) >= 1
        /\ DOMAIN s = 1 .. Len(s) /\ DOMAIN t = 1 .. Len(s) - 1
        /\ \A i \in 1 .. Len(s) - 1 : t[i] = s[i + 1]
        /\ Head(s) = s[1] /\ 1 \in DOMAIN s /\ Head(s) \in Bufs
    OBVIOUS
  <1> HIDE DEF t
  <1>2. ASSUME NEW i \in DOMAIN t PROVE i + 1 \in DOMAIN s /\ t[i] = s[i + 1] /\ i + 1 # 1 /\ i \in Nat
    BY <1>1
  <1>3. ASSUME NEW i \in DOMAIN t, NEW j \in DOMAIN t, t[i] = t[j] PROVE i = j
    <2>1. i + 1 = j + 1
      BY <1>2, <1>3
    <2> QED
      BY <1>2, <2>1
  <1>4. {t[i] : i \in DOMAIN t} \subseteq {s[i] : i \in DOMAIN s} \ {Head(s)}
    BY <1>1, <1>2
  <1>5. ASSUME NEW i \in DOMAIN s, i # 1 PROVE s[i] \in {t[k] : k \in DOMAIN t}
    <2>1. i - 1 \in DOMAIN t /\ (i - 1) + 1 = i
      BY <1>1, <1>5
    <2>2. t[i - 1] = s[i]
      BY <1>2, <2>1
    <2> QED
      BY <2>1, <2>2
  <1>6. {s[i] : i \in DOMAIN s} \ {Head(s)} \subseteq {t[i] : i \in DOMAIN t}
    BY <1>1, <1>5
  <1> QED
    BY <1>1, <1>3, <1>4, <1>6 DEF t

\* rtw_free_xmitbuf_ext: a queue without repetitions after a buffer that is not
\* in it was appended.
LEMMA PoolGives ==
  ASSUME NEW s \in Seq(Bufs), \A i, j \in DOMAIN s : s[i] = s[j] => i = j, NEW b \in Bufs,
         b \notin {s[i] : i \in DOMAIN s}
  PROVE  /\ Append(s, b) \in Seq(Bufs)
         /\ \A i, j \in DOMAIN Append(s, b) : Append(s, b)[i] = Append(s, b)[j] => i = j
         /\ {Append(s, b)[i] : i \in DOMAIN Append(s, b)} = {s[i] : i \in DOMAIN s} \cup {b}
  <1> DEFINE t == Append(s, b)
  <1>1. /\ t \in Seq(Bufs) /\ Len(t) = Len(s) + 1 /\ Len(s) \in Nat
        /\ DOMAIN s = 1 .. Len(s) /\ DOMAIN t = 1 .. Len(s) + 1
        /\ \A i \in 1 .. Len(s) : t[i] = s[i]
        /\ t[Len(s) + 1] = b
    OBVIOUS
  <1> HIDE DEF t
  <1>2. \A i \in DOMAIN t : (i \in DOMAIN s /\ t[i] = s[i]) \/ (i = Len(s) + 1 /\ t[i] = b)
    BY <1>1
  <1>3. \A i, j \in DOMAIN t : t[i] = t[j] => i = j
    BY <1>2
  <1>4. {t[i] : i \in DOMAIN t} \subseteq {s[i] : i \in DOMAIN s} \cup {b}
    BY <1>2
  <1>5. (\A i \in DOMAIN s : i \in DOMAIN t /\ t[i] = s[i]) /\ Len(s) + 1 \in DOMAIN t
    BY <1>1
  <1>6. {s[i] : i \in DOMAIN s} \cup {b} \subseteq {t[i] : i \in DOMAIN t}
    BY <1>1, <1>5
  <1> QED
    BY <1>1, <1>3, <1>4, <1>6 DEF t

\* A caller without a context.
Calm == Quiet \cup {"dump"}

\* A buffer that no caller holds and no URB carries points to no context:
\* rtw_alloc_xmitbuf_ext and rtw_free_xmitbuf_ext wake nobody.
LEMMA Unbound1 ==
  ASSUME MgInv
  PROVE  \A b \in Bufs : b \notin Held /\ b \notin flight => sctx[b] = Nobody
  <1> SUFFICES ASSUME NEW b \in Bufs, b \notin Held, b \notin flight, sctx[b] # Nobody PROVE FALSE
    OBVIOUS
  <1>1. PICK p : p = sctx[b] /\ p \in MgCallers
    BY DEF MgInv, MgTypeOK
  <1>2. BoundTo(b, p)
    BY <1>1 DEF MgInv, CtxBound
  <1>3. At(p, "transmit") /\ call[p].buf = b
    BY <1>2 DEF BoundTo
  <1> QED
    BY <1>1, <1>3 DEF Held, Holds, At

\* A caller that has no context on its stack keeps the contexts as they are.
LEMMA CalmMove ==
  ASSUME MgTypeOK, CallSound, CtxBound, NEW p \in MgCallers, NEW y \in MgCall,
         call[p].pc \in Calm, y.pc \in Calm, y.pc = "dump" => y.buf \in Bufs,
         call' = [call EXCEPT ![p] = y],
         \A b \in Bufs : sctx'[b] \in {sctx[b], Nobody},
         UNCHANGED <<flight, owner, real>>
  PROVE  /\ call' \in [MgCallers -> MgCall] /\ call'[p] = y
         /\ \A q \in MgCallers \ {p} : call'[q] = call[q]
         /\ CallSound' /\ CtxBound'
  <1>1. call \in [MgCallers -> MgCall] /\ Nobody \notin MgCallers
    BY NobodyElse DEF MgTypeOK
  <1>2. /\ call' \in [MgCallers -> MgCall] /\ call'[p] = y
        /\ \A q \in MgCallers \ {p} : call'[q] = call[q]
    BY <1>1
  <1>3. CallSound'
    <2> SUFFICES ASSUME NEW q \in MgCallers
                 PROVE  /\ call'[q].pc \notin Quiet => call'[q].buf \in Bufs
                        /\ call'[q].pc \in {"wait", "clear"} => call'[q].op = "beacon"
                        /\ call'[q].pc = "transmit" /\ call'[q].op = "beacon" => call'[q].status = "submitted"
                        /\ call'[q].pc = "wait" /\ call'[q].status = "success" => real'[q] = "success" /\ \A b \in Bufs : owner'[b] # q
                        /\ call'[q].pc = "clear" /\ call'[q].ret => real'[q] = "success" /\ \A b \in Bufs : owner'[b] # q
      BY DEF CallSound, At
    <2>1. CASE q = p
      BY <1>2, <2>1 DEF Calm, Quiet
    <2>2. CASE q # p
      BY <1>2, <2>2 DEF CallSound, At
    <2> QED
      BY <2>1, <2>2
  <1>4. CtxBound'
    <2> SUFFICES ASSUME NEW b \in Bufs
                 PROVE  /\ sctx'[b] # Nobody => BoundTo(b, sctx[b])'
                        /\ owner'[b] # Nobody => /\ b \in flight' /\ call'[owner'[b]].pc \in {"wait", "clear"}
                                                 /\ call'[owner'[b]].buf = b
      BY DEF CtxBound
    <2>1. sctx[b] \in MgCallers \cup {Nobody} /\ owner[b] \in MgCallers \cup {Nobody}
      BY DEF MgTypeOK
    <2>2. ASSUME sctx'[b] # Nobody PROVE BoundTo(b, sctx[b])'
      <3>1. sctx'[b] = sctx[b] /\ sctx[b] \in MgCallers /\ BoundTo(b, sctx[b])
        BY <2>1, <2>2 DEF CtxBound
      <3>2. sctx[b] # p
        BY <3>1 DEF BoundTo, At, Calm, Quiet
      <3>3. call'[sctx'[b]] = call[sctx[b]]
        BY <1>2, <3>1, <3>2
      <3> QED
        BY <3>1, <3>3 DEF BoundTo, At
    <2>3. ASSUME owner'[b] # Nobody
          PROVE  /\ b \in flight' /\ call'[owner'[b]].pc \in {"wait", "clear"}
                 /\ call'[owner'[b]].buf = b
      <3>1. /\ owner[b] \in MgCallers /\ b \in flight /\ call[owner[b]].pc \in {"wait", "clear"}
            /\ call[owner[b]].buf = b
        BY <2>1, <2>3 DEF CtxBound
      <3>2. owner[b] # p
        BY <3>1 DEF Calm, Quiet
      <3> QED
        BY <1>2, <3>1, <3>2
    <2> QED
      BY <2>2, <2>3
  <1> QED
    BY <1>2, <1>3, <1>4

\* Pool, USB core, completion handler, callers and losses share out the buffers.
Parts(P, F, E, H, L) ==
    /\ Bufs = P \cup F \cup E \cup H \cup L
    /\ P \cap (F \cup E \cup H \cup L) = {} /\ F \cap (E \cup H \cup L) = {}
    /\ E \cap (H \cup L) = {} /\ H \cap L = {}

\* The other parts of BufsAccounted.
Injects == \A i, j \in DOMAIN freeBufs : freeBufs[i] = freeBufs[j] => i = j
Apart == \A p, q \in MgCallers : p # q /\ Holds(p) /\ Holds(q) => call[p].buf # call[q].buf
FramesOK == freeFrames = Cardinality(Bufs) - Cardinality(Held) - Cardinality(lost)
Reasons == \A l \in lost : l[2] \in {"beacon", "probersp"} \/ (l[2] = "stopped" /\ gone)

\* BufsAccounted as a partition of the buffers.
LEMMA MgParts ==
  LostApart /\ BufsAccounted <=>
    /\ Parts(Pooled, flight, ending, Held, LostBufs)
    /\ Injects /\ Apart /\ FramesOK /\ Reasons
  BY DEF LostApart, BufsAccounted, BufOnce, Accounted, Parts, Injects, Apart, FramesOK, Reasons

\* The same in the next state.
LEMMA MgPartsNext ==
  ASSUME Parts(Pooled, flight, ending, Held, LostBufs)', Injects', Apart', FramesOK', Reasons'
  PROVE  LostApart' /\ BufsAccounted'
  BY DEF LostApart, BufsAccounted, BufOnce, Accounted, Parts, Injects, Apart, FramesOK, Reasons

\* A call that returns leaves its caller between two frames.
LEMMA ReturnedOK ==
  ASSUME MgTypeOK, NEW p \in MgCallers, NEW r \in BOOLEAN
  PROVE  Returned(p, r) \in MgCall /\ Returned(p, r).pc \in Quiet /\ MgIdle \in MgCall /\ MgIdle.pc \in Quiet
  <1>1. MgIdle \in MgCall /\ MgIdle.pc = "idle"
    BY DEF MgIdle, MgCall
  <1>2. call[p] \in MgCall
    BY DEF MgTypeOK
  <1>3. [call[p] EXCEPT !.pc = "after", !.ret = r, !.buf = NoBuf] \in MgCall
    BY <1>2 DEF MgCall
  <1>4. [call[p] EXCEPT !.pc = "after", !.ret = r, !.buf = NoBuf].pc = "after"
    BY <1>2 DEF MgCall
  <1> QED
    BY <1>1, <1>3, <1>4 DEF Returned, Quiet

\* A caller between frames.
LEMMA QuietStep ==
  ASSUME MgInv, NEW p \in MgCallers, NEW y \in MgCall, call[p].pc \in Quiet, y.pc \in Quiet,
         call' = [call EXCEPT ![p] = y], UNCHANGED <<gone, pools, usb, sctx>>
  PROVE  MgInv'
  <1>1. MgTypeOK /\ CallSound /\ CtxBound
    BY DEF MgInv
  <1>2. /\ call' \in [MgCallers -> MgCall] /\ call'[p] = y
        /\ \A q \in MgCallers \ {p} : call'[q] = call[q]
        /\ CallSound' /\ CtxBound'
    <2>1. y.pc # "dump" /\ call[p].pc \in Calm /\ y.pc \in Calm
      BY DEF Quiet, Calm
    <2> QED
      BY <1>1, <2>1, CalmMove DEF usb
  <1>3. MgTypeOK'
    BY <1>1, <1>2 DEF MgTypeOK, pools, usb
  <1>4. Held' = Held
    BY <1>2, HeldMoves DEF Holds, Quiet
  <1>5. Apart'
    BY <1>2, MgParts DEF MgInv, Apart, Holds, Quiet
  <1>6. Parts(Pooled, flight, ending, Held, LostBufs)' /\ Injects' /\ FramesOK' /\ Reasons'
    BY <1>4, MgParts DEF MgInv, Parts, Injects, FramesOK, Reasons, Pooled, LostBufs, pools, usb
  <1> QED
    BY <1>2, <1>3, <1>5, <1>6, MgPartsNext DEF MgInv

\* The head of the pool.
LEMMA HeadFacts ==
  ASSUME MgInv, CanAlloc
  PROVE  /\ Head(freeBufs) \in Bufs /\ Head(freeBufs) \in Pooled /\ Tail(freeBufs) \in Seq(Bufs)
         /\ {Tail(freeBufs)[i] : i \in DOMAIN Tail(freeBufs)} = Pooled \ {Head(freeBufs)}
         /\ \A i, j \in DOMAIN Tail(freeBufs) : Tail(freeBufs)[i] = Tail(freeBufs)[j] => i = j
         /\ Woken = call /\ Pooled \in SUBSET Bufs
         /\ Append(Tail(freeBufs), Head(freeBufs)) \in Seq(Bufs)
         /\ LET t == Append(Tail(freeBufs), Head(freeBufs))
            IN  {t[i] : i \in DOMAIN t} = Pooled /\ \A i, j \in DOMAIN t : t[i] = t[j] => i = j
  <1>1. /\ freeBufs \in Seq(Bufs) /\ Injects /\ freeBufs # << >>
        /\ Parts(Pooled, flight, ending, Held, LostBufs)
    BY MgParts DEF MgInv, MgTypeOK, CanAlloc
  <1>2. /\ Tail(freeBufs) \in Seq(Bufs) /\ Head(freeBufs) \in Bufs /\ Head(freeBufs) \in Pooled
        /\ \A i, j \in DOMAIN Tail(freeBufs) : Tail(freeBufs)[i] = Tail(freeBufs)[j] => i = j
        /\ {Tail(freeBufs)[i] : i \in DOMAIN Tail(freeBufs)} = Pooled \ {Head(freeBufs)}
    <2>1. \A i, j \in DOMAIN freeBufs : freeBufs[i] = freeBufs[j] => i = j
      BY <1>1 DEF Injects
    <2> QED
      BY <1>1, <2>1, PoolTakes DEF Pooled
  <1>3. Pooled \in SUBSET Bufs
    BY <1>1 DEF Parts
  <1>4. Head(freeBufs) \notin Held /\ Head(freeBufs) \notin flight
    BY <1>1, <1>2 DEF Parts
  <1>5. Woken = call
    BY <1>2, <1>4, Unbound1 DEF Woken, rtw_sctx_done_err
  <1>6. /\ Append(Tail(freeBufs), Head(freeBufs)) \in Seq(Bufs)
        /\ LET t == Append(Tail(freeBufs), Head(freeBufs))
           IN  {t[i] : i \in DOMAIN t} = Pooled /\ \A i, j \in DOMAIN t : t[i] = t[j] => i = j
    <2>1. PICK s \in Seq(Bufs) : s = Tail(freeBufs)
      BY <1>2
    <2>2. PICK h \in Bufs : h = Head(freeBufs)
      BY <1>2
    <2>3. h \notin {s[i] : i \in DOMAIN s} /\ \A i, j \in DOMAIN s : s[i] = s[j] => i = j
      BY <1>2, <2>1, <2>2
    <2>4. /\ Append(s, h) \in Seq(Bufs)
          /\ \A i, j \in DOMAIN Append(s, h) : Append(s, h)[i] = Append(s, h)[j] => i = j
          /\ {Append(s, h)[i] : i \in DOMAIN Append(s, h)} = {s[i] : i \in DOMAIN s} \cup {h}
      BY <2>3, PoolGives
    <2> QED
      BY <1>2, <2>1, <2>2, <2>4
  <1> QED
    BY <1>2, <1>3, <1>5, <1>6

\* The frame is built: a buffer leaves the pool and the caller holds it.
LEMMA BuiltStep ==
  ASSUME MgInv, NEW p \in MgCallers, call[p].pc \in Quiet, Built(p), UNCHANGED <<gone, usb>>
  PROVE  MgInv'
  <1>1. MgTypeOK /\ CallSound /\ CtxBound
    BY DEF MgInv
  <1>2. PICK h : h = Head(freeBufs)
    OBVIOUS
  <1>3. /\ CanAlloc /\ freeFrames' = freeFrames - 1 /\ freeBufs' = Tail(freeBufs)
        /\ sctx' = [sctx EXCEPT ![h] = Nobody] /\ lost' = lost
        /\ call' = [Woken EXCEPT ![p].pc = "dump", ![p].buf = h]
    BY <1>2 DEF Built, _alloc_mgtxmitframe, rtw_alloc_xmitframe_ext, rtw_alloc_xmitbuf_ext, Unbound
  <1>4. /\ h \in Bufs /\ h \in Pooled /\ freeBufs' \in Seq(Bufs) /\ Pooled' = Pooled \ {h}
        /\ Injects' /\ Woken = call
    BY <1>2, <1>3, HeadFacts DEF Pooled, Injects
  <1>5. PICK y : y = [call[p] EXCEPT !.pc = "dump", !.buf = h]
    OBVIOUS
  <1>6. y \in MgCall /\ y.pc = "dump" /\ y.buf = h
    BY <1>1, <1>4, <1>5 DEF MgTypeOK, MgCall
  <1>7. call' = [call EXCEPT ![p] = y]
    BY <1>1, <1>3, <1>4, <1>5 DEF MgTypeOK
  <1>8. /\ call' \in [MgCallers -> MgCall] /\ call'[p] = y
        /\ \A q \in MgCallers \ {p} : call'[q] = call[q]
        /\ CallSound' /\ CtxBound'
    <2>1. call[p].pc \in Calm /\ y.pc \in Calm
      BY <1>6 DEF Calm
    <2>2. \A b \in Bufs : sctx'[b] \in {sctx[b], Nobody}
      BY <1>1, <1>3 DEF MgTypeOK
    <2>3. y.buf \in Bufs
      BY <1>4, <1>6
    <2> QED
      BY <1>1, <1>6, <1>7, <2>1, <2>2, <2>3, CalmMove DEF usb
  <1>9. MgTypeOK'
    BY <1>1, <1>3, <1>4, <1>8 DEF MgTypeOK, usb
  <1>10. /\ Parts(Pooled, flight, ending, Held, LostBufs) /\ Apart /\ FramesOK /\ Reasons
    BY MgParts DEF MgInv
  <1>11. Held' = Held \cup {h}
    BY <1>6, <1>8, HeldMoves DEF Holds, Quiet
  <1>12. h \notin Held /\ LostBufs' = LostBufs
    BY <1>3, <1>4, <1>10 DEF Parts, LostBufs
  <1>13. Parts(Pooled, flight, ending, Held, LostBufs)'
    BY <1>4, <1>10, <1>11, <1>12 DEF Parts, usb
  <1>14. Apart'
    <2>1. \A q \in MgCallers \ {p} : Holds(q)' => call'[q].buf \in Held
      BY <1>8 DEF Holds, Held
    <2> QED
      BY <1>6, <1>8, <1>10, <1>12, <2>1 DEF Apart, Holds
  <1>15. FramesOK'
    <2>1. IsFiniteSet(Held) /\ Cardinality(Held) \in Nat /\ Cardinality(lost) \in Nat /\ Cardinality(Bufs) \in Nat
      BY <1>1, HeldBufs
    <2>2. Cardinality(Held') = Cardinality(Held) + 1
      BY <1>11, <1>12, <2>1, FS_AddElement
    <2> QED
      BY <1>3, <1>10, <2>1, <2>2 DEF FramesOK
  <1>16. Reasons'
    BY <1>3, <1>10 DEF Reasons
  <1> QED
    BY <1>4, <1>8, <1>9, <1>13, <1>14, <1>15, <1>16, MgPartsNext DEF MgInv

\* issue_beacon and issue_probersp leave an oversized frame and its buffer behind.
LEMMA LostInStep ==
  ASSUME MgInv, NEW p \in MgCallers, call[p].pc \in Quiet, NEW where \in {"beacon", "probersp"},
         LostIn(p, where), UNCHANGED <<gone, usb>>
  PROVE  MgInv'
  <1>1. MgTypeOK /\ CallSound /\ CtxBound
    BY DEF MgInv
  <1>2. PICK h : h = Head(freeBufs)
    OBVIOUS
  <1>3. /\ CanAlloc /\ freeFrames' = freeFrames - 1 /\ freeBufs' = Tail(freeBufs)
        /\ sctx' = [sctx EXCEPT ![h] = Nobody] /\ lost' = lost \cup {<<h, where>>}
        /\ call' = [Woken EXCEPT ![p] = Returned(p, FALSE)]
    BY <1>2 DEF LostIn, _alloc_mgtxmitframe, rtw_alloc_xmitframe_ext, rtw_alloc_xmitbuf_ext, Unbound
  <1>4. /\ h \in Bufs /\ h \in Pooled /\ freeBufs' \in Seq(Bufs) /\ Pooled' = Pooled \ {h}
        /\ Injects' /\ Woken = call
    BY <1>2, <1>3, HeadFacts DEF Pooled, Injects
  <1>5. PICK y \in MgCall : y = Returned(p, FALSE) /\ y.pc \in Quiet
    BY <1>1, ReturnedOK
  <1>6. call' = [call EXCEPT ![p] = y]
    BY <1>3, <1>4, <1>5
  <1>8. /\ call' \in [MgCallers -> MgCall] /\ call'[p] = y
        /\ \A q \in MgCallers \ {p} : call'[q] = call[q]
        /\ CallSound' /\ CtxBound'
    <2>1. call[p].pc \in Calm /\ y.pc \in Calm /\ y.pc # "dump"
      BY <1>5 DEF Calm, Quiet
    <2>2. \A b \in Bufs : sctx'[b] \in {sctx[b], Nobody}
      BY <1>1, <1>3 DEF MgTypeOK
    <2> QED
      BY <1>1, <1>6, <2>1, <2>2, CalmMove DEF usb
  <1>10. /\ Parts(Pooled, flight, ending, Held, LostBufs) /\ Apart /\ FramesOK /\ Reasons
    BY MgParts DEF MgInv
  <1>12. h \notin LostBufs /\ LostBufs' = LostBufs \cup {h} /\ <<h, where>> \notin lost
    BY <1>3, <1>4, <1>10 DEF Parts, LostBufs
  <1>c. IsFiniteSet(lost') /\ Cardinality(lost') = Cardinality(lost) + 1
    <2>1. IsFiniteSet(lost)
      BY <1>1 DEF MgTypeOK
    <2> QED
      BY <1>3, <1>12, <2>1, FS_AddElement
  <1>9. MgTypeOK'
    <2>1. lost' \in SUBSET (Bufs \X Wheres)
      BY <1>1, <1>3, <1>4 DEF MgTypeOK, Wheres
    <2>2. sctx \in [Bufs -> MgCallers \cup {Nobody}] /\ freeFrames \in Int
      BY <1>1 DEF MgTypeOK
    <2>3. sctx' \in [Bufs -> MgCallers \cup {Nobody}]
      BY <1>3, <2>2
    <2>4. freeFrames' \in Int
      BY <1>3, <2>2
    <2> QED
      BY <1>1, <1>4, <1>8, <1>c, <2>1, <2>3, <2>4 DEF MgTypeOK, usb
  <1>11. Held' = Held
    BY <1>5, <1>8, HeldMoves DEF Holds, Quiet
  <1>13. Parts(Pooled, flight, ending, Held, LostBufs)'
    BY <1>4, <1>10, <1>11, <1>12 DEF Parts, usb
  <1>14. Apart'
    BY <1>5, <1>8, <1>10 DEF Apart, Holds, Quiet
  <1>15. FramesOK'
    <2>1. Cardinality(Held) \in Nat /\ Cardinality(lost) \in Nat /\ Cardinality(Bufs) \in Nat
      BY <1>1, HeldBufs
    <2> QED
      BY <1>3, <1>10, <1>11, <1>c, <2>1 DEF FramesOK
  <1>16. Reasons'
    BY <1>3, <1>10 DEF Reasons
  <1> QED
    BY <1>4, <1>8, <1>9, <1>13, <1>14, <1>15, <1>16, MgPartsNext DEF MgInv

\* issue_assocreq gives the buffer back at the other end of the pool.
LEMMA NoCommonRateStep ==
  ASSUME MgInv, NEW p \in MgCallers, call[p].pc \in Quiet, NoCommonRate(p), UNCHANGED <<gone, usb>>
  PROVE  MgInv'
  <1>1. MgTypeOK /\ CallSound /\ CtxBound
    BY DEF MgInv
  <1>3. /\ CanAlloc /\ freeBufs' = Append(Tail(freeBufs), Head(freeBufs))
        /\ sctx' = [sctx EXCEPT ![Head(freeBufs)] = Nobody] /\ UNCHANGED <<freeFrames, lost>>
        /\ call' = [Woken EXCEPT ![p] = Returned(p, FALSE)]
    BY DEF NoCommonRate, Unbound
  <1>4. /\ freeBufs' \in Seq(Bufs) /\ Pooled' = Pooled /\ Injects' /\ Woken = call
    BY <1>3, HeadFacts DEF Pooled, Injects
  <1>5. PICK y \in MgCall : y = Returned(p, FALSE) /\ y.pc \in Quiet
    BY <1>1, ReturnedOK
  <1>6. call' = [call EXCEPT ![p] = y]
    BY <1>3, <1>4, <1>5
  <1>8. /\ call' \in [MgCallers -> MgCall] /\ call'[p] = y
        /\ \A q \in MgCallers \ {p} : call'[q] = call[q]
        /\ CallSound' /\ CtxBound'
    <2>1. call[p].pc \in Calm /\ y.pc \in Calm /\ y.pc # "dump"
      BY <1>5 DEF Calm, Quiet
    <2>2. \A b \in Bufs : sctx'[b] \in {sctx[b], Nobody}
      BY <1>1, <1>3 DEF MgTypeOK
    <2> QED
      BY <1>1, <1>6, <2>1, <2>2, CalmMove DEF usb
  <1>9. MgTypeOK'
    BY <1>1, <1>3, <1>4, <1>8 DEF MgTypeOK, usb
  <1>10. /\ Parts(Pooled, flight, ending, Held, LostBufs) /\ Apart /\ FramesOK /\ Reasons
    BY MgParts DEF MgInv
  <1>11. Held' = Held
    BY <1>5, <1>8, HeldMoves DEF Holds, Quiet
  <1>13. Parts(Pooled, flight, ending, Held, LostBufs)' /\ FramesOK' /\ Reasons'
    BY <1>3, <1>4, <1>10, <1>11 DEF Parts, usb, LostBufs, FramesOK, Reasons
  <1>14. Apart'
    BY <1>5, <1>8, <1>10 DEF Apart, Holds, Quiet
  <1> QED
    BY <1>4, <1>8, <1>9, <1>13, <1>14, MgPartsNext DEF MgInv

\* dump_mgntframe of a stopped driver leaves the frame and its buffer behind.
LEMMA DumpStoppedStep ==
  ASSUME MgInv, NEW p \in MgCallers, DumpStopped(p)
  PROVE  MgInv'
  <1>1. MgTypeOK /\ CallSound /\ CtxBound
    BY DEF MgInv
  <1>2. PICK b : b = call[p].buf
    OBVIOUS
  <1>3. /\ call[p].pc = "dump" /\ gone /\ lost' = lost \cup {<<b, "stopped">>}
        /\ UNCHANGED <<gone, freeBufs, freeFrames, usb, sctx>>
        /\ call' = [call EXCEPT ![p] = Returned(p, ~ Waits(p))]
    BY <1>2 DEF DumpStopped, At
  <1>4. b \in Bufs /\ Holds(p) /\ b \in Held
    BY <1>1, <1>2, <1>3 DEF CallSound, Quiet, Holds, Held
  <1>5. PICK y \in MgCall : y = Returned(p, ~ Waits(p)) /\ y.pc \in Quiet
    BY <1>1, ReturnedOK
  <1>8. /\ call' \in [MgCallers -> MgCall] /\ call'[p] = y
        /\ \A q \in MgCallers \ {p} : call'[q] = call[q]
        /\ CallSound' /\ CtxBound'
    <2>1. call[p].pc \in Calm /\ y.pc \in Calm /\ y.pc # "dump"
      BY <1>3, <1>5 DEF Calm, Quiet
    <2>2. \A c \in Bufs : sctx'[c] \in {sctx[c], Nobody}
      BY <1>1, <1>3 DEF MgTypeOK
    <2>3. call' = [call EXCEPT ![p] = y] /\ UNCHANGED <<flight, owner, real>>
      BY <1>3, <1>5 DEF usb
    <2> QED
      BY <1>1, <2>1, <2>2, <2>3, CalmMove
  <1>10. /\ Parts(Pooled, flight, ending, Held, LostBufs) /\ Apart /\ FramesOK /\ Reasons /\ Injects
    BY MgParts DEF MgInv
  <1>11. Held' = Held \ {b}
    BY <1>2, <1>4, <1>5, <1>8, <1>10, HeldMoves DEF Holds, Quiet, Apart
  <1>12. b \notin LostBufs /\ LostBufs' = LostBufs \cup {b} /\ <<b, "stopped">> \notin lost
    BY <1>3, <1>4, <1>10 DEF Parts, LostBufs
  <1>c. /\ IsFiniteSet(lost') /\ Cardinality(lost') = Cardinality(lost) + 1
        /\ Cardinality(Held') = Cardinality(Held) - 1
    <2>1. IsFiniteSet(lost) /\ IsFiniteSet(Held)
      BY <1>1, HeldBufs DEF MgTypeOK
    <2>2. IsFiniteSet(lost') /\ Cardinality(lost') = Cardinality(lost) + 1
      BY <1>3, <1>12, <2>1, FS_AddElement
    <2>3. Cardinality(Held') = Cardinality(Held) - 1
      BY <1>4, <1>11, <2>1, FS_RemoveElement
    <2> QED
      BY <2>2, <2>3
  <1>9. MgTypeOK'
    <2>1. lost' \in SUBSET (Bufs \X Wheres)
      BY <1>1, <1>3, <1>4 DEF MgTypeOK, Wheres
    <2> QED
      BY <1>1, <1>3, <1>8, <1>c, <2>1 DEF MgTypeOK, usb
  <1>13. Parts(Pooled, flight, ending, Held, LostBufs)' /\ Injects'
    BY <1>3, <1>4, <1>10, <1>11, <1>12 DEF Parts, usb, Pooled, Injects
  <1>14. Apart'
    BY <1>5, <1>8, <1>10 DEF Apart, Holds, Quiet
  <1>15. FramesOK'
    <2>1. Cardinality(Held) \in Nat /\ Cardinality(lost) \in Nat /\ Cardinality(Bufs) \in Nat
      BY <1>1, HeldBufs
    <2> QED
      BY <1>3, <1>10, <1>c, <2>1 DEF FramesOK
  <1>16. Reasons'
    BY <1>3, <1>10 DEF Reasons
  <1> QED
    BY <1>8, <1>9, <1>13, <1>14, <1>15, <1>16, MgPartsNext DEF MgInv

\* Caller p goes on to y: what the step owes the contexts of p, and leaves to others.
Moves(p, y) ==
    /\ call' = [call EXCEPT ![p] = y]
    /\ y.pc \notin Quiet => y.buf \in Bufs
    /\ y.pc \in {"wait", "clear"} => y.op = "beacon"
    /\ y.pc = "transmit" /\ y.op = "beacon" => y.status = "submitted"
    /\ (y.pc = "wait" /\ y.status = "success") \/ (y.pc = "clear" /\ y.ret)
         => real'[p] = "success" /\ \A b \in Bufs : owner'[b] # p
    /\ \A q \in MgCallers \ {p} :
          real'[q] = real[q] /\ \A b \in Bufs : owner'[b] = q <=> owner[b] = q
    /\ owner' \in [Bufs -> MgCallers \cup {Nobody}]
    /\ \A b \in Bufs :
          \/ sctx'[b] = Nobody
          \/ sctx'[b] = sctx[b] /\ sctx[b] # p
          \/ /\ sctx'[b] = p /\ y.buf = b /\ y.op = "beacon"
             /\ y.pc = "transmit" \/ (y.pc \in {"wait", "clear"} /\ b \in flight' /\ owner'[b] = p)
    /\ \A b \in Bufs : owner'[b] = p => b \in flight' /\ y.pc \in {"wait", "clear"} /\ y.buf = b
    /\ flight \subseteq flight'

\* The contexts stay sound after such a step.
LEMMA Moved ==
  ASSUME MgTypeOK, CallSound, CtxBound, NEW p \in MgCallers, NEW y \in MgCall, Moves(p, y)
  PROVE  /\ call' \in [MgCallers -> MgCall] /\ call'[p] = y
         /\ \A q \in MgCallers \ {p} : call'[q] = call[q]
         /\ CallSound' /\ CtxBound'
  <1> USE DEF Moves
  <1>1. call \in [MgCallers -> MgCall] /\ Nobody \notin MgCallers
    BY NobodyElse DEF MgTypeOK
  <1>2. /\ call' \in [MgCallers -> MgCall] /\ call'[p] = y
        /\ \A q \in MgCallers \ {p} : call'[q] = call[q]
    BY <1>1
  <1>3. CallSound'
    <2> SUFFICES ASSUME NEW q \in MgCallers
                 PROVE  /\ call'[q].pc \notin Quiet => call'[q].buf \in Bufs
                        /\ call'[q].pc \in {"wait", "clear"} => call'[q].op = "beacon"
                        /\ call'[q].pc = "transmit" /\ call'[q].op = "beacon" => call'[q].status = "submitted"
                        /\ call'[q].pc = "wait" /\ call'[q].status = "success" => real'[q] = "success" /\ \A b \in Bufs : owner'[b] # q
                        /\ call'[q].pc = "clear" /\ call'[q].ret => real'[q] = "success" /\ \A b \in Bufs : owner'[b] # q
      BY DEF CallSound, At
    <2>1. CASE q = p
      BY <1>2, <2>1
    <2>2. CASE q # p
      <3>1. call'[q] = call[q] /\ real'[q] = real[q] /\ \A b \in Bufs : owner'[b] = q <=> owner[b] = q
        BY <1>2, <2>2
      <3> QED
        BY <3>1 DEF CallSound, At
    <2> QED
      BY <2>1, <2>2
  <1>4. CtxBound'
    <2> SUFFICES ASSUME NEW b \in Bufs
                 PROVE  /\ sctx'[b] # Nobody => BoundTo(b, sctx[b])'
                        /\ owner'[b] # Nobody => /\ b \in flight' /\ call'[owner'[b]].pc \in {"wait", "clear"}
                                                 /\ call'[owner'[b]].buf = b
      BY DEF CtxBound
    <2>1. sctx[b] \in MgCallers \cup {Nobody} /\ owner'[b] \in MgCallers \cup {Nobody}
      BY DEF MgTypeOK
    <2>2. ASSUME owner'[b] # Nobody
          PROVE  /\ b \in flight' /\ call'[owner'[b]].pc \in {"wait", "clear"}
                 /\ call'[owner'[b]].buf = b
      <3>1. CASE owner'[b] = p
        BY <1>2, <3>1
      <3>2. CASE owner'[b] # p
        <4>1. PICK q \in MgCallers : q = owner'[b] /\ q # p /\ owner[b] = q
          BY <2>1, <2>2, <3>2
        <4>2. b \in flight /\ call[q].pc \in {"wait", "clear"} /\ call[q].buf = b
          BY <1>1, <4>1 DEF CtxBound
        <4> QED
          BY <1>2, <4>1, <4>2
      <3> QED
        BY <3>1, <3>2
    <2>3. CASE sctx'[b] # Nobody /\ sctx'[b] = sctx[b] /\ sctx[b] # p
      <3>1. PICK q \in MgCallers : q = sctx[b] /\ q # p /\ sctx'[b] = q
        BY <2>1, <2>3
      <3>2. BoundTo(b, q)
        BY <2>3, <3>1 DEF CtxBound
      <3>3. call'[q] = call[q] /\ (owner[b] = q => owner'[b] = q)
        BY <1>2, <3>1
      <3> QED
        BY <2>2, <3>1, <3>2, <3>3 DEF BoundTo, At
    <2>4. CASE /\ sctx'[b] = p /\ y.buf = b /\ y.op = "beacon"
               /\ y.pc = "transmit" \/ (y.pc \in {"wait", "clear"} /\ b \in flight' /\ owner'[b] = p)
      BY <1>2, <2>2, <2>4 DEF BoundTo, At
    <2> QED
      BY <2>2, <2>3, <2>4
  <1> QED
    BY <1>2, <1>3, <1>4

\* The frame is handed over, with a context to wait on or without.
LEMMA DumpStep ==
  ASSUME MgInv, NEW p \in MgCallers, dump_mgntframe_and_wait(p) \/ dump_mgntframe(p)
  PROVE  MgInv'
  <1>1. MgTypeOK /\ CallSound /\ CtxBound
    BY DEF MgInv
  <1>2. PICK b : b = call[p].buf
    OBVIOUS
  <1>3. /\ call[p] \in MgCall /\ call[p].pc = "dump" /\ b \in Bufs /\ Holds(p)
        /\ UNCHANGED <<gone, freeBufs, freeFrames, lost, flight, ending, owner, real>>
        /\ call \in [MgCallers -> MgCall]
    BY <1>1, <1>2 DEF dump_mgntframe_and_wait, dump_mgntframe, At, MgTypeOK, CallSound, Quiet,
       pools, usb, Holds
  <1>4. PICK y \in MgCall :
           /\ call' = [call EXCEPT ![p] = y] /\ y.pc = "transmit" /\ y.buf = b
           /\ y.op = "beacon" => y.status = "submitted"
           /\ \/ sctx' = sctx
              \/ sctx' = [sctx EXCEPT ![b] = p] /\ y.op = "beacon"
    <2>1. CASE dump_mgntframe_and_wait(p)
      <3> DEFINE z == [call[p] EXCEPT !.pc = "transmit", !.status = "submitted"]
      <3>1. z \in MgCall /\ z.pc = "transmit" /\ z.buf = b /\ z.status = "submitted" /\ z.op = "beacon"
        BY <1>2, <1>3, <2>1 DEF MgCall, dump_mgntframe_and_wait, Waits
      <3>2. call' = [call EXCEPT ![p] = z] /\ sctx' = [sctx EXCEPT ![b] = p]
        BY <1>2, <1>3, <2>1 DEF dump_mgntframe_and_wait
      <3> QED
        BY <3>1, <3>2
    <2>2. CASE dump_mgntframe(p)
      <3> DEFINE z == [call[p] EXCEPT !.pc = "transmit"]
      <3>1. z \in MgCall /\ z.pc = "transmit" /\ z.buf = b /\ z.op # "beacon"
        BY <1>2, <1>3, <2>2 DEF MgCall, dump_mgntframe, Waits
      <3>2. call' = [call EXCEPT ![p] = z] /\ sctx' = sctx
        BY <1>2, <1>3, <2>2 DEF dump_mgntframe
      <3> QED
        BY <3>1, <3>2
    <2> QED
      BY <2>1, <2>2
  <1>5. sctx \in [Bufs -> MgCallers \cup {Nobody}] /\ owner \in [Bufs -> MgCallers \cup {Nobody}]
    BY <1>1 DEF MgTypeOK
  <1>6. \A c \in Bufs : sctx[c] # p /\ owner[c] # p
    <2> SUFFICES ASSUME NEW c \in Bufs PROVE sctx[c] # p /\ owner[c] # p
      OBVIOUS
    <2>1. sctx[c] = p => BoundTo(c, p)
      BY <1>1, NobodyElse DEF CtxBound
    <2>2. owner[c] = p => call[p].pc \in {"wait", "clear"}
      BY <1>1, NobodyElse DEF CtxBound
    <2> QED
      BY <1>3, <2>1, <2>2 DEF BoundTo, At
  <1>8. /\ call' \in [MgCallers -> MgCall] /\ call'[p] = y
        /\ \A q \in MgCallers \ {p} : call'[q] = call[q]
        /\ CallSound' /\ CtxBound'
    <2>1. \A c \in Bufs : \/ sctx'[c] = sctx[c] /\ sctx[c] # p
                          \/ sctx'[c] = p /\ y.buf = c /\ y.op = "beacon" /\ y.pc = "transmit"
      BY <1>3, <1>4, <1>5, <1>6
    <2>2. UNCHANGED <<flight, owner, real>>
      BY <1>3
    <2>3. /\ \A c \in Bufs : owner'[c] # p
          /\ \A q \in MgCallers \ {p} :
               real'[q] = real[q] /\ \A c \in Bufs : owner'[c] = q <=> owner[c] = q
      BY <1>6, <2>2
    <2>4. /\ y.pc \notin Quiet => y.buf \in Bufs
          /\ y.pc \in {"wait", "clear"} => y.op = "beacon"
          /\ y.pc = "transmit" /\ y.op = "beacon" => y.status = "submitted"
      BY <1>3, <1>4 DEF Quiet
    <2>5. /\ (y.pc = "wait" /\ y.status = "success") \/ (y.pc = "clear" /\ y.ret)
            => real'[p] = "success" /\ \A c \in Bufs : owner'[c] # p
          /\ \A c \in Bufs : \/ sctx'[c] = Nobody
                             \/ sctx'[c] = sctx[c] /\ sctx[c] # p
                             \/ /\ sctx'[c] = p /\ y.buf = c /\ y.op = "beacon"
                                /\ y.pc = "transmit" \/ (y.pc \in {"wait", "clear"} /\ c \in flight' /\ owner'[c] = p)
          /\ \A c \in Bufs : owner'[c] = p => c \in flight' /\ y.pc \in {"wait", "clear"} /\ y.buf = c
      BY <1>4, <2>1, <2>3
    <2>6. owner' \in [Bufs -> MgCallers \cup {Nobody}] /\ flight \subseteq flight'
      BY <1>5, <2>2
    <2>7. Moves(p, y)
      BY <1>4, <2>3, <2>4, <2>5, <2>6 DEF Moves
    <2> QED
      BY <1>1, <1>4, <2>7, Moved
  <1>9. MgTypeOK'
    <2>1. sctx' \in [Bufs -> MgCallers \cup {Nobody}]
      BY <1>4, <1>5
    <2> QED
      BY <1>1, <1>3, <1>8, <2>1 DEF MgTypeOK
  <1>10. /\ Parts(Pooled, flight, ending, Held, LostBufs) /\ Apart /\ FramesOK /\ Reasons /\ Injects
    BY MgParts DEF MgInv
  <1>11. Held' = Held
    BY <1>2, <1>3, <1>4, <1>8, <1>10, HeldMoves DEF Holds, Apart
  <1>12. Apart'
    BY <1>2, <1>3, <1>4, <1>8, <1>10 DEF Apart, Holds
  <1>13. Parts(Pooled, flight, ending, Held, LostBufs)' /\ Injects' /\ FramesOK' /\ Reasons'
    BY <1>3, <1>10, <1>11 DEF Parts, Injects, FramesOK, Reasons, Pooled, LostBufs
  <1> QED
    BY <1>8, <1>9, <1>12, <1>13, MgPartsNext DEF MgInv

\* What rtw_dump_xframe returns to.
LEMMA DumpedOK ==
  ASSUME MgTypeOK, CallSound, NEW p \in MgCallers, At(p, "transmit"),
         NEW st \in {call[p].status, "deny", "error"},
         NEW y, y = IF Waits(p) THEN [call[p] EXCEPT !.pc = "wait", !.status = st]
                    ELSE Returned(p, TRUE)
  PROVE  /\ y \in MgCall /\ y.pc \in Quiet \cup {"wait"} /\ (Waits(p) <=> y.pc = "wait")
         /\ y.pc = "wait" => y.buf = call[p].buf /\ y.op = "beacon" /\ y.status # "success"
  <1>1. call[p] \in MgCall /\ (Waits(p) => call[p].status = "submitted" /\ call[p].op = "beacon")
    BY DEF MgTypeOK, CallSound, Waits
  <1>2. CASE Waits(p)
    <2>1. y = [call[p] EXCEPT !.pc = "wait", !.status = st]
      BY <1>2
    <2>2. st \in {"submitted", "deny", "error"}
      BY <1>1, <1>2
    <2> QED
      BY <1>1, <1>2, <2>1, <2>2 DEF MgCall, Quiet
  <1>3. CASE ~ Waits(p)
    BY <1>3, ReturnedOK DEF Quiet
  <1> QED
    BY <1>2, <1>3

\* The URB is submitted: the buffer goes from its caller to the USB core.
LEMMA TransmitStep ==
  ASSUME MgInv, NEW p \in MgCallers, _rtlw_usb_transmit(p)
  PROVE  MgInv'
  <1>1. MgTypeOK /\ CallSound /\ CtxBound
    BY DEF MgInv
  <1>2. PICK b : b = call[p].buf
    OBVIOUS
  <1>3. /\ call[p] \in MgCall /\ At(p, "transmit") /\ b \in Bufs /\ Holds(p)
        /\ call \in [MgCallers -> MgCall]
        /\ sctx \in [Bufs -> MgCallers \cup {Nobody}] /\ owner \in [Bufs -> MgCallers \cup {Nobody}]
    BY <1>1, <1>2 DEF _rtlw_usb_transmit, At, MgTypeOK, CallSound, Quiet, Holds
  <1>4. /\ flight' = flight \cup {b} /\ owner' = [owner EXCEPT ![b] = IF Waits(p) THEN p ELSE Nobody]
        /\ freeFrames' = freeFrames + 1 /\ call' = rtw_dump_xframe(call, p)
        /\ UNCHANGED <<gone, freeBufs, lost, ending, sctx, real>>
    BY <1>2 DEF _rtlw_usb_transmit, rtw_free_xmitframe
  <1>5. PICK y : y = IF Waits(p) THEN [call[p] EXCEPT !.pc = "wait", !.status = call[p].status]
                     ELSE Returned(p, TRUE)
    OBVIOUS
  <1>6. /\ y \in MgCall /\ y.pc \in Quiet \cup {"wait"} /\ (Waits(p) <=> y.pc = "wait")
        /\ y.pc = "wait" => y.buf = b /\ y.op = "beacon" /\ y.status # "success"
    BY <1>1, <1>2, <1>3, <1>5, DumpedOK
  <1>7. call' = [call EXCEPT ![p] = y]
    <2>1. [call[p] EXCEPT !.pc = "wait", !.status = call[p].status] = [call[p] EXCEPT !.pc = "wait"]
      BY <1>3 DEF MgCall
    <2> QED
      BY <1>3, <1>4, <1>5, <2>1 DEF rtw_dump_xframe
  <1>10. /\ Parts(Pooled, flight, ending, Held, LostBufs) /\ Apart /\ FramesOK /\ Reasons /\ Injects
    BY MgParts DEF MgInv
  <1>h. b \in Held /\ b \notin flight
    BY <1>2, <1>3, <1>10 DEF Held, Parts
  <1>s. \A c \in Bufs : owner[c] # p /\ (sctx[c] = p => c = b /\ Waits(p)) /\ owner[b] = Nobody
    <2> SUFFICES ASSUME NEW c \in Bufs
                 PROVE  owner[c] # p /\ (sctx[c] = p => c = b /\ Waits(p)) /\ owner[b] = Nobody
      OBVIOUS
    <2>1. sctx[c] = p => BoundTo(c, p)
      BY <1>1, NobodyElse DEF CtxBound
    <2>2. owner[c] = p => call[p].pc \in {"wait", "clear"}
      BY <1>1, NobodyElse DEF CtxBound
    <2>3. owner[b] = Nobody
      BY <1>1, <1>3, <1>h DEF CtxBound
    <2> QED
      BY <1>2, <1>3, <2>1, <2>2, <2>3 DEF BoundTo, At, Waits
  <1>8. /\ call' \in [MgCallers -> MgCall] /\ call'[p] = y
        /\ \A q \in MgCallers \ {p} : call'[q] = call[q]
        /\ CallSound' /\ CtxBound'
    <2>o. /\ \A c \in Bufs : owner'[c] = IF c = b /\ Waits(p) THEN p ELSE owner[c]
          /\ owner' \in [Bufs -> MgCallers \cup {Nobody}]
      BY <1>3, <1>4, <1>s
    <2>1. \A c \in Bufs : \/ sctx'[c] = sctx[c] /\ sctx[c] # p
                          \/ sctx'[c] = p /\ y.buf = c /\ y.op = "beacon" /\ y.pc = "wait" /\ c \in flight' /\ owner'[c] = p
      BY <1>3, <1>4, <1>6, <1>s, <2>o
    <2>2. \A c \in Bufs : owner'[c] = p => c \in flight' /\ y.pc = "wait" /\ y.buf = c
      BY <1>4, <1>6, <1>s, <2>o
    <2>3. \A q \in MgCallers \ {p} :
             real'[q] = real[q] /\ \A c \in Bufs : owner'[c] = q <=> owner[c] = q
      BY <1>4, <1>s, <2>o, NobodyElse
    <2>4. /\ y.pc \notin Quiet => y.buf \in Bufs
          /\ y.pc \in {"wait", "clear"} => y.op = "beacon"
          /\ y.pc # "transmit" /\ y.pc # "clear" /\ ~ (y.pc = "wait" /\ y.status = "success")
      BY <1>3, <1>6 DEF Quiet
    <2>5. flight \subseteq flight'
      BY <1>4
    <2>6. /\ (y.pc = "wait" /\ y.status = "success") \/ (y.pc = "clear" /\ y.ret)
            => real'[p] = "success" /\ \A c \in Bufs : owner'[c] # p
          /\ \A c \in Bufs : \/ sctx'[c] = Nobody
                             \/ sctx'[c] = sctx[c] /\ sctx[c] # p
                             \/ /\ sctx'[c] = p /\ y.buf = c /\ y.op = "beacon"
                                /\ y.pc = "transmit" \/ (y.pc \in {"wait", "clear"} /\ c \in flight' /\ owner'[c] = p)
          /\ \A c \in Bufs : owner'[c] = p => c \in flight' /\ y.pc \in {"wait", "clear"} /\ y.buf = c
      BY <2>1, <2>2, <2>4
    <2>7. Moves(p, y)
      BY <1>7, <2>o, <2>3, <2>4, <2>5, <2>6 DEF Moves
    <2> QED
      BY <1>1, <1>6, <2>7, Moved
  <1>9. MgTypeOK'
    <2>1. owner' \in [Bufs -> MgCallers \cup {Nobody}] /\ flight' \in SUBSET Bufs
      BY <1>1, <1>3, <1>4 DEF MgTypeOK
    <2>2. freeFrames' \in Int
      BY <1>1, <1>4 DEF MgTypeOK
    <2> QED
      BY <1>1, <1>4, <1>8, <2>1, <2>2 DEF MgTypeOK
  <1>11. Held' = Held \ {b}
    BY <1>2, <1>3, <1>6, <1>8, <1>10, HeldMoves DEF Holds, Quiet, Apart
  <1>12. Apart'
    BY <1>6, <1>8, <1>10 DEF Apart, Holds, Quiet
  <1>13. Parts(Pooled, flight, ending, Held, LostBufs)' /\ Injects' /\ Reasons'
    BY <1>3, <1>4, <1>10, <1>11, <1>h DEF Parts, Injects, Reasons, Pooled, LostBufs
  <1>14. FramesOK'
    <2>1. IsFiniteSet(Held) /\ Cardinality(Held) \in Nat /\ Cardinality(lost) \in Nat /\ Cardinality(Bufs) \in Nat
      BY <1>1, HeldBufs
    <2>2. Cardinality(Held') = Cardinality(Held) - 1
      BY <1>11, <1>h, <2>1, FS_RemoveElement
    <2> QED
      BY <1>4, <1>10, <2>1, <2>2 DEF FramesOK
  <1> QED
    BY <1>8, <1>9, <1>12, <1>13, <1>14, MgPartsNext DEF MgInv

\* The URB is refused: the context is told and the buffer goes back to the pool.
LEMMA RefusedStep ==
  ASSUME MgInv, NEW p \in MgCallers, NEW s \in {"deny", "error"}, SubmitRefused(p, s)
  PROVE  MgInv'
  <1>1. MgTypeOK /\ CallSound /\ CtxBound
    BY DEF MgInv
  <1>2. PICK b : b = call[p].buf
    OBVIOUS
  <1>3. /\ call[p] \in MgCall /\ At(p, "transmit") /\ b \in Bufs /\ Holds(p)
        /\ call \in [MgCallers -> MgCall] /\ freeBufs \in Seq(Bufs)
        /\ sctx \in [Bufs -> MgCallers \cup {Nobody}] /\ owner \in [Bufs -> MgCallers \cup {Nobody}]
    BY <1>1, <1>2 DEF SubmitRefused, At, MgTypeOK, CallSound, Quiet, Holds
  <1>4. /\ gone' = gone \/ (s = "error" /\ gone' = TRUE)
        /\ freeFrames' = freeFrames + 1 /\ freeBufs' = Append(freeBufs, b)
        /\ call' = rtw_dump_xframe(rtw_sctx_done_err(b, s), p)
        /\ sctx' = [sctx EXCEPT ![b] = Nobody]
        /\ UNCHANGED <<lost, flight, ending, owner, real>>
    BY <1>2 DEF SubmitRefused, rtw_free_xmitframe, rtw_free_xmitbuf_ext, Unbound, usb
  <1>5. gone' \in BOOLEAN /\ (gone => gone')
    <2>1. gone \in BOOLEAN
      BY <1>1 DEF MgTypeOK
    <2>2. gone' = gone \/ gone' = TRUE
      BY <1>4
    <2> QED
      BY <2>1, <2>2
  <1>10. /\ Parts(Pooled, flight, ending, Held, LostBufs) /\ Apart /\ FramesOK /\ Reasons /\ Injects
    BY MgParts DEF MgInv
  <1>h. b \in Held /\ b \notin flight /\ b \notin Pooled
    BY <1>2, <1>3, <1>10 DEF Held, Parts
  <1>s. \A c \in Bufs : owner[c] # p /\ (sctx[c] = p => c = b)
    <2> SUFFICES ASSUME NEW c \in Bufs PROVE owner[c] # p /\ (sctx[c] = p => c = b)
      OBVIOUS
    <2>1. sctx[c] = p => BoundTo(c, p)
      BY <1>1, NobodyElse DEF CtxBound
    <2>2. owner[c] = p => call[p].pc \in {"wait", "clear"}
      BY <1>1, NobodyElse DEF CtxBound
    <2> QED
      BY <1>2, <1>3, <2>1, <2>2 DEF BoundTo, At
  <1>b. sctx[b] = Nobody \/ (sctx[b] = p /\ Waits(p))
    <2>1. CASE sctx[b] # Nobody
      <3>1. PICK q \in MgCallers : q = sctx[b]
        BY <1>3, <2>1
      <3>2. BoundTo(b, q)
        BY <1>1, <1>3, <2>1, <3>1 DEF CtxBound
      <3>3. At(q, "transmit") /\ call[q].buf = b /\ call[q].op = "beacon"
        BY <1>h, <3>2 DEF BoundTo
      <3>4. q = p
        BY <1>2, <1>3, <1>10, <3>3 DEF Apart, Holds, At
      <3> QED
        BY <3>1, <3>3, <3>4 DEF Waits
    <2> QED
      BY <2>1
  <1>y. PICK y \in MgCall :
           /\ call' = [call EXCEPT ![p] = y]
           /\ y.pc \in Quiet \cup {"wait"}
           /\ y.pc = "wait" => y.buf = b /\ y.op = "beacon" /\ y.status # "success"
    <2> DEFINE Y(st) == IF Waits(p) THEN [call[p] EXCEPT !.pc = "wait", !.status = st]
                        ELSE Returned(p, TRUE)
    <2>1. \A st \in {call[p].status, "deny", "error"} :
            /\ Y(st) \in MgCall /\ Y(st).pc \in Quiet \cup {"wait"}
            /\ Y(st).pc = "wait" => Y(st).buf = b /\ Y(st).op = "beacon" /\ Y(st).status # "success"
      <3> SUFFICES ASSUME NEW st \in {call[p].status, "deny", "error"}
                   PROVE  /\ Y(st) \in MgCall /\ Y(st).pc \in Quiet \cup {"wait"}
                          /\ Y(st).pc = "wait" => Y(st).buf = b /\ Y(st).op = "beacon" /\ Y(st).status # "success"
        OBVIOUS
      <3>1. PICK z : z = Y(st)
        OBVIOUS
      <3>2. z = IF Waits(p) THEN [call[p] EXCEPT !.pc = "wait", !.status = st] ELSE Returned(p, TRUE)
        BY <3>1
      <3>3. /\ z \in MgCall /\ z.pc \in Quiet \cup {"wait"}
            /\ z.pc = "wait" => z.buf = call[p].buf /\ z.op = "beacon" /\ z.status # "success"
        BY <1>1, <1>3, <3>2, DumpedOK
      <3> QED
        BY <1>2, <3>1, <3>3
    <2>2. CASE sctx[b] = Nobody
      <3>1. [call[p] EXCEPT !.pc = "wait", !.status = call[p].status] = [call[p] EXCEPT !.pc = "wait"]
        BY <1>3 DEF MgCall
      <3>2. call' = [call EXCEPT ![p] = Y(call[p].status)]
        BY <1>3, <1>4, <2>2, <3>1 DEF rtw_dump_xframe, rtw_sctx_done_err
      <3> QED
        BY <2>1, <3>2
    <2>3. CASE sctx[b] = p /\ Waits(p)
      <3>1. rtw_sctx_done_err(b, s) = [call EXCEPT ![p].status = s]
        BY <2>3, NobodyElse DEF rtw_sctx_done_err
      <3>2. [[call[p] EXCEPT !.status = s] EXCEPT !.pc = "wait"] = [call[p] EXCEPT !.pc = "wait", !.status = s]
        BY <1>3 DEF MgCall
      <3>3. call' = [call EXCEPT ![p] = Y(s)]
        BY <1>3, <1>4, <2>3, <3>1, <3>2 DEF rtw_dump_xframe
      <3> QED
        BY <2>1, <3>3
    <2> QED
      BY <1>b, <2>2, <2>3
  <1>8. /\ call' \in [MgCallers -> MgCall] /\ call'[p] = y
        /\ \A q \in MgCallers \ {p} : call'[q] = call[q]
        /\ CallSound' /\ CtxBound'
    <2>1. \A c \in Bufs : sctx'[c] = Nobody \/ (sctx'[c] = sctx[c] /\ sctx[c] # p)
      BY <1>3, <1>4, <1>s
    <2>2. UNCHANGED <<flight, owner, real>>
      BY <1>4
    <2>4. /\ y.pc \notin Quiet => y.buf \in Bufs
          /\ y.pc \in {"wait", "clear"} => y.op = "beacon"
          /\ y.pc # "transmit" /\ y.pc # "clear" /\ ~ (y.pc = "wait" /\ y.status = "success")
      BY <1>3, <1>y DEF Quiet
    <2>7. Moves(p, y)
      BY <1>3, <1>y, <1>s, <2>1, <2>2, <2>4 DEF Moves
    <2> QED
      BY <1>1, <2>7, Moved
  <1>p. /\ freeBufs' \in Seq(Bufs) /\ Pooled' = Pooled \cup {b} /\ Injects'
    <2>1. \A i, j \in DOMAIN freeBufs : freeBufs[i] = freeBufs[j] => i = j
      BY <1>10 DEF Injects
    <2>2. b \notin {freeBufs[i] : i \in DOMAIN freeBufs}
      BY <1>h DEF Pooled
    <2>3. /\ Append(freeBufs, b) \in Seq(Bufs)
          /\ \A i, j \in DOMAIN Append(freeBufs, b) :
               Append(freeBufs, b)[i] = Append(freeBufs, b)[j] => i = j
          /\ {Append(freeBufs, b)[i] : i \in DOMAIN Append(freeBufs, b)}
               = {freeBufs[i] : i \in DOMAIN freeBufs} \cup {b}
      BY <1>3, <2>1, <2>2, PoolGives
    <2> QED
      BY <1>4, <2>3 DEF Pooled, Injects
  <1>9. MgTypeOK'
    <2>1. sctx' \in [Bufs -> MgCallers \cup {Nobody}]
      BY <1>3, <1>4
    <2>2. freeFrames' \in Int
      BY <1>1, <1>4 DEF MgTypeOK
    <2> QED
      BY <1>1, <1>4, <1>5, <1>8, <1>p, <2>1, <2>2 DEF MgTypeOK
  <1>11. Held' = Held \ {b}
    BY <1>2, <1>3, <1>y, <1>8, <1>10, HeldMoves DEF Holds, Quiet, Apart
  <1>12. Apart'
    BY <1>y, <1>8, <1>10 DEF Apart, Holds, Quiet
  <1>13. Parts(Pooled, flight, ending, Held, LostBufs)'
    BY <1>3, <1>4, <1>10, <1>11, <1>h, <1>p DEF Parts, LostBufs
  <1>r. Reasons'
    BY <1>4, <1>5, <1>10 DEF Reasons
  <1>14. FramesOK'
    <2>1. IsFiniteSet(Held) /\ Cardinality(Held) \in Nat /\ Cardinality(lost) \in Nat /\ Cardinality(Bufs) \in Nat
      BY <1>1, HeldBufs
    <2>2. Cardinality(Held') = Cardinality(Held) - 1
      BY <1>11, <1>h, <2>1, FS_RemoveElement
    <2> QED
      BY <1>4, <1>10, <2>1, <2>2 DEF FramesOK
  <1> QED
    BY <1>8, <1>9, <1>12, <1>13, <1>14, <1>p, <1>r, MgPartsNext DEF MgInv

\* A step that leaves every caller's buffer where it is.
LEMMA SameHolders ==
  ASSUME MgTypeOK, \A q \in MgCallers : call'[q].buf = call[q].buf /\ (Holds(q)' <=> Holds(q))
  PROVE  Held' = Held /\ (Apart => Apart')
  <1>1. Held' = {call'[q].buf : q \in {r \in MgCallers : Holds(r)'}}
    BY DEF Held
  <1>2. {r \in MgCallers : Holds(r)'} = {r \in MgCallers : Holds(r)}
    OBVIOUS
  <1>3. Held' = Held
    BY <1>1, <1>2 DEF Held
  <1>4. ASSUME Apart PROVE Apart'
    BY <1>4 DEF Apart
  <1> QED
    BY <1>3, <1>4

\* The URB ends: whoever waits on the buffer's context is told, and nobody else.
LEMMA CompleteStep ==
  ASSUME MgInv, NEW b \in Bufs, NEW s \in {"success", "error"}, _rtl_tx_complete(b, s)
  PROVE  MgInv'
  <1>1. MgTypeOK /\ CallSound /\ CtxBound
    BY DEF MgInv
  <1>3. /\ call \in [MgCallers -> MgCall] /\ real \in [MgCallers -> {"none", "success", "error"}]
        /\ sctx \in [Bufs -> MgCallers \cup {Nobody}] /\ owner \in [Bufs -> MgCallers \cup {Nobody}]
        /\ flight \in SUBSET Bufs /\ ending \in SUBSET Bufs /\ Nobody \notin MgCallers
    BY <1>1, NobodyElse DEF MgTypeOK
  <1>4. /\ b \in flight /\ flight' = flight \ {b} /\ ending' = ending \cup {b}
        /\ call' = rtw_sctx_done_err(b, s) /\ sctx' = [sctx EXCEPT ![b] = Nobody]
        /\ gone' = gone \/ (s = "error" /\ gone' = TRUE)
        /\ real' = IF owner[b] = Nobody THEN real ELSE [real EXCEPT ![owner[b]] = s]
        /\ owner' = [owner EXCEPT ![b] = Nobody]
        /\ UNCHANGED <<freeBufs, freeFrames, lost>>
    BY DEF _rtl_tx_complete, Unbound, pools
  <1>5. gone' \in BOOLEAN /\ (gone => gone')
    <2>1. gone \in BOOLEAN
      BY <1>1 DEF MgTypeOK
    <2>2. gone' = gone \/ gone' = TRUE
      BY <1>4
    <2> QED
      BY <2>1, <2>2
  <1>10. /\ Parts(Pooled, flight, ending, Held, LostBufs) /\ Apart /\ FramesOK /\ Reasons /\ Injects
    BY MgParts DEF MgInv
  <1>h. b \notin Held
    BY <1>4, <1>10 DEF Parts
  <1>b. sctx[b] # Nobody => /\ sctx[b] \in MgCallers /\ owner[b] = sctx[b]
                            /\ call[sctx[b]].pc \in {"wait", "clear"}
    <2> SUFFICES ASSUME sctx[b] # Nobody
                 PROVE  /\ sctx[b] \in MgCallers /\ owner[b] = sctx[b]
                        /\ call[sctx[b]].pc \in {"wait", "clear"}
      OBVIOUS
    <2>1. PICK q \in MgCallers : q = sctx[b]
      BY <1>3
    <2>2. BoundTo(b, q)
      BY <1>1, <2>1 DEF CtxBound
    <2>3. ~ At(q, "transmit")
      BY <1>h, <2>2 DEF Held, Holds, BoundTo, At
    <2> QED
      BY <2>1, <2>2, <2>3 DEF BoundTo
  <1>c. \A q \in MgCallers :
          /\ call'[q] \in MgCall
          /\ call'[q].pc = call[q].pc /\ call'[q].buf = call[q].buf /\ call'[q].op = call[q].op
          /\ call'[q].ret = call[q].ret
          /\ call'[q].status = IF sctx[b] = q THEN s ELSE call[q].status
    <2> SUFFICES ASSUME NEW q \in MgCallers
                 PROVE  /\ call'[q] \in MgCall
                        /\ call'[q].pc = call[q].pc /\ call'[q].buf = call[q].buf /\ call'[q].op = call[q].op
                        /\ call'[q].ret = call[q].ret
                        /\ call'[q].status = IF sctx[b] = q THEN s ELSE call[q].status
      OBVIOUS
    <2>0. call[q] \in MgCall
      BY <1>3
    <2>1. CASE sctx[b] = q
      <3>1. call'[q] = [call[q] EXCEPT !.status = s]
        BY <1>3, <1>4, <2>1 DEF rtw_sctx_done_err
      <3>2. [call[q] EXCEPT !.status = s] \in MgCall
        BY <2>0 DEF MgCall
      <3> QED
        BY <2>0, <2>1, <3>1, <3>2 DEF MgCall
    <2>2. CASE sctx[b] # q
      <3>1. call'[q] = call[q]
        BY <1>3, <1>4, <1>b, <2>2 DEF rtw_sctx_done_err
      <3> QED
        BY <2>0, <2>2, <3>1
    <2> QED
      BY <2>1, <2>2
  <1>d. call' \in [MgCallers -> MgCall]
    <2>1. CASE sctx[b] = Nobody
      BY <1>3, <1>4, <2>1 DEF rtw_sctx_done_err
    <2>2. CASE sctx[b] # Nobody
      <3>1. call' = [call EXCEPT ![sctx[b]].status = s]
        BY <1>4, <2>2 DEF rtw_sctx_done_err
      <3>2. DOMAIN call' = MgCallers /\ call' = [q \in MgCallers |-> call'[q]]
        BY <1>3, <3>1
      <3> QED
        BY <1>c, <3>2
    <2> QED
      BY <2>1, <2>2
  <1>o. \A q \in MgCallers : /\ real'[q] = IF owner[b] = q THEN s ELSE real[q]
                             /\ owner[b] = q => call[q].buf = b
    BY <1>1, <1>3, <1>4 DEF CtxBound
  <1>w. \A c \in Bufs : owner'[c] = IF c = b THEN Nobody ELSE owner[c]
    BY <1>3, <1>4
  <1>8. CallSound'
    <2> SUFFICES ASSUME NEW q \in MgCallers
                 PROVE  /\ call'[q].pc \notin Quiet => call'[q].buf \in Bufs
                        /\ call'[q].pc \in {"wait", "clear"} => call'[q].op = "beacon"
                        /\ call'[q].pc = "transmit" /\ call'[q].op = "beacon" => call'[q].status = "submitted"
                        /\ call'[q].pc = "wait" /\ call'[q].status = "success" => real'[q] = "success" /\ \A c \in Bufs : owner'[c] # q
                        /\ call'[q].pc = "clear" /\ call'[q].ret => real'[q] = "success" /\ \A c \in Bufs : owner'[c] # q
      BY DEF CallSound, At
    <2>0. /\ call[q].pc \notin Quiet => call[q].buf \in Bufs
          /\ call[q].pc \in {"wait", "clear"} => call[q].op = "beacon"
          /\ call[q].pc = "transmit" /\ call[q].op = "beacon" => call[q].status = "submitted"
          /\ call[q].pc = "wait" /\ call[q].status = "success" => real[q] = "success" /\ \A c \in Bufs : owner[c] # q
          /\ call[q].pc = "clear" /\ call[q].ret => real[q] = "success" /\ \A c \in Bufs : owner[c] # q
      BY <1>1 DEF CallSound, At
    <2>1. /\ call'[q].pc \notin Quiet => call'[q].buf \in Bufs
          /\ call'[q].pc \in {"wait", "clear"} => call'[q].op = "beacon"
          /\ call'[q].pc = "transmit" /\ call'[q].op = "beacon" => call'[q].status = "submitted"
      <3>1. sctx[b] = q => call[q].pc # "transmit"
        BY <1>3, <1>b
      <3> QED
        BY <1>c, <2>0, <3>1
    <2>2. ASSUME call'[q].pc = "wait", call'[q].status = "success"
          PROVE  real'[q] = "success" /\ \A c \in Bufs : owner'[c] # q
      <3>1. CASE sctx[b] = q
        <4>1. owner[b] = q /\ s = "success" /\ call[q].buf = b
          BY <1>3, <1>b, <1>c, <1>o, <2>2, <3>1
        <4>2. \A c \in Bufs : owner[c] = q => c = b
          BY <1>1, <1>3, <4>1 DEF CtxBound
        <4> QED
          BY <1>3, <1>o, <1>w, <4>1, <4>2
      <3>2. CASE sctx[b] # q
        BY <1>3, <1>c, <1>o, <1>w, <2>0, <2>2, <3>2
      <3> QED
        BY <3>1, <3>2
    <2>3. ASSUME call'[q].pc = "clear", call'[q].ret
          PROVE  real'[q] = "success" /\ \A c \in Bufs : owner'[c] # q
      BY <1>3, <1>c, <1>o, <1>w, <2>0, <2>3
    <2> QED
      BY <2>1, <2>2, <2>3
  <1>9. CtxBound'
    <2> SUFFICES ASSUME NEW c \in Bufs
                 PROVE  /\ sctx'[c] # Nobody => BoundTo(c, sctx[c])'
                        /\ owner'[c] # Nobody => /\ c \in flight' /\ call'[owner'[c]].pc \in {"wait", "clear"}
                                                 /\ call'[owner'[c]].buf = c
      BY DEF CtxBound
    <2>1. CASE c = b
      BY <1>3, <1>4, <2>1
    <2>2. CASE c # b
      <3>1. sctx'[c] = sctx[c] /\ owner'[c] = owner[c] /\ (c \in flight => c \in flight')
        BY <1>3, <1>4, <2>2
      <3>2. ASSUME sctx'[c] # Nobody PROVE BoundTo(c, sctx[c])'
        <4>1. PICK q \in MgCallers : q = sctx[c] /\ sctx'[c] = q
          BY <1>3, <3>1, <3>2
        <4>2. BoundTo(c, q)
          BY <1>1, <1>3, <4>1 DEF CtxBound
        <4> QED
          BY <1>c, <3>1, <4>1, <4>2 DEF BoundTo, At
      <3>3. ASSUME owner'[c] # Nobody
            PROVE  /\ c \in flight' /\ call'[owner'[c]].pc \in {"wait", "clear"}
                   /\ call'[owner'[c]].buf = c
        <4>1. PICK q \in MgCallers : q = owner[c] /\ owner'[c] = q
          BY <1>3, <3>1, <3>3
        <4>2. c \in flight /\ call[q].pc \in {"wait", "clear"} /\ call[q].buf = c
          BY <1>1, <1>3, <4>1 DEF CtxBound
        <4> QED
          BY <1>c, <3>1, <4>1, <4>2
      <3> QED
        BY <3>2, <3>3
    <2> QED
      BY <2>1, <2>2
  <1>11. MgTypeOK'
    <2>1. sctx' \in [Bufs -> MgCallers \cup {Nobody}] /\ owner' \in [Bufs -> MgCallers \cup {Nobody}]
      BY <1>3, <1>4
    <2>2. real' \in [MgCallers -> {"none", "success", "error"}]
      BY <1>3, <1>4
    <2>3. flight' \in SUBSET Bufs /\ ending' \in SUBSET Bufs
      BY <1>3, <1>4
    <2> QED
      BY <1>1, <1>4, <1>5, <1>d, <2>1, <2>2, <2>3 DEF MgTypeOK
  <1>12. Held' = Held /\ Apart'
    <2>1. \A q \in MgCallers : call'[q].buf = call[q].buf /\ (Holds(q)' <=> Holds(q))
      BY <1>c DEF Holds
    <2> QED
      BY <1>1, <1>10, <2>1, SameHolders
  <1>13. Parts(Pooled, flight, ending, Held, LostBufs)'
    BY <1>4, <1>10, <1>12 DEF Parts, LostBufs, Pooled
  <1>14. Injects' /\ FramesOK' /\ Reasons'
    BY <1>4, <1>5, <1>10, <1>12 DEF Injects, FramesOK, Reasons
  <1> QED
    BY <1>8, <1>9, <1>11, <1>12, <1>13, <1>14, MgPartsNext DEF MgInv

\* The completion handler gives the buffer back.
LEMMA FreedStep ==
  ASSUME MgInv, NEW b \in Bufs, rtw_free_xmitbuf(b)
  PROVE  MgInv'
  <1>1. MgTypeOK /\ CallSound /\ CtxBound
    BY DEF MgInv
  <1>10. /\ Parts(Pooled, flight, ending, Held, LostBufs) /\ Apart /\ FramesOK /\ Reasons /\ Injects
    BY MgParts DEF MgInv
  <1>2. /\ b \in ending /\ ending' = ending \ {b} /\ freeBufs' = Append(freeBufs, b)
        /\ call' = rtw_sctx_done_err(b, "buf_free") /\ sctx' = [sctx EXCEPT ![b] = Nobody]
        /\ UNCHANGED <<gone, freeFrames, lost, flight, owner, real>>
    BY DEF rtw_free_xmitbuf, Unbound, rtw_free_xmitbuf_ext
  <1>3. b \notin Held /\ b \notin flight /\ b \notin Pooled
    BY <1>2, <1>10 DEF Parts
  <1>4. sctx[b] = Nobody
    BY <1>3, Unbound1
  <1>5. UNCHANGED <<call, sctx>>
    BY <1>1, <1>2, <1>4 DEF rtw_sctx_done_err, MgTypeOK
  <1>p. /\ freeBufs' \in Seq(Bufs) /\ Pooled' = Pooled \cup {b} /\ Injects'
    <2>1. freeBufs \in Seq(Bufs) /\ \A i, j \in DOMAIN freeBufs : freeBufs[i] = freeBufs[j] => i = j
      BY <1>1, <1>10 DEF Injects, MgTypeOK
    <2>2. b \notin {freeBufs[i] : i \in DOMAIN freeBufs}
      BY <1>3 DEF Pooled
    <2>3. /\ Append(freeBufs, b) \in Seq(Bufs)
          /\ \A i, j \in DOMAIN Append(freeBufs, b) :
               Append(freeBufs, b)[i] = Append(freeBufs, b)[j] => i = j
          /\ {Append(freeBufs, b)[i] : i \in DOMAIN Append(freeBufs, b)}
               = {freeBufs[i] : i \in DOMAIN freeBufs} \cup {b}
      BY <2>1, <2>2, PoolGives
    <2> QED
      BY <1>2, <2>3 DEF Pooled, Injects
  <1>6. MgTypeOK'
    BY <1>1, <1>2, <1>5, <1>p DEF MgTypeOK
  <1>7. CallSound' /\ CtxBound'
    BY <1>1, <1>2, <1>5 DEF CallSound, CtxBound, BoundTo, At
  <1>8. Held' = Held /\ Apart'
    BY <1>5, <1>10 DEF Held, Holds, Apart
  <1>9. Parts(Pooled, flight, ending, Held, LostBufs)'
    BY <1>2, <1>3, <1>8, <1>10, <1>p DEF Parts, LostBufs
  <1>11. FramesOK' /\ Reasons'
    BY <1>2, <1>8, <1>10 DEF FramesOK, Reasons
  <1> QED
    BY <1>6, <1>7, <1>8, <1>9, <1>11, <1>p, MgPartsNext DEF MgInv

\* The wait is over, by the completion or by the time.
LEMMA WaitStep ==
  ASSUME MgInv, NEW p \in MgCallers, rtw_sctx_wait(p)
  PROVE  MgInv'
  <1>1. MgTypeOK /\ CallSound /\ CtxBound
    BY DEF MgInv
  <1>2. PICK y : y = [call[p] EXCEPT !.pc = "clear", !.ret = (call[p].status = "success")]
    OBVIOUS
  <1>3. /\ call[p] \in MgCall /\ At(p, "wait") /\ call \in [MgCallers -> MgCall]
        /\ call[p].buf \in Bufs /\ call[p].op = "beacon"
        /\ UNCHANGED <<gone, freeBufs, freeFrames, lost, flight, ending, owner, real, sctx>>
        /\ sctx \in [Bufs -> MgCallers \cup {Nobody}] /\ owner \in [Bufs -> MgCallers \cup {Nobody}]
    BY <1>1 DEF rtw_sctx_wait, MgTypeOK, pools, usb, CallSound, Quiet, At
  <1>4. call' = [call EXCEPT ![p] = y]
    BY <1>2, <1>3 DEF rtw_sctx_wait
  <1>5. /\ y \in MgCall /\ y.pc = "clear" /\ y.buf = call[p].buf /\ y.op = "beacon"
        /\ y.ret => call[p].status = "success"
    BY <1>2, <1>3 DEF MgCall
  <1>8. /\ call' \in [MgCallers -> MgCall] /\ call'[p] = y
        /\ \A q \in MgCallers \ {p} : call'[q] = call[q]
        /\ CallSound' /\ CtxBound'
    <2>1. y.ret => real[p] = "success" /\ \A c \in Bufs : owner[c] # p
      BY <1>1, <1>3, <1>5 DEF CallSound
    <2>2. \A c \in Bufs : /\ sctx[c] = p => c = call[p].buf /\ c \in flight /\ owner[c] = p
                          /\ owner[c] = p => c = call[p].buf /\ c \in flight
      <3> SUFFICES ASSUME NEW c \in Bufs
                   PROVE  /\ sctx[c] = p => c = call[p].buf /\ c \in flight /\ owner[c] = p
                          /\ owner[c] = p => c = call[p].buf /\ c \in flight
        OBVIOUS
      <3>1. sctx[c] = p => BoundTo(c, p)
        BY <1>1, NobodyElse DEF CtxBound
      <3>2. owner[c] = p => c = call[p].buf /\ c \in flight
        BY <1>1, NobodyElse DEF CtxBound
      <3> QED
        BY <1>3, <3>1, <3>2 DEF BoundTo, At
    <2>3. UNCHANGED <<flight, owner, real, sctx>>
      BY <1>3
    <2>4. /\ \A c \in Bufs :
               \/ sctx'[c] = Nobody
               \/ sctx'[c] = sctx[c] /\ sctx[c] # p
               \/ /\ sctx'[c] = p /\ y.buf = c /\ y.op = "beacon"
                  /\ y.pc = "transmit" \/ (y.pc \in {"wait", "clear"} /\ c \in flight' /\ owner'[c] = p)
          /\ \A c \in Bufs : owner'[c] = p => c \in flight' /\ y.pc \in {"wait", "clear"} /\ y.buf = c
      BY <1>5, <2>2, <2>3
    <2>5. Moves(p, y)
      BY <1>3, <1>4, <1>5, <2>1, <2>3, <2>4 DEF Moves
    <2> QED
      BY <1>1, <1>5, <2>5, Moved
  <1>9. MgTypeOK'
    BY <1>1, <1>3, <1>8 DEF MgTypeOK
  <1>10. /\ Parts(Pooled, flight, ending, Held, LostBufs) /\ Apart /\ FramesOK /\ Reasons /\ Injects
    BY MgParts DEF MgInv
  <1>11. Held' = Held
    BY <1>3, <1>5, <1>8, <1>10, HeldMoves DEF Holds, Apart, At
  <1>12. Apart'
    BY <1>5, <1>8, <1>10 DEF Apart, Holds
  <1>13. Parts(Pooled, flight, ending, Held, LostBufs)' /\ Injects' /\ FramesOK' /\ Reasons'
    BY <1>3, <1>10, <1>11 DEF Parts, Injects, FramesOK, Reasons, Pooled, LostBufs
  <1> QED
    BY <1>8, <1>9, <1>12, <1>13, MgPartsNext DEF MgInv

\* The context goes out of scope: the only buffer that may point to it is the
\* caller's own.
LEMMA ClearStep ==
  ASSUME MgInv, NEW p \in MgCallers, ClearSctx(p)
  PROVE  MgInv'
  <1>1. MgTypeOK /\ CallSound /\ CtxBound
    BY DEF MgInv
  <1>2. PICK y : y = [Returned(p, call[p].ret) EXCEPT !.status = "none"]
    OBVIOUS
  <1>3. /\ call[p] \in MgCall /\ At(p, "clear") /\ call \in [MgCallers -> MgCall]
        /\ real \in [MgCallers -> {"none", "success", "error"}]
        /\ sctx \in [Bufs -> MgCallers \cup {Nobody}] /\ owner \in [Bufs -> MgCallers \cup {Nobody}]
    BY <1>1 DEF ClearSctx, MgTypeOK
  <1>4. /\ sctx' = [sctx EXCEPT ![call[p].buf] = Nobody] /\ call' = [call EXCEPT ![p] = y]
        /\ owner' = [b \in Bufs |-> IF owner[b] = p THEN Nobody ELSE owner[b]]
        /\ real' = [real EXCEPT ![p] = "none"]
        /\ UNCHANGED <<gone, freeBufs, freeFrames, lost, flight, ending>>
    BY <1>2 DEF ClearSctx, Unbound, pools
  <1>5. y \in MgCall /\ y.pc \in Quiet
    <2>1. call[p].ret \in BOOLEAN
      BY <1>3 DEF MgCall
    <2>2. PICK z \in MgCall : z = Returned(p, call[p].ret) /\ z.pc \in Quiet
      BY <1>1, <2>1, ReturnedOK
    <2>3. y = [z EXCEPT !.status = "none"]
      BY <1>2, <2>2
    <2> QED
      BY <2>2, <2>3 DEF MgCall
  <1>8. /\ call' \in [MgCallers -> MgCall] /\ call'[p] = y
        /\ \A q \in MgCallers \ {p} : call'[q] = call[q]
        /\ CallSound' /\ CtxBound'
    <2>1. \A c \in Bufs : sctx[c] = p => c = call[p].buf
      <3> SUFFICES ASSUME NEW c \in Bufs, sctx[c] = p PROVE c = call[p].buf
        OBVIOUS
      <3>1. BoundTo(c, p)
        BY <1>1, NobodyElse DEF CtxBound
      <3> QED
        BY <3>1 DEF BoundTo
    <2>2. \A c \in Bufs : sctx'[c] = Nobody \/ (sctx'[c] = sctx[c] /\ sctx[c] # p)
      BY <1>3, <1>4, <2>1
    <2>3. /\ owner' \in [Bufs -> MgCallers \cup {Nobody}]
          /\ \A c \in Bufs : owner'[c] # p
          /\ \A q \in MgCallers \ {p} :
               real'[q] = real[q] /\ \A c \in Bufs : owner'[c] = q <=> owner[c] = q
      BY <1>3, <1>4, NobodyElse
    <2>4. y.pc \notin {"transmit", "wait", "clear"}
      BY <1>5 DEF Quiet
    <2>5. Moves(p, y)
      BY <1>4, <1>5, <2>2, <2>3, <2>4 DEF Moves
    <2> QED
      BY <1>1, <1>5, <2>5, Moved
  <1>9. MgTypeOK'
    <2>1. sctx' \in [Bufs -> MgCallers \cup {Nobody}] /\ owner' \in [Bufs -> MgCallers \cup {Nobody}]
      BY <1>3, <1>4
    <2>2. real' \in [MgCallers -> {"none", "success", "error"}]
      BY <1>3, <1>4
    <2> QED
      BY <1>1, <1>4, <1>8, <2>1, <2>2 DEF MgTypeOK
  <1>10. /\ Parts(Pooled, flight, ending, Held, LostBufs) /\ Apart /\ FramesOK /\ Reasons /\ Injects
    BY MgParts DEF MgInv
  <1>11. Held' = Held
    BY <1>3, <1>5, <1>8, <1>10, HeldMoves DEF Holds, Apart, At, Quiet
  <1>12. Apart'
    BY <1>5, <1>8, <1>10 DEF Apart, Holds, Quiet
  <1>13. Parts(Pooled, flight, ending, Held, LostBufs)' /\ Injects' /\ FramesOK' /\ Reasons'
    BY <1>4, <1>10, <1>11 DEF Parts, Injects, FramesOK, Reasons, Pooled, LostBufs
  <1> QED
    BY <1>8, <1>9, <1>12, <1>13, MgPartsNext DEF MgInv

\* Nothing to send, no memory to send it in, or a loop around the calls.
LEMMA NothingSentStep ==
  ASSUME MgInv, NEW p \in MgCallers,
         \/ call[p].pc \in Quiet /\ NotAllocated(p) /\ UNCHANGED <<gone, usb>>
         \/ /\ call[p].pc \in Quiet /\ call' = [call EXCEPT ![p] = Returned(p, TRUE)]
            /\ UNCHANGED <<gone, pools, usb, sctx>>
         \/ NoAgreement(p) \/ issue_ex(p) \/ delba_loop(p) \/ send_beacon(p)
         \/ \E op \in Looped : Start(p, op)
  PROVE  MgInv'
  <1>1. MgTypeOK /\ call[p] \in MgCall /\ call \in [MgCallers -> MgCall] /\ MgIdle \in MgCall /\ MgIdle.pc \in Quiet
    BY ReturnedOK DEF MgInv, MgTypeOK
  <1>2. SUFFICES \E y \in MgCall : /\ call[p].pc \in Quiet /\ y.pc \in Quiet
                                   /\ call' = [call EXCEPT ![p] = y] /\ UNCHANGED <<gone, pools, usb, sctx>>
    BY QuietStep
  <1>3. CASE call[p].pc \in Quiet /\ NotAllocated(p) /\ UNCHANGED <<gone, usb>>
    BY <1>1, <1>3, ReturnedOK DEF NotAllocated
  <1>4. CASE /\ call[p].pc \in Quiet /\ call' = [call EXCEPT ![p] = Returned(p, TRUE)]
             /\ UNCHANGED <<gone, pools, usb, sctx>>
    BY <1>1, <1>4, ReturnedOK
  <1>5. CASE NoAgreement(p)
    BY <1>1, <1>5 DEF NoAgreement, Begins, At, Quiet, Looped
  <1>6. CASE issue_ex(p) \/ delba_loop(p) \/ send_beacon(p)
    <2>1. PICK more \in BOOLEAN : Repeats(p, more)
      <3>1. CASE issue_ex(p)
        BY <3>1 DEF issue_ex
      <3>2. CASE delba_loop(p)
        BY <3>2 DEF delba_loop
      <3>3. CASE send_beacon(p)
        BY <3>3 DEF send_beacon
      <3> QED
        BY <1>6, <3>1, <3>2, <3>3
    <2>2. PICK z : z = [call[p] EXCEPT !.pc = "begin", !.i = call[p].i - 1, !.ret = FALSE]
      OBVIOUS
    <2>3. call[p].i > 1 => z \in MgCall /\ z.pc = "begin"
      <3>1. PICK k : k = call[p].i - 1
        OBVIOUS
      <3>2. call[p].i > 1 => k \in Nat
        BY <1>1, <3>1 DEF MgCall
      <3>3. z = [call[p] EXCEPT !.pc = "begin", !.i = k, !.ret = FALSE]
        BY <2>2, <3>1
      <3> QED
        BY <1>1, <3>2, <3>3 DEF MgCall
    <2>4. PICK y : y = IF more /\ call[p].i > 1 THEN z ELSE MgIdle
      OBVIOUS
    <2>5. y \in MgCall /\ y.pc \in Quiet
      BY <1>1, <2>3, <2>4 DEF Quiet
    <2>6. call' = [call EXCEPT ![p] = y] /\ call[p].pc \in Quiet /\ UNCHANGED <<gone, pools, usb, sctx>>
      BY <2>1, <2>2, <2>4 DEF Repeats, At, Quiet
    <2> QED
      BY <2>5, <2>6
  <1>7. CASE \E op \in Looped : Start(p, op)
    <2>1. PICK op \in Looped : Start(p, op)
      BY <1>7
    <2>2. PICK n \in Attempts(op) :
             call' = [call EXCEPT ![p] = [MgIdle EXCEPT !.pc = "begin", !.op = op, !.i = n]]
      BY <2>1 DEF Start
    <2>3. n \in Nat /\ op \in Ops
      BY <2>2, MgntAssumption DEF Attempts, Looped, Ops
    <2>4. PICK y : y = [MgIdle EXCEPT !.pc = "begin", !.op = op, !.i = n]
      OBVIOUS
    <2>5. y \in MgCall /\ y.pc \in Quiet
      BY <1>1, <2>3, <2>4 DEF MgCall, Quiet
    <2> QED
      BY <1>1, <2>1, <2>2, <2>4, <2>5 DEF Start, At, Quiet
  <1> QED
    BY <1>3, <1>4, <1>5, <1>6, <1>7

\* The functions that build frames.
LEMMA BuildStep ==
  ASSUME MgInv, NEW p \in MgCallers, Build(p)
  PROVE  MgInv'
  <1>1. \A op \in Ops : Begins(p, op) => call[p].pc \in Quiet
    BY DEF Begins, At, Quiet
  <1>2. /\ call[p].pc \in Quiet /\ UNCHANGED <<gone, usb>>
        /\ \/ Built(p) \/ NotAllocated(p) \/ NoCommonRate(p)
           \/ \E where \in {"beacon", "probersp"} : LostIn(p, where)
           \/ call' = [call EXCEPT ![p] = Returned(p, TRUE)] /\ UNCHANGED <<pools, sctx>>
    BY <1>1 DEF Build, Ops, issue_beacon, issue_probersp, _issue_probereq, issue_auth,
       issue_asocrsp, issue_assocreq, _issue_nulldata, _issue_qos_nulldata, _issue_deauth,
       issue_action_spct_ch_switch, issue_action_BA, issue_action_BSSCoexistPacket, send_delba, Simple
  <1>3. CASE NotAllocated(p)
    BY <1>2, <1>3, NothingSentStep
  <1>4. CASE call' = [call EXCEPT ![p] = Returned(p, TRUE)] /\ UNCHANGED <<pools, sctx>>
    BY <1>2, <1>4, NothingSentStep
  <1> QED
    BY <1>2, <1>3, <1>4, BuiltStep, NoCommonRateStep, LostInStep

\* The device goes, or nothing happens.
LEMMA UnchangedStep ==
  ASSUME MgInv, gone' \in BOOLEAN, gone => gone', UNCHANGED <<pools, usb, sctx, call>>
  PROVE  MgInv'
  <1>1. UNCHANGED <<freeBufs, freeFrames, lost, flight, ending, owner, real, sctx, call>>
    BY DEF pools, usb
  <1>2. MgTypeOK'
    BY <1>1 DEF MgInv, MgTypeOK
  <1>3. CallSound' /\ CtxBound'
    BY <1>1 DEF MgInv, CallSound, CtxBound, BoundTo, At
  <1>4. /\ Parts(Pooled, flight, ending, Held, LostBufs) /\ Apart /\ FramesOK /\ Reasons /\ Injects
    BY MgParts DEF MgInv
  <1>5. Held' = Held /\ Apart'
    BY <1>1, <1>4 DEF Held, Holds, Apart
  <1>6. Parts(Pooled, flight, ending, Held, LostBufs)' /\ Injects' /\ FramesOK'
    BY <1>1, <1>4, <1>5 DEF Parts, Injects, FramesOK, Pooled, LostBufs
  <1>7. Reasons'
    BY <1>1, <1>4 DEF Reasons
  <1> QED
    BY <1>2, <1>3, <1>5, <1>6, <1>7, MgPartsNext DEF MgInv

\* Every step preserves the invariant.
LEMMA MgStepKeeps == MgInv /\ [MgNext]_mgVars => MgInv'
  <1> SUFFICES ASSUME MgInv, [MgNext]_mgVars PROVE MgInv'
    OBVIOUS
  <1>1. ASSUME NEW p \in MgCallers, MgStep(p) PROVE MgInv'
    <2>1. \/ Build(p) \/ NoAgreement(p)
          \/ DumpStopped(p) \/ dump_mgntframe_and_wait(p) \/ dump_mgntframe(p)
          \/ _rtlw_usb_transmit(p) \/ (\E s \in {"deny", "error"} : SubmitRefused(p, s))
          \/ rtw_sctx_wait(p) \/ ClearSctx(p)
          \/ issue_ex(p) \/ delba_loop(p) \/ send_beacon(p)
      BY <1>1 DEF MgStep
    <2>2. CASE NoAgreement(p) \/ issue_ex(p) \/ delba_loop(p) \/ send_beacon(p)
      BY <2>2, NothingSentStep
    <2> QED
      BY <2>1, <2>2, BuildStep, DumpStoppedStep, DumpStep, TransmitStep, RefusedStep, WaitStep, ClearStep
  <1>2. ASSUME NEW p \in MgCallers, \E op \in Looped : Start(p, op) PROVE MgInv'
    BY <1>2, NothingSentStep
  <1>3. ASSUME MgDevice PROVE MgInv'
    BY <1>3, FreedStep, CompleteStep DEF MgDevice
  <1>4. ASSUME DeviceGone PROVE MgInv'
    BY <1>4, UnchangedStep DEF DeviceGone
  <1>5. ASSUME UNCHANGED mgVars PROVE MgInv'
    BY <1>5, UnchangedStep DEF mgVars, MgInv, MgTypeOK
  <1> QED
    BY <1>1, <1>2, <1>3, <1>4, <1>5 DEF MgNext

\* The invariant holds at first: the queue of the n buffers, in order, has all.
LEMMA MgStarts == MgInit => MgInv
  <1> SUFFICES ASSUME MgInit PROVE MgInv
    OBVIOUS
  <1>1. PICK n : n = Cardinality(Bufs)
    OBVIOUS
  <1>2. IsFiniteSet(Bufs) /\ n \in Nat /\ Bufs \in SUBSET Nat
    BY <1>1, MgntAssumption, FS_CardinalityType
  <1>3. PICK s \in [1 .. n -> Bufs] : (\A i, j \in DOMAIN s : i < j => s[i] < s[j]) /\ freeBufs = s
    BY <1>1 DEF MgInit
  <1>4. freeBufs \in Seq(Bufs) /\ DOMAIN freeBufs = 1 .. n
    BY <1>2, <1>3
  <1>5. ASSUME NEW i \in 1 .. n, NEW j \in 1 .. n, s[i] = s[j] PROVE i = j
    <2>1. DOMAIN s = 1 .. n /\ s[i] \in Nat /\ s[j] \in Nat
      BY <1>2, <1>3
    <2>2. ~ (i < j) /\ ~ (j < i)
      BY <1>3, <1>5, <2>1
    <2> QED
      BY <1>2, <2>2
  <1>6. Injects
    BY <1>3, <1>4, <1>5 DEF Injects
  <1>7. Pooled = Bufs
    <2>1. Pooled \in SUBSET Bufs /\ IsFiniteSet(Pooled)
      <3>1. Pooled \in SUBSET Bufs
        BY <1>3 DEF Pooled
      <3> QED
        BY <1>2, <3>1, FS_Subset
    <2>2. IsFiniteSet(1 .. n) /\ Cardinality(1 .. n) = n
      BY <1>2, FS_Interval
    <2>3. s \in Bijection(1 .. n, Pooled)
      <3>1. s \in [1 .. n -> Pooled]
        BY <1>3 DEF Pooled
      <3>2. s \in Injection(1 .. n, Pooled)
        BY <1>5, <3>1 DEF Injection, IsInjective
      <3>3. s \in Surjection(1 .. n, Pooled)
        BY <1>3, <3>1 DEF Surjection, Pooled
      <3> QED
        BY <3>2, <3>3 DEF Bijection
    <2>4. Cardinality(Pooled) = n
      BY <2>1, <2>2, <2>3, FS_Bijection DEF ExistsBijection
    <2> QED
      BY <1>1, <1>2, <2>1, <2>4, FS_Subset
  <1>8. /\ gone = FALSE /\ freeFrames = n /\ lost = {} /\ flight = {} /\ ending = {}
        /\ sctx = [b \in Bufs |-> Nobody] /\ owner = [b \in Bufs |-> Nobody]
        /\ call = [p \in MgCallers |-> MgIdle] /\ real = [p \in MgCallers |-> "none"]
    BY <1>1 DEF MgInit
  <1>9. MgIdle \in MgCall /\ MgIdle.pc = "idle"
    BY DEF MgIdle, MgCall
  <1>10. MgTypeOK
    <2>1. IsFiniteSet(lost)
      BY <1>8, FS_EmptySet
    <2>2. call \in [MgCallers -> MgCall]
      BY <1>8, <1>9
    <2>3. sctx \in [Bufs -> MgCallers \cup {Nobody}] /\ owner \in [Bufs -> MgCallers \cup {Nobody}]
      BY <1>8
    <2>4. real \in [MgCallers -> {"none", "success", "error"}]
      BY <1>8
    <2>5. gone \in BOOLEAN /\ freeFrames \in Int /\ flight \in SUBSET Bufs /\ ending \in SUBSET Bufs
      <3>1. freeFrames \in Int
        BY <1>2, <1>8
      <3>2. gone \in BOOLEAN
        BY <1>8
      <3> QED
        BY <1>8, <3>1, <3>2
    <2>6. lost \in SUBSET (Bufs \X Wheres)
      BY <1>8
    <2> QED
      BY <1>4, <2>1, <2>2, <2>3, <2>4, <2>5, <2>6 DEF MgTypeOK
  <1>11. \A p \in MgCallers : call[p].pc = "idle"
    BY <1>8, <1>9
  <1>12. CallSound /\ CtxBound
    <2>1. CallSound
      BY <1>11 DEF CallSound, At, Quiet
    <2>2. CtxBound
      BY <1>8 DEF CtxBound
    <2> QED
      BY <2>1, <2>2
  <1>13. Held = {} /\ LostBufs = {} /\ Apart /\ Reasons
    BY <1>8, <1>11 DEF Held, Holds, LostBufs, Apart, Reasons
  <1>14. Parts(Pooled, flight, ending, Held, LostBufs)
    BY <1>7, <1>8, <1>13 DEF Parts
  <1>15. FramesOK
    <2>1. Cardinality(Held) = 0 /\ Cardinality(lost) = 0
      BY <1>8, <1>13, FS_EmptySet
    <2> QED
      BY <1>1, <1>2, <1>8, <2>1 DEF FramesOK
  <1> QED
    BY <1>6, <1>10, <1>12, <1>13, <1>14, <1>15, MgParts DEF MgInv

\* The inductive invariant is an invariant.
LEMMA MgInvariant == MgSpec => []MgInv
  BY MgStarts, MgStepKeeps, PTL DEF MgSpec

\* Every extension buffer and frame is in its pool once, with one caller, with
\* the USB core or its completion handler, or was left behind by an oversized
\* beacon or probe response or a stopped driver: for any number of buffers,
\* whichever callers call whichever of the issue functions.
THEOREM BuffersAccounted == MgSpec => []BufsAccounted
  <1>1. MgInv => BufsAccounted
    BY DEF MgInv
  <1> QED
    BY <1>1, MgInvariant, PTL

\* No buffer points to a submit context whose dump_mgntframe_and_wait has
\* returned, and rtw_sctx_wait reports success only when the URB of that very
\* frame ended so.
THEOREM ContextsSound == MgSpec => []ContextSound
  <1>1. MgInv => ContextSound
    <2> SUFFICES ASSUME MgInv PROVE ContextSound
      OBVIOUS
    <2>1. NoDangling
      BY DEF MgInv, CtxBound, BoundTo, NoDangling, At
    <2>2. ToldTrue
      BY DEF MgInv, CallSound, ToldTrue
    <2> QED
      BY <2>1, <2>2 DEF ContextSound
  <1> QED
    BY <1>1, MgInvariant, PTL
=============================================================================
