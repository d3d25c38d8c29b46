--------------------------- MODULE ApAssocProofs ---------------------------
(***************************************************************************)
(* Proofs about ApAssoc, for any number of station objects, addresses,     *)
(* slots and setups: the table of stations, and what the BSS tells about   *)
(* the abilities its stations lack.                                        *)
(*                                                                         *)
(* StationsSound is not inductive. That an associated station passed the   *)
(* exchange needs the same of every station with a state flag, and that a  *)
(* challenge was sent to every station that waits for its answer.          *)
(* AbilitiesTold needs the ERP bit to follow the counter and not the       *)
(* stations: the counter may stay above their number for ever (a station   *)
(* is freed from auth_list with its flags still counted), and the bit must *)
(* then stay too. ApInv states all of this together, and that the objects  *)
(* given back are zeroed (FreeBlank), which the two properties do not need.*)
(***************************************************************************)
EXTENDS ApAssoc, FiniteSetTheorems, WellFoundedInduction, TLAPS

\* A station object.
StaRec ==
    [addr : ApAddrs \cup {NoAddr}, st : SUBSET {"authok", "asocok"}, seq : {0, 2}, aid : Nat,
     set : SUBSET Caps, rts : BOOLEAN]

\* The types of the variables.
ApTypeOK ==
    /\ sta \in [Objs -> StaRec]
    /\ authL \in SUBSET Objs /\ asocL \in SUBSET Objs
    /\ apCnt \in [auth : Int, asoc : Int, sta : Int]
    /\ num \in [Caps -> Int]
    /\ erp \in [on : BOOLEAN, start : BOOLEAN, bits : SUBSET {"erp", "pre"}]
    /\ truth \in [asked : SUBSET ApAddrs, passed : SUBSET ApAddrs, calls : Nat,
                  replaced : BOOLEAN]

\* Every allocated station is on exactly one of the two lists.
Listed == authL \cup asocL = Allocated /\ authL \cap asocL = {}

\* The three counters.
Counted ==
    apCnt = [auth |-> Cardinality(authL), asoc |-> Cardinality(asocL),
             sta |-> Cardinality(Allocated)]

\* An address has one station.
OnePer == \A o, p \in Allocated : sta[o].addr = sta[p].addr => o = p

\* An object without an address is as rtw_alloc_stainfo wants it.
FreeBlank == \A o \in Objs \ Allocated : sta[o] = Blank

\* A station that waits for an answer was challenged; one that has a state flag
\* or is associated passed the exchange.
PassedOK ==
    \A o \in Allocated :
        /\ sta[o].seq = 2 => sta[o].addr \in truth.asked
        /\ sta[o].st # {} \/ o \in asocL => sta[o].addr \in truth.passed

\* The stations counted for a missing ability, and their counter.
Lacking(c) == {o \in Allocated : c \in sta[o].set}
NumCovers == \A c \in Caps : num[c] >= Cardinality(Lacking(c))

\* Until the daemon replaces the beacon, the ERP bit is on while the counter is
\* not zero, and every associated station follows the bit.
Protects ==
    erp.on /\ erp.start /\ ~ truth.replaced =>
        /\ num["erp"] > 0 => "erp" \in erp.bits
        /\ "erp" \in erp.bits => \A o \in asocL : sta[o].rts

\* The inductive invariant; rtw_free_all_stainfo ends all but the types.
ApInv ==
    /\ ApTypeOK
    /\ apOn # "off" => /\ Listed /\ Counted /\ OnePer /\ FreeBlank /\ PassedOK
                       /\ NumCovers /\ Protects

\* What it says while the access point is up.
Sound == Listed /\ Counted /\ OnePer /\ FreeBlank /\ PassedOK /\ NumCovers /\ Protects
-----------------------------------------------------------------------------
\* Sets of station objects are finite.
LEMMA ObjsFinite ==
  ASSUME NEW S \in SUBSET Objs
  PROVE  IsFiniteSet(S) /\ Cardinality(S) \in Nat
  <1>1. IsFiniteSet(Objs)
    BY ApAssocAssumption
  <1> QED
    BY <1>1, FS_Subset, FS_CardinalityType

\* One object joins a list: its length.
LEMMA PutIn ==
  ASSUME NEW S \in SUBSET Objs, NEW o \in Objs
  PROVE  Cardinality(S \cup {o}) = Cardinality(S) + (IF o \in S THEN 0 ELSE 1)
  <1>1. IsFiniteSet(S) /\ Cardinality(S) \in Nat
    BY ObjsFinite
  <1>2. CASE o \in S
    <2>1. S \cup {o} = S
      BY <1>2
    <2> QED
      BY <2>1, <1>2, <1>1
  <1>3. CASE o \notin S
    BY <1>1, <1>3, FS_AddElement
  <1> QED
    BY <1>2, <1>3

\* One object leaves a list: its length.
LEMMA TakeOut ==
  ASSUME NEW S \in SUBSET Objs, NEW o \in Objs
  PROVE  Cardinality(S \ {o}) = Cardinality(S) - (IF o \in S THEN 1 ELSE 0)
  <1>1. IsFiniteSet(S) /\ Cardinality(S) \in Nat
    BY ObjsFinite
  <1>2. CASE o \notin S
    <2>1. S \ {o} = S
      BY <1>2
    <2> QED
      BY <2>1, <1>2, <1>1
  <1>3. CASE o \in S
    BY <1>1, <1>3, FS_RemoveElement
  <1> QED
    BY <1>2, <1>3

\* Several objects leave a list: its length.
LEMMA TakeAllOut ==
  ASSUME NEW S \in SUBSET Objs, NEW out \in SUBSET Objs
  PROVE  Cardinality(S \ out) = Cardinality(S) - Cardinality(out \cap S)
  <1>1. IsFiniteSet(S) /\ IsFiniteSet(out) /\ Cardinality(S) \in Nat
    BY ObjsFinite
  <1>2. S \cap out = out \cap S
    OBVIOUS
  <1> QED
    BY <1>1, <1>2, FS_Difference

\* A smaller list is not longer.
LEMMA FewerThan ==
  ASSUME NEW S \in SUBSET Objs, NEW T \in SUBSET S
  PROVE  Cardinality(T) <= Cardinality(S)
  <1>1. IsFiniteSet(S)
    BY ObjsFinite
  <1> QED
    BY <1>1, FS_Subset

\* A set of numbers that is not empty has a least one.
LEMMA LeastObj ==
  ASSUME NEW T \in SUBSET Nat, T # {}
  PROVE  \E k \in T : \A j \in T : k <= j
  <1>1. \E k \in T : \A j \in T : ~ (<<j, k>> \in OpToRel(<, Nat))
    BY NatLessThanWellFounded, WFMin
  <1>2. PICK k \in T : \A j \in T : ~ (j < k)
    BY <1>1 DEF OpToRel
  <1>3. \A j \in T : k <= j
    BY <1>2
  <1> QED
    BY <1>3

\* rtw_alloc_stainfo finds a free object when there is one.
LEMMA FirstFree ==
  ASSUME Free # {}
  PROVE  (CHOOSE x \in Free : \A y \in Free : x <= y) \in Free
  <1>1. Free \subseteq Nat
    BY ApAssocAssumption DEF Free
  <1>2. \E x \in Free : \A y \in Free : x <= y
    BY <1>1, LeastObj
  <1> QED
    BY <1>2

\* The search for a free slot of sta_aid ends with a number.
LEMMA FreeAidNat == FreeAid \in Nat
  <1> DEFINE T == {i \in 1 .. Slots : staAid[i] = NoSta}
  <1>0. Slots \in Nat
    BY ApAssocAssumption
  <1>1. CASE T # {}
    <2>1. PICK k \in T : \A j \in T : k <= j
      <3>1. T \in SUBSET Nat
        BY <1>0
      <3> QED
        BY <1>1, <3>1, LeastObj
    <2>2. staAid[k] = NoSta /\ \A j \in 1 .. k - 1 : staAid[j] # NoSta
      <3> SUFFICES ASSUME NEW j \in 1 .. k - 1, staAid[j] = NoSta PROVE FALSE
        OBVIOUS
      <3>1. j \in T /\ j < k
        BY <1>0
      <3> QED
        BY <3>1, <2>1, <1>0
    <2> QED
      BY <2>2, <1>0 DEF FreeAid
  <1>2. CASE T = {}
    BY <1>2, <1>0 DEF FreeAid
  <1> QED
    BY <1>1, <1>2
-----------------------------------------------------------------------------
\* Two states of a station that the table does not tell apart.
Same(s, t) == s.addr = t.addr /\ s.st = t.st /\ s.seq = t.seq /\ s.set = t.set

\* rtw_free_stainfo, for the stations out that also leave asoc_list: the lists,
\* the counters and the table stay sound.
LEMMA FreeKeeps ==
  ASSUME ApTypeOK, Sound, NEW out \in SUBSET Allocated, rtw_free_stainfo(out),
         asocL' = asocL \ out, sta' \in [Objs -> StaRec],
         \A o \in out : sta'[o] = Blank,
         \A o \in Objs \ out : Same(sta'[o], sta[o]),
         \A o \in Free : sta'[o] = sta[o],
         apCnt' = [auth |-> apCnt.auth - Cardinality(out \cap authL),
                   asoc |-> apCnt.asoc - Cardinality(out \cap asocL),
                   sta |-> apCnt.sta - Cardinality(out)]
  PROVE  /\ Listed' /\ Counted' /\ OnePer' /\ FreeBlank' /\ PassedOK'
         /\ Allocated' = Allocated \ out
         /\ \A c \in Caps : Lacking(c)' = Lacking(c) \ out
         /\ authL' \in SUBSET Objs /\ asocL' \in SUBSET Objs
         /\ apCnt' \in [auth : Int, asoc : Int, sta : Int]
         /\ truth' \in [asked : SUBSET ApAddrs, passed : SUBSET ApAddrs, calls : Nat,
                        replaced : BOOLEAN]
         /\ truth'.replaced = truth.replaced
  <1>0. Blank.addr = NoAddr /\ Allocated \subseteq Objs
    BY DEF Blank, Allocated
  <1>1. Allocated' = Allocated \ out
    BY <1>0 DEF Allocated, Same
  <1>2. Listed'
    BY <1>1 DEF Listed, Sound, rtw_free_stainfo
  <1>3. authL' = authL \ out /\ authL' \in SUBSET Objs /\ asocL' \in SUBSET Objs
    BY DEF ApTypeOK, rtw_free_stainfo
  <1>4. /\ Cardinality(authL') = Cardinality(authL) - Cardinality(out \cap authL)
        /\ Cardinality(asocL') = Cardinality(asocL) - Cardinality(out \cap asocL)
        /\ Cardinality(Allocated') = Cardinality(Allocated) - Cardinality(out)
    <2>1. out \cap Allocated = out
      OBVIOUS
    <2>2. authL \in SUBSET Objs /\ asocL \in SUBSET Objs /\ out \in SUBSET Objs
      BY <1>0 DEF ApTypeOK
    <2> QED
      BY <1>0, <1>1, <1>3, <2>1, <2>2, TakeAllOut
  <1>5. Counted'
    BY <1>4 DEF Counted, Sound
  <1>6. OnePer'
    BY <1>0, <1>1 DEF OnePer, Sound, Same
  <1>7. FreeBlank'
    <2> SUFFICES ASSUME NEW o \in Objs \ Allocated' PROVE sta'[o] = Blank
      BY DEF FreeBlank
    <2> QED
      BY <1>1 DEF FreeBlank, Sound, Free
  <1>8. /\ truth' \in [asked : SUBSET ApAddrs, passed : SUBSET ApAddrs, calls : Nat,
                       replaced : BOOLEAN]
        /\ truth'.replaced = truth.replaced
        /\ truth'.asked = truth.asked \ {sta[o].addr : o \in out}
        /\ truth'.passed = truth.passed \ {sta[o].addr : o \in out}
    BY DEF ApTypeOK, rtw_free_stainfo
  <1>9. PassedOK'
    <2> SUFFICES ASSUME NEW o \in Allocated'
                 PROVE  /\ sta'[o].seq = 2 => sta'[o].addr \in truth'.asked
                        /\ sta'[o].st # {} \/ o \in asocL' => sta'[o].addr \in truth'.passed
      BY DEF PassedOK
    <2>1. o \in Allocated /\ o \notin out /\ Same(sta'[o], sta[o])
      BY <1>0, <1>1
    <2>2. sta[o].addr \notin {sta[p].addr : p \in out}
      BY <2>1 DEF Sound, OnePer
    <2> QED
      BY <2>1, <2>2, <1>8 DEF Sound, PassedOK, Same
  <1>10. ASSUME NEW c \in Caps PROVE Lacking(c)' = Lacking(c) \ out
    BY <1>0, <1>1 DEF Lacking, Same
  <1>11. apCnt' \in [auth : Int, asoc : Int, sta : Int]
    <2>1. out \cap authL \in SUBSET Objs /\ out \cap asocL \in SUBSET Objs /\ out \in SUBSET Objs
      BY <1>0
    <2>2. /\ Cardinality(out \cap authL) \in Nat /\ Cardinality(out \cap asocL) \in Nat
          /\ Cardinality(out) \in Nat
      BY <2>1, ObjsFinite
    <2> QED
      BY <2>2 DEF ApTypeOK
  <1> QED
    BY <1>1, <1>2, <1>3, <1>5, <1>6, <1>7, <1>8, <1>9, <1>10, <1>11

\* The zeroed object.
LEMMA BlankType ==
  /\ Blank \in StaRec /\ Blank.addr = NoAddr
  /\ Blank.set = {} /\ Blank.st = {} /\ Blank.seq = 0
  BY DEF Blank, StaRec, Caps

\* How much one object counts in a list.
LEMMA OneCard ==
  ASSUME NEW o \in Objs, NEW S \in SUBSET Objs
  PROVE  Cardinality({o} \cap S) = IF o \in S THEN 1 ELSE 0
  <1>1. CASE o \in S
    <2>1. {o} \cap S = {o}
      BY <1>1
    <2> QED
      BY <1>1, <2>1, FS_Singleton
  <1>2. CASE o \notin S
    <2>1. {o} \cap S = {}
      BY <1>2
    <2> QED
      BY <1>2, <2>1, FS_EmptySet
  <1> QED
    BY <1>1, <1>2
-----------------------------------------------------------------------------
\* The history variable.
TruthType ==
    [asked : SUBSET ApAddrs, passed : SUBSET ApAddrs, calls : Nat, replaced : BOOLEAN]

\* OnAuth, accepted, keeps the invariant: a flag of success is set only when the
\* exchange is over, and the station moves from asoc_list to auth_list.
LEMMA AuthStep ==
  ASSUME ApInv, NEW a \in ApAddrs, NEW alg \in 0 .. 1, NEW q \in {1, 3}, NEW proof \in BOOLEAN,
         OnAuth(a, alg, q, proof)
  PROVE  ApInv'
  <1>0. apOn # "off" /\ apOn' = apOn /\ Sound /\ ApTypeOK
    BY DEF OnAuth, ApInv, Sound
  <1>1. ~ AuthRefused(a, alg)
    BY DEF OnAuth
  <1>2. PICK o \in Objs :
           /\ IF rtw_get_stainfo(a) # {} THEN sta[o].addr = a
              ELSE o = CHOOSE x \in Free : \A y \in Free : x <= y
           /\ AuthOk(OnAuthList(a, o), alg, q, proof)
           /\ sta' = [sta EXCEPT ![o] = Authed(OnAuthList(a, o), alg, q)]
           /\ asocL' = OffAsoc(o) /\ authL' = authL \union {o}
           /\ apCnt' = [sta |-> IF o \in Allocated THEN apCnt.sta ELSE apCnt.sta + 1,
                        auth |-> IF o \in authL THEN apCnt.auth ELSE apCnt.auth + 1,
                        asoc |-> IF o \in asocL THEN apCnt.asoc - 1 ELSE apCnt.asoc]
    BY DEF OnAuth
  <1> DEFINE s == OnAuthList(a, o)
             t == Authed(s, alg, q)
  <1>3. NoAddr \notin ApAddrs
    BY ApAssocAssumption
  <1>4. \/ o \in Allocated /\ sta[o].addr = a
        \/ o \notin Allocated /\ \A p \in Allocated : sta[p].addr # a
    <2>1. CASE rtw_get_stainfo(a) # {}
      BY <1>2, <1>3, <2>1 DEF Allocated
    <2>2. CASE rtw_get_stainfo(a) = {}
      <3>1. Free # {}
        BY <1>1, <2>2 DEF AuthRefused
      <3>2. o \in Free
        BY <3>1, <1>2, <2>2, FirstFree
      <3> QED
        BY <3>2, <2>2 DEF Free, rtw_get_stainfo, Allocated
    <2> QED
      BY <2>1, <2>2
  <1>5. /\ s \in StaRec /\ s.addr = a
        /\ o \in Allocated => s = sta[o]
        /\ o \notin Allocated => s.set = {} /\ s.st = {} /\ s.seq = 0
    <2>1. CASE o \in Allocated
      BY <2>1, <1>0, <1>4 DEF OnAuthList, ApTypeOK
    <2>2. CASE o \notin Allocated
      BY <2>2, BlankType DEF OnAuthList, rtw_alloc_stainfo, StaRec, Blank
    <2> QED
      BY <2>1, <2>2
  <1>6. /\ t \in StaRec /\ t.addr = a /\ t.set = s.set /\ t.rts = s.rts
        /\ t.seq = 2 => alg = 1 /\ q = 1
        /\ t.st # {} => s.st # {} \/ alg = 0 \/ (q = 3 /\ proof /\ s.seq = 2)
    <2>1. s.seq + 1 = q /\ (alg = 0 => q = 1) /\ (alg # 0 => q = 1 \/ (q = 3 /\ proof))
      BY <1>2 DEF AuthOk
    <2> DEFINE st == IF alg = 0 \/ q = 3 THEN s.st \cup {"authok"} ELSE s.st
               sq == IF "authok" \in st THEN 0 ELSE q + 1
    <2>2. t = [s EXCEPT !.st = st, !.seq = sq]
      BY DEF Authed
    <2>3. s.st \in SUBSET {"authok", "asocok"} /\ s.seq \in {0, 2}
      BY <1>5 DEF StaRec
    <2>4. st \in SUBSET {"authok", "asocok"}
      BY <2>3
    <2>5. (sq = 0 \/ (alg = 1 /\ q = 1 /\ sq = 2))
      BY <2>1
    <2>6. st # {} => s.st # {} \/ alg = 0 \/ (q = 3 /\ proof /\ s.seq = 2)
      BY <2>1, <2>3
    <2> HIDE DEF s, st, sq
    <2>7. t.addr = s.addr /\ t.set = s.set /\ t.rts = s.rts /\ t.seq = sq /\ t.st = st /\ t \in StaRec
      BY <1>5, <2>2, <2>4, <2>5 DEF StaRec
    <2> QED
      BY <1>5, <2>5, <2>6, <2>7
  <1> HIDE DEF s, t
  <1>7. sta' = [sta EXCEPT ![o] = t] /\ asocL' = asocL \ {o} /\ authL' = authL \cup {o}
    BY <1>2 DEF s, t, OffAsoc
  <1>8. sta \in [Objs -> StaRec] /\ sta' \in [Objs -> StaRec] /\ sta'[o] = t
        /\ \A p \in Objs \ {o} : sta'[p] = sta[p]
    BY <1>0, <1>6, <1>7 DEF ApTypeOK
  <1>9. Allocated' = Allocated \cup {o} /\ Allocated \subseteq Objs
    BY <1>6, <1>8, <1>3 DEF Allocated
  <1>10. Listed'
    BY <1>0, <1>7, <1>9 DEF Sound, Listed
  <1>11. /\ authL \in SUBSET Objs /\ asocL \in SUBSET Objs
         /\ authL' \in SUBSET Objs /\ asocL' \in SUBSET Objs
    BY <1>0, <1>7 DEF ApTypeOK
  <1>12. Counted'
    <2>1. /\ Cardinality(authL') = Cardinality(authL) + (IF o \in authL THEN 0 ELSE 1)
          /\ Cardinality(asocL') = Cardinality(asocL) - (IF o \in asocL THEN 1 ELSE 0)
          /\ Cardinality(Allocated') = Cardinality(Allocated) + (IF o \in Allocated THEN 0 ELSE 1)
      BY <1>7, <1>9, <1>11, PutIn, TakeOut
    <2>2. Cardinality(authL) \in Nat /\ Cardinality(asocL) \in Nat /\ Cardinality(Allocated) \in Nat
      BY <1>9, <1>11, ObjsFinite
    <2>3. apCnt = [auth |-> Cardinality(authL), asoc |-> Cardinality(asocL),
                   sta |-> Cardinality(Allocated)]
      BY <1>0 DEF Sound, Counted
    <2> QED
      BY <1>2, <2>1, <2>2, <2>3 DEF Counted
  <1>13. OnePer'
    BY <1>0, <1>4, <1>6, <1>8, <1>9 DEF Sound, OnePer
  <1>14. FreeBlank'
    BY <1>0, <1>8, <1>9 DEF Sound, FreeBlank
  <1>15. /\ truth' \in TruthType /\ truth'.replaced = truth.replaced
         /\ truth.asked \subseteq truth'.asked /\ truth.passed \subseteq truth'.passed
         /\ alg = 1 /\ q = 1 => a \in truth'.asked
         /\ alg = 0 => a \in truth'.passed
         /\ q = 3 /\ proof /\ a \in truth.asked => a \in truth'.passed
    <2>1. alg = 0 => AuthMode # 1
      BY <1>1 DEF AuthRefused, BadAlg
    <2>2. truth \in TruthType
      BY <1>0 DEF ApTypeOK, TruthType
    <2>3. truth' = [truth EXCEPT
            !.asked = IF alg > 0 /\ q = 1 THEN @ \union {a} ELSE @,
            !.passed = IF \/ alg = 0 /\ AuthMode # 1
                          \/ q = 3 /\ proof /\ a \in truth.asked
                       THEN @ \union {a} ELSE @]
      BY DEF OnAuth
    <2> DEFINE asked == IF alg > 0 /\ q = 1 THEN truth.asked \cup {a} ELSE truth.asked
               passed == IF \/ alg = 0 /\ AuthMode # 1
                            \/ q = 3 /\ proof /\ a \in truth.asked
                         THEN truth.passed \cup {a} ELSE truth.passed
    <2>4. truth' = [truth EXCEPT !.asked = asked, !.passed = passed]
      BY <2>3
    <2>5. truth.asked \in SUBSET ApAddrs /\ truth.passed \in SUBSET ApAddrs
      BY <2>2 DEF TruthType
    <2>6. /\ asked \in SUBSET ApAddrs /\ truth.asked \subseteq asked
          /\ alg = 1 /\ q = 1 => a \in asked
      BY <2>5
    <2>7. /\ passed \in SUBSET ApAddrs /\ truth.passed \subseteq passed
          /\ alg = 0 => a \in passed
          /\ q = 3 /\ proof /\ a \in truth.asked => a \in passed
      BY <2>1, <2>5
    <2> HIDE DEF asked, passed
    <2>8. /\ truth' \in TruthType /\ truth'.replaced = truth.replaced
          /\ truth'.asked = asked /\ truth'.passed = passed
      BY <2>2, <2>4, <2>6, <2>7 DEF TruthType
    <2> QED
      BY <2>6, <2>7, <2>8
  <1>16. PassedOK'
    <2> SUFFICES ASSUME NEW p \in Allocated'
                 PROVE  /\ sta'[p].seq = 2 => sta'[p].addr \in truth'.asked
                        /\ sta'[p].st # {} \/ p \in asocL' => sta'[p].addr \in truth'.passed
      BY DEF PassedOK
    <2>1. CASE p # o
      <3>1. p \in Allocated /\ sta'[p] = sta[p]
        BY <2>1, <1>8, <1>9
      <3> QED
        BY <3>1, <1>0, <1>7, <1>15 DEF Sound, PassedOK
    <2>2. CASE p = o
      <3>1. o \in Allocated => /\ s.seq = 2 => a \in truth.asked
                               /\ s.st # {} => a \in truth.passed
        BY <1>0, <1>5 DEF Sound, PassedOK
      <3>2. s.seq = 2 => a \in truth.asked
        BY <3>1, <1>5
      <3>3. s.st # {} => a \in truth.passed
        BY <3>1, <1>5
      <3> QED
        BY <2>2, <3>2, <3>3, <1>6, <1>7, <1>8, <1>15
    <2> QED
      BY <2>1, <2>2
  <1>17. UNCHANGED <<num, erp>>
    BY DEF OnAuth
  <1>18. ASSUME NEW c \in Caps PROVE Lacking(c)' = Lacking(c)
    BY <1>4, <1>5, <1>6, <1>8, <1>9 DEF Lacking
  <1>19. NumCovers'
    BY <1>0, <1>17, <1>18 DEF Sound, NumCovers
  <1>20. Protects'
    BY <1>0, <1>7, <1>8, <1>11, <1>15, <1>17 DEF Sound, Protects
  <1>21. ApTypeOK'
    <2>1. apCnt' \in [auth : Int, asoc : Int, sta : Int]
      BY <1>0, <1>2 DEF ApTypeOK
    <2> QED
      BY <1>0, <1>8, <1>11, <1>15, <1>17, <2>1 DEF ApTypeOK, TruthType
  <1> QED
    BY <1>10, <1>12, <1>13, <1>14, <1>16, <1>19, <1>20, <1>21 DEF ApInv

\* The table after some objects were zeroed.
LEMMA WithoutFacts ==
  ASSUME sta \in [Objs -> StaRec], NEW out \in SUBSET Objs
  PROVE  /\ Without(sta, out) \in [Objs -> StaRec]
         /\ \A o \in out : Without(sta, out)[o] = Blank
         /\ \A o \in Objs \ out : Without(sta, out)[o] = sta[o]
  BY BlankType DEF Without

\* Stations freed without bss_cap_update_on_sta_leave.
LEMMA ForgetStep ==
  ASSUME ApInv, apOn # "off", NEW out \in SUBSET Allocated, rtw_free_stainfo(out),
         sta' = Without(sta, out), asocL' = asocL \ out,
         apCnt' = [auth |-> apCnt.auth - Cardinality(out \cap authL),
                   asoc |-> apCnt.asoc - Cardinality(out \cap asocL),
                   sta |-> apCnt.sta - Cardinality(out)],
         UNCHANGED <<num, erp, apOn>>
  PROVE  ApInv'
  <1>0. Sound /\ ApTypeOK /\ sta \in [Objs -> StaRec] /\ out \in SUBSET Objs
    BY DEF ApInv, Sound, Allocated, ApTypeOK
  <1>1. /\ sta' \in [Objs -> StaRec]
        /\ \A o \in out : sta'[o] = Blank
        /\ \A o \in Objs \ out : sta'[o] = sta[o]
    BY <1>0, WithoutFacts
  <1>2. /\ \A o \in Objs \ out : Same(sta'[o], sta[o])
        /\ \A o \in Free : sta'[o] = sta[o]
    BY <1>1 DEF Same, Free
  <1>3. /\ Listed' /\ Counted' /\ OnePer' /\ FreeBlank' /\ PassedOK'
        /\ Allocated' = Allocated \ out
        /\ \A c \in Caps : Lacking(c)' = Lacking(c) \ out
        /\ authL' \in SUBSET Objs /\ asocL' \in SUBSET Objs
        /\ apCnt' \in [auth : Int, asoc : Int, sta : Int]
        /\ truth' \in TruthType /\ truth'.replaced = truth.replaced
    BY <1>0, <1>1, <1>2, FreeKeeps DEF TruthType
  <1>4. NumCovers'
    <2> SUFFICES ASSUME NEW c \in Caps PROVE num'[c] >= Cardinality(Lacking(c)')
      BY DEF NumCovers
    <2>1. Lacking(c) \in SUBSET Objs /\ Lacking(c)' \in SUBSET Lacking(c)
      BY <1>3 DEF Lacking, Allocated
    <2>2. Cardinality(Lacking(c)') <= Cardinality(Lacking(c)) /\ Cardinality(Lacking(c)) \in Nat
          /\ Cardinality(Lacking(c)') \in Nat
      BY <2>1, FewerThan, ObjsFinite
    <2>3. num[c] >= Cardinality(Lacking(c)) /\ num[c] \in Int
      BY <1>0 DEF Sound, NumCovers, ApTypeOK
    <2> QED
      BY <2>2, <2>3
  <1>5. Protects'
    BY <1>0, <1>1, <1>3 DEF Sound, Protects, ApTypeOK
  <1>6. ApTypeOK'
    BY <1>0, <1>1, <1>3 DEF ApTypeOK, TruthType
  <1> QED
    BY <1>3, <1>4, <1>5, <1>6 DEF ApInv

\* The counters after rtw_free_stainfo.
LEMMA CntRecord ==
  ASSUME ApTypeOK, NEW out \in SUBSET Objs
  PROVE  /\ CntFreed(apCnt, out) = [auth |-> apCnt.auth - Cardinality(out \cap authL),
                                    asoc |-> apCnt.asoc,
                                    sta |-> apCnt.sta - Cardinality(out)]
         /\ apCnt.asoc \in Int
  <1> DEFINE x == Cardinality(out)
             y == Cardinality(out \cap authL)
  <1>1. CntFreed(apCnt, out) = [apCnt EXCEPT !.sta = @ - x, !.auth = @ - y]
    BY DEF CntFreed
  <1>2. apCnt \in [auth : Int, asoc : Int, sta : Int]
    BY DEF ApTypeOK
  <1>3. x \in Nat /\ y \in Nat
    BY ObjsFinite DEF ApTypeOK
  <1> HIDE DEF x, y
  <1>4. [apCnt EXCEPT !.sta = @ - x, !.auth = @ - y]
          = [auth |-> apCnt.auth - y, asoc |-> apCnt.asoc, sta |-> apCnt.sta - x]
    <2> DEFINE r == [apCnt EXCEPT !.sta = @ - x, !.auth = @ - y]
    <2>1. apCnt.auth - y \in Int /\ apCnt.sta - x \in Int
      BY <1>2, <1>3
    <2>2. r.auth = apCnt.auth - y /\ r.asoc = apCnt.asoc /\ r.sta = apCnt.sta - x
      BY <1>2
    <2>3. r \in [auth : Int, asoc : Int, sta : Int]
      BY <1>2, <2>1
    <2>4. r = [auth |-> r.auth, asoc |-> r.asoc, sta |-> r.sta]
      <3> HIDE DEF r
      <3> QED
        BY <2>3
    <2> QED
      BY <2>2, <2>4
  <1> QED
    BY <1>1, <1>2, <1>4 DEF x, y

\* OnAuth, refused, keeps the invariant: the station is freed.
LEMMA AuthFailStep ==
  ASSUME ApInv, NEW a \in ApAddrs, NEW alg, NEW q, NEW proof, OnAuthFail(a, alg, q, proof)
  PROVE  ApInv'
  <1>1. CASE UNCHANGED apVars
    BY <1>1 DEF apVars, ApInv, ApTypeOK, Listed, Counted, OnePer, FreeBlank, PassedOK,
                Lacking, NumCovers, Protects, Allocated
  <1>2. ASSUME ~ UNCHANGED apVars PROVE ApInv'
    <2>1. PICK o \in rtw_get_stainfo(a) :
              /\ rtw_free_stainfo({o})
              /\ sta' = Without(sta, {o}) /\ asocL' = OffAsoc(o)
              /\ apCnt' = [CntFreed(apCnt, {o}) EXCEPT
                             !.asoc = IF o \in asocL THEN @ - 1 ELSE @]
              /\ UNCHANGED <<cfg, acl, num, erp, htOp, apOn>>
      BY <1>2 DEF OnAuthFail
    <2>2. o \in Objs /\ o \in Allocated /\ apOn # "off" /\ ApTypeOK
      BY <2>1, ApAssocAssumption DEF rtw_get_stainfo, Allocated, OnAuthFail, ApInv
    <2>3. apCnt' = [auth |-> apCnt.auth - Cardinality({o} \cap authL),
                    asoc |-> apCnt.asoc - Cardinality({o} \cap asocL),
                    sta |-> apCnt.sta - Cardinality({o})]
      <3>1. Cardinality({o} \cap asocL) = IF o \in asocL THEN 1 ELSE 0
        BY <2>2, OneCard DEF ApTypeOK
      <3>2. CntFreed(apCnt, {o}) = [auth |-> apCnt.auth - Cardinality({o} \cap authL),
                                    asoc |-> apCnt.asoc,
                                    sta |-> apCnt.sta - Cardinality({o})]
            /\ apCnt.asoc \in Int
        BY <2>2, CntRecord
      <3> QED
        BY <2>1, <3>1, <3>2
    <2> QED
      BY <2>1, <2>2, <2>3, ForgetStep DEF OffAsoc
  <1> QED
    BY <1>1, <1>2

\* The walk of expire_timeout_chk over auth_list keeps the invariant.
LEMMA ExpireAuthStep ==
  ASSUME ApInv, NEW out \in SUBSET authL, ExpireAuth(out)
  PROVE  ApInv'
  <1>0. apOn # "off" /\ Sound /\ ApTypeOK
    BY DEF ApInv, Sound, ExpireAuth
  <1>1. out \in SUBSET Allocated /\ out \cap asocL = {} /\ asocL' = asocL \ out
    BY <1>0 DEF Sound, Listed, ExpireAuth
  <1>2. apCnt' = [auth |-> apCnt.auth - Cardinality(out \cap authL),
                  asoc |-> apCnt.asoc - Cardinality(out \cap asocL),
                  sta |-> apCnt.sta - Cardinality(out)]
    <2>1. Cardinality(out \cap asocL) = 0
      BY <1>1, FS_EmptySet
    <2>2. CntFreed(apCnt, out) = [auth |-> apCnt.auth - Cardinality(out \cap authL),
                                  asoc |-> apCnt.asoc,
                                  sta |-> apCnt.sta - Cardinality(out)]
          /\ apCnt.asoc \in Int
      BY <1>0, CntRecord DEF ApTypeOK
    <2> QED
      BY <2>1, <2>2 DEF ExpireAuth
  <1> QED
    BY <1>0, <1>1, <1>2, ForgetStep DEF ExpireAuth
-----------------------------------------------------------------------------
\* The ERP element.
ErpType == [on : BOOLEAN, start : BOOLEAN, bits : SUBSET {"erp", "pre"}]

\* A station that lost at most flags of its state.
Alike(s, t) ==
    s.addr = t.addr /\ s.seq = t.seq /\ s.set = t.set /\ (t.st = {} => s.st = {})

\* A step that leaves lists and counters alone and gives no station a flag keeps
\* the invariant if it keeps the protection.
LEMMA QuietStep ==
  ASSUME ApInv, sta' \in [Objs -> StaRec], \A o \in Objs : Alike(sta'[o], sta[o]),
         \A o \in Free : sta'[o] = sta[o], UNCHANGED <<authL, asocL, apCnt, num>>,
         truth' \in TruthType, truth'.asked = truth.asked, truth'.passed = truth.passed,
         erp' \in ErpType, apOn # "off", Protects'
  PROVE  ApInv'
  <1>0. Sound /\ ApTypeOK
    BY DEF ApInv, Sound
  <1>1. Allocated' = Allocated
    BY DEF Allocated, Alike
  <1>2. Listed' /\ Counted'
    BY <1>0, <1>1 DEF Sound, Listed, Counted
  <1>3. OnePer'
    BY <1>0, <1>1 DEF Sound, OnePer, Alike, Allocated
  <1>4. FreeBlank'
    BY <1>0, <1>1 DEF Sound, FreeBlank, Free
  <1>5. PassedOK'
    BY <1>0, <1>1 DEF Sound, PassedOK, Alike, Allocated
  <1>6. ASSUME NEW c \in Caps PROVE Lacking(c)' = Lacking(c)
    BY <1>1 DEF Lacking, Alike, Allocated
  <1>7. NumCovers'
    BY <1>0, <1>6 DEF Sound, NumCovers
  <1>8. ApTypeOK'
    BY <1>0 DEF ApTypeOK, TruthType, ErpType
  <1> QED
    BY <1>2, <1>3, <1>4, <1>5, <1>7, <1>8 DEF ApInv

\* Protection stays told when the stations keep what they were told or are told
\* it again.
LEMMA StillProtects ==
  ASSUME ApInv, apOn # "off", UNCHANGED <<asocL, num, erp>>,
         truth'.replaced = truth.replaced,
         \A o \in asocL : sta'[o].rts = sta[o].rts \/ sta'[o].rts = Vcs(erp)
  PROVE  Protects'
  <1>1. Protects
    BY DEF ApInv
  <1> QED
    BY <1>1 DEF Protects, Vcs

\* The history variable when it does not change.
LEMMA TruthKept ==
  ASSUME ApInv, truth' = truth
  PROVE  truth' \in TruthType
  BY DEF ApInv, ApTypeOK, TruthType

\* The ERP element when it does not change.
LEMMA ErpKept ==
  ASSUME ApInv, erp' = erp
  PROVE  erp' \in ErpType
  BY DEF ApInv, ApTypeOK, ErpType

\* A call of the daemon leaves the exchanges alone.
LEMMA TruthCalled ==
  ASSUME ApInv, NEW r \in BOOLEAN, Called(r)
  PROVE  /\ apOn # "off" /\ truth' \in TruthType /\ truth'.asked = truth.asked
         /\ truth'.passed = truth.passed /\ truth'.replaced = (truth.replaced \/ r)
  <1>1. truth \in TruthType
    BY DEF ApInv, ApTypeOK, TruthType
  <1>2. truth.replaced \in BOOLEAN /\ truth.calls + 1 \in Nat
    BY <1>1 DEF TruthType
  <1>3. truth' = [truth EXCEPT !.calls = @ + 1, !.replaced = @ \/ r] /\ apOn = "on"
    BY DEF Called
  <1> QED
    BY <1>1, <1>2, <1>3 DEF TruthType

\* The stations when they do not change.
LEMMA SameStations ==
  ASSUME ApInv, sta' = sta
  PROVE  /\ sta' \in [Objs -> StaRec] /\ \A o \in Objs : Alike(sta'[o], sta[o])
         /\ \A o \in Free : sta'[o] = sta[o]
         /\ \A o \in asocL : sta'[o].rts = sta[o].rts
  BY DEF ApInv, ApTypeOK, Alike

\* One station loses flags or is told the protection: the others keep theirs.
LEMMA OneStation ==
  ASSUME ApInv, NEW a \in ApAddrs, NEW o \in rtw_get_stainfo(a), NEW t \in StaRec,
         Alike(t, sta[o]), sta' = [sta EXCEPT ![o] = t],
         t.rts = sta[o].rts \/ t.rts = Vcs(erp)
  PROVE  /\ sta' \in [Objs -> StaRec] /\ \A p \in Objs : Alike(sta'[p], sta[p])
         /\ \A p \in Free : sta'[p] = sta[p]
         /\ \A p \in asocL : sta'[p].rts = sta[p].rts \/ sta'[p].rts = Vcs(erp)
  <1>1. sta \in [Objs -> StaRec] /\ o \in Objs /\ asocL \in SUBSET Objs /\ o \notin Free
    BY ApAssocAssumption DEF ApInv, ApTypeOK, rtw_get_stainfo, Free, Allocated
  <1>2. sta' \in [Objs -> StaRec] /\ sta'[o] = t /\ \A p \in Objs \ {o} : sta'[p] = sta[p]
    BY <1>1
  <1>3. \A p \in Objs : Alike(sta'[p], sta[p])
    BY <1>2 DEF Alike
  <1>4. \A p \in Free : sta'[p] = sta[p]
    BY <1>1, <1>2 DEF Free
  <1> QED
    BY <1>1, <1>2, <1>3, <1>4

\* A step that changes nothing.
LEMMA StutterStep ==
  ASSUME ApInv, UNCHANGED apVars
  PROVE  ApInv'
  BY DEF apVars, ApInv, ApTypeOK, Listed, Counted, OnePer, FreeBlank, PassedOK,
         Lacking, NumCovers, Protects, Allocated

\* A request for association takes a flag away, and never gives one.
LEMMA AsocStateLess ==
  ASSUME ApInv, NEW o \in Objs
  PROVE  AsocState(o) \in SUBSET {"authok", "asocok"} /\ (sta[o].st = {} => AsocState(o) = {})
  BY DEF ApInv, ApTypeOK, StaRec, AsocState

\* OnAssocReq, refused for its elements, keeps the invariant.
LEMMA ReqFailStep ==
  ASSUME ApInv, NEW a \in ApAddrs, NEW req, OnAssocReqFail(a, req)
  PROVE  ApInv'
  <1>1. PICK o \in rtw_get_stainfo(a) :
           sta' = [sta EXCEPT ![o].st = AsocState(o), ![o].aid = 0]
    BY DEF OnAssocReqFail
  <1>2. o \in Objs /\ sta \in [Objs -> StaRec]
    BY DEF rtw_get_stainfo, ApInv, ApTypeOK
  <1> DEFINE t == [sta[o] EXCEPT !.st = AsocState(o), !.aid = 0]
  <1>3. sta' = [sta EXCEPT ![o] = t]
    BY <1>1, <1>2
  <1>4. t \in StaRec /\ Alike(t, sta[o]) /\ t.rts = sta[o].rts
    <2>1. AsocState(o) \in SUBSET {"authok", "asocok"} /\ (sta[o].st = {} => AsocState(o) = {})
      BY <1>2, AsocStateLess
    <2>2. sta[o] \in StaRec
      BY <1>2
    <2> HIDE DEF AsocState
    <2> QED
      BY <2>1, <2>2 DEF StaRec, Alike
  <1> HIDE DEF t
  <1>5. /\ sta' \in [Objs -> StaRec] /\ \A p \in Objs : Alike(sta'[p], sta[p])
        /\ \A p \in Free : sta'[p] = sta[p]
        /\ \A p \in asocL : sta'[p].rts = sta[p].rts \/ sta'[p].rts = Vcs(erp)
    BY <1>3, <1>4, OneStation
  <1>6. apOn # "off" /\ UNCHANGED <<authL, asocL, apCnt, num>> /\ erp' = erp /\ truth' = truth
    BY DEF OnAssocReqFail
  <1>7. Protects'
    BY <1>5, <1>6, StillProtects
  <1> QED
    BY <1>5, <1>6, <1>7, TruthKept, ErpKept, QuietStep

\* OnAssocReq, refused for want of an aid, keeps the invariant.
LEMMA NoRoomStep ==
  ASSUME ApInv, NEW a \in ApAddrs, NoRoom(a)
  PROVE  ApInv'
  <1>1. PICK o \in rtw_get_stainfo(a) : sta' = [sta EXCEPT ![o].st = AsocState(o)]
    BY DEF NoRoom
  <1>2. o \in Objs /\ sta \in [Objs -> StaRec]
    BY DEF rtw_get_stainfo, ApInv, ApTypeOK
  <1> DEFINE t == [sta[o] EXCEPT !.st = AsocState(o)]
  <1>3. sta' = [sta EXCEPT ![o] = t]
    BY <1>1, <1>2
  <1>4. t \in StaRec /\ Alike(t, sta[o]) /\ t.rts = sta[o].rts
    <2>1. AsocState(o) \in SUBSET {"authok", "asocok"} /\ (sta[o].st = {} => AsocState(o) = {})
      BY <1>2, AsocStateLess
    <2>2. sta[o] \in StaRec
      BY <1>2
    <2> HIDE DEF AsocState
    <2> QED
      BY <2>1, <2>2 DEF StaRec, Alike
  <1> HIDE DEF t
  <1>5. /\ sta' \in [Objs -> StaRec] /\ \A p \in Objs : Alike(sta'[p], sta[p])
        /\ \A p \in Free : sta'[p] = sta[p]
        /\ \A p \in asocL : sta'[p].rts = sta[p].rts \/ sta'[p].rts = Vcs(erp)
    BY <1>3, <1>4, OneStation
  <1>6. apOn # "off" /\ UNCHANGED <<authL, asocL, apCnt, num>> /\ erp' = erp /\ truth' = truth
    BY DEF NoRoom
  <1>7. Protects'
    BY <1>5, <1>6, StillProtects
  <1> QED
    BY <1>5, <1>6, <1>7, TruthKept, ErpKept, QuietStep

\* rtw_add_sta keeps the invariant.
LEMMA AddStaStep ==
  ASSUME ApInv, NEW a \in ApAddrs, NEW i \in DaemonAids, rtw_add_sta(a, i)
  PROVE  ApInv'
  <1>1. PICK o \in rtw_get_stainfo(a) : sta' = [sta EXCEPT ![o].aid = i, ![o].rts = Vcs(erp)]
    BY DEF rtw_add_sta
  <1>2. o \in Objs /\ sta \in [Objs -> StaRec]
    BY DEF rtw_get_stainfo, ApInv, ApTypeOK
  <1> DEFINE t == [sta[o] EXCEPT !.aid = i, !.rts = Vcs(erp)]
  <1>3. sta' = [sta EXCEPT ![o] = t]
    BY <1>1, <1>2
  <1>4. t \in StaRec /\ Alike(t, sta[o]) /\ t.rts = Vcs(erp)
    <2>1. i \in Nat
      BY ApAssocAssumption
    <2>2. sta[o] \in StaRec
      BY <1>2
    <2>3. Vcs(erp) \in BOOLEAN
      BY DEF Vcs, ApInv, ApTypeOK
    <2> HIDE DEF Vcs
    <2> QED
      BY <2>1, <2>2, <2>3 DEF StaRec, Alike
  <1> HIDE DEF t
  <1>5. /\ sta' \in [Objs -> StaRec] /\ \A p \in Objs : Alike(sta'[p], sta[p])
        /\ \A p \in Free : sta'[p] = sta[p]
        /\ \A p \in asocL : sta'[p].rts = sta[p].rts \/ sta'[p].rts = Vcs(erp)
    BY <1>3, <1>4, OneStation
  <1>6. Called(FALSE) /\ UNCHANGED <<authL, asocL, apCnt, num>> /\ erp' = erp
    BY DEF rtw_add_sta
  <1>7. /\ apOn # "off" /\ truth' \in TruthType /\ truth'.asked = truth.asked
        /\ truth'.passed = truth.passed /\ truth'.replaced = (truth.replaced \/ FALSE)
    BY <1>6, TruthCalled
  <1>8. truth'.replaced = truth.replaced
    BY <1>7 DEF ApInv, ApTypeOK
  <1>9. Protects'
    BY <1>5, <1>6, <1>7, <1>8, StillProtects
  <1> QED
    BY <1>5, <1>6, <1>7, <1>9, ErpKept, QuietStep

\* OnDeAuth for a station not on asoc_list keeps the invariant, whatever the
\* uninitialised `updated` is.
LEMMA IdleStep ==
  ASSUME ApInv, NEW a \in ApAddrs, NEW u \in BOOLEAN, OnDeAuthIdle(a, u)
  PROVE  ApInv'
  <1>1. apOn # "off" /\ UNCHANGED <<authL, asocL, apCnt, num>> /\ erp' = erp /\ truth' = truth
        /\ sta' = IF u THEN Updated(sta, asocL, erp) ELSE sta
    BY DEF OnDeAuthIdle
  <1>2. sta \in [Objs -> StaRec] /\ Vcs(erp) \in BOOLEAN /\ asocL \in SUBSET Allocated
    BY <1>1 DEF ApInv, ApTypeOK, Vcs, Listed
  <1>3. /\ sta' \in [Objs -> StaRec] /\ \A p \in Objs : Alike(sta'[p], sta[p])
        /\ \A p \in Free : sta'[p] = sta[p]
        /\ \A p \in asocL : sta'[p].rts = sta[p].rts \/ sta'[p].rts = Vcs(erp)
    <2>1. CASE ~u
      BY <1>1, <2>1, SameStations
    <2>2. CASE u
      <3>1. sta' = [p \in Objs |-> IF p \in asocL THEN [sta[p] EXCEPT !.rts = Vcs(erp)] ELSE sta[p]]
        BY <1>1, <2>2 DEF Updated
      <3>2. ASSUME NEW p \in Objs
            PROVE  sta'[p] \in StaRec /\ Alike(sta'[p], sta[p])
                   /\ (p \notin asocL => sta'[p] = sta[p])
                   /\ (p \in asocL => sta'[p].rts = Vcs(erp))
        <4>1. sta[p] \in StaRec
          BY <1>2
        <4> HIDE DEF Vcs
        <4> QED
          BY <1>2, <3>1, <4>1 DEF StaRec, Alike
      <3>3. sta' \in [Objs -> StaRec]
        <4> DEFINE f(p) == IF p \in asocL THEN [sta[p] EXCEPT !.rts = Vcs(erp)] ELSE sta[p]
        <4>1. \A p \in Objs : f(p) \in StaRec
          BY <3>1, <3>2
        <4>2. sta' = [p \in Objs |-> f(p)]
          BY <3>1
        <4> HIDE DEF f
        <4> QED
          BY <4>1, <4>2
      <3> QED
        BY <1>2, <3>2, <3>3 DEF Free, Allocated
    <2> QED
      BY <2>1, <2>2
  <1>4. Protects'
    BY <1>1, <1>3, StillProtects
  <1> QED
    BY <1>1, <1>3, <1>4, TruthKept, ErpKept, QuietStep

\* The calls of the daemon that leave the stations alone keep the invariant.
LEMMA CallStep ==
  ASSUME ApInv, NEW r \in BOOLEAN, Called(r), UNCHANGED <<sta, authL, asocL, apCnt, num, apOn>>,
         erp' \in ErpType, r \/ erp' = erp
  PROVE  ApInv'
  <1>1. /\ apOn # "off" /\ truth' \in TruthType /\ truth'.asked = truth.asked
        /\ truth'.passed = truth.passed /\ truth'.replaced = (truth.replaced \/ r)
    BY TruthCalled
  <1>2. /\ sta' \in [Objs -> StaRec] /\ \A o \in Objs : Alike(sta'[o], sta[o])
        /\ \A o \in Free : sta'[o] = sta[o]
        /\ \A o \in asocL : sta'[o].rts = sta[o].rts
    BY SameStations
  <1>3. Protects'
    <2>1. CASE r
      BY <1>1, <2>1 DEF Protects
    <2>2. CASE ~r
      <3>1. truth'.replaced = truth.replaced /\ erp' = erp
        BY <1>1, <2>2 DEF ApInv, ApTypeOK
      <3> QED
        BY <1>1, <1>2, <3>1, StillProtects
    <2> QED
      BY <2>1, <2>2
  <1> QED
    BY <1>1, <1>2, <1>3, QuietStep

\* rtw_set_beacon keeps the invariant: it may drop the ERP bit, and says that it
\* replaced the beacon.
LEMMA BeaconStep ==
  ASSUME ApInv, NEW b, rtw_set_beacon(b)
  PROVE  ApInv'
  <1>1. Called(TRUE) /\ UNCHANGED <<sta, authL, asocL, apCnt, num, apOn>>
        /\ erp' = [BeaconErp(b) EXCEPT !.start = start_bss_network(b)]
    BY DEF rtw_set_beacon
  <1>2. erp \in ErpType
    BY DEF ApInv, ApTypeOK, ErpType
  <1>3. BeaconErp(b) \in ErpType
    BY <1>2 DEF BeaconErp, ErpType
  <1>4. start_bss_network(b) \in BOOLEAN
    BY DEF start_bss_network
  <1>5. erp' \in ErpType
    <2> HIDE DEF BeaconErp, start_bss_network
    <2> QED
      BY <1>1, <1>3, <1>4 DEF ErpType
  <1> QED
    BY <1>1, <1>5, CallStep

\* The calls that change the access list keep the invariant.
LEMMA AclStep ==
  ASSUME ApInv, Called(FALSE), UNCHANGED <<sta, authL, asocL, apCnt, num, erp, apOn>>
  PROVE  ApInv'
  BY ErpKept, CallStep

\* stop_ap_mode keeps the invariant.
LEMMA StopStep ==
  ASSUME ApInv, stop_ap_mode
  PROVE  ApInv'
  <1>1. apOn # "off" /\ UNCHANGED <<sta, authL, asocL, apCnt, num, erp, truth>>
    BY DEF stop_ap_mode
  <1>2. /\ sta' \in [Objs -> StaRec] /\ \A o \in Objs : Alike(sta'[o], sta[o])
        /\ \A o \in Free : sta'[o] = sta[o]
        /\ \A o \in asocL : sta'[o].rts = sta[o].rts
    BY <1>1, SameStations
  <1>3. Protects'
    BY <1>1, <1>2, StillProtects
  <1> QED
    BY <1>1, <1>2, <1>3, TruthKept, ErpKept, QuietStep

\* rtw_free_all_stainfo keeps the types.
LEMMA FreeAllStep ==
  ASSUME ApInv, rtw_free_all_stainfo
  PROVE  ApInv'
  <1>1. /\ apOn' = "off" /\ rtw_free_stainfo(Allocated) /\ sta' = Without(sta, Allocated)
        /\ apCnt' = CntFreed(apCnt, Allocated) /\ UNCHANGED <<asocL, num, erp>>
    BY DEF rtw_free_all_stainfo
  <1>2. ApTypeOK /\ sta \in [Objs -> StaRec] /\ Allocated \in SUBSET Objs /\ truth \in TruthType
    BY DEF ApInv, ApTypeOK, Allocated, TruthType
  <1>3. sta' \in [Objs -> StaRec]
    BY <1>1, <1>2, WithoutFacts
  <1>4. apCnt' \in [auth : Int, asoc : Int, sta : Int]
    <2>1. Cardinality(Allocated) \in Nat /\ Cardinality(Allocated \cap authL) \in Nat
      BY <1>2, ObjsFinite
    <2>2. apCnt' = [auth |-> apCnt.auth - Cardinality(Allocated \cap authL),
                    asoc |-> apCnt.asoc,
                    sta |-> apCnt.sta - Cardinality(Allocated)]
      BY <1>1, <1>2, CntRecord
    <2> QED
      BY <1>2, <2>1, <2>2 DEF ApTypeOK
  <1>5. truth' \in TruthType
    BY <1>1, <1>2 DEF rtw_free_stainfo, TruthType
  <1>6. authL' \in SUBSET Objs
    BY <1>1, <1>2 DEF rtw_free_stainfo, ApTypeOK
  <1>7. ApTypeOK'
    BY <1>1, <1>2, <1>3, <1>4, <1>5, <1>6 DEF ApTypeOK, TruthType
  <1> QED
    BY <1>1, <1>7 DEF ApInv
-----------------------------------------------------------------------------
\* What the first and the last station without ERP make of the ERP element; any
\* other leaves it as it was.
LEMMA ErpAfterFacts ==
  ASSUME ApInv, NEW gain, NEW lose, NEW n
  PROVE  LET e == ErpAfter(gain, lose, n)
             turns == ("erp" \in gain /\ n["erp"] = 1) \/ ("erp" \in lose /\ n["erp"] = 0)
         IN /\ e \in ErpType /\ e.on = erp.on /\ e.start = erp.start
            /\ turns /\ erp.on /\ erp.start => ("erp" \in e.bits <=> n["erp"] = 1)
            /\ ~turns => e = erp
            /\ Vcs(e) \in BOOLEAN
            /\ Vcs(e) = (e.on /\ "erp" \in e.bits)
  <1> DEFINE bits == (IF n["erp"] = 1 THEN {"erp"} ELSE {}) \cup
                     (IF n["pre"] > 0 THEN {"pre"} ELSE {})
             e == ErpAfter(gain, lose, n)
             turns == ("erp" \in gain /\ n["erp"] = 1) \/ ("erp" \in lose /\ n["erp"] = 0)
  <1>1. erp \in ErpType
    BY DEF ApInv, ApTypeOK, ErpType
  <1>2. bits \in SUBSET {"erp", "pre"} /\ ("erp" \in bits <=> n["erp"] = 1)
    OBVIOUS
  <1>3. e = IF turns THEN IF ~erp.on \/ ~erp.start THEN erp ELSE [erp EXCEPT !.bits = bits] ELSE erp
    BY DEF ErpAfter, update_bcn_erpinfo_ie
  <1> HIDE DEF bits, e, turns
  <1>4. e \in ErpType /\ e.on = erp.on /\ e.start = erp.start
    BY <1>1, <1>2, <1>3 DEF ErpType
  <1>5. turns /\ erp.on /\ erp.start => ("erp" \in e.bits <=> n["erp"] = 1)
    BY <1>1, <1>2, <1>3 DEF ErpType
  <1>6. ~turns => e = erp
    BY <1>3
  <1>7. Vcs(e) \in BOOLEAN /\ Vcs(e) = (e.on /\ "erp" \in e.bits)
    BY DEF Vcs
  <1> QED
    BY <1>4, <1>5, <1>6, <1>7 DEF e, turns

\* The counters after a station gained and lost flags.
LEMMA RecountFacts ==
  ASSUME ApInv, NEW gain, NEW lose
  PROVE  /\ Recount(gain, lose) \in [Caps -> Int]
         /\ \A c \in Caps : Recount(gain, lose)[c] = num[c] + (IF c \in gain THEN 1 ELSE 0)
                                                            - (IF c \in lose THEN 1 ELSE 0)
  <1>1. num \in [Caps -> Int]
    BY DEF ApInv, ApTypeOK
  <1> HIDE DEF Caps
  <1> QED
    BY <1>1 DEF Recount

\* associated_clients_update changes the protection of those it tells, and no more.
LEMMA UpdatedFacts ==
  ASSUME NEW s \in [Objs -> StaRec], NEW L, NEW e, Vcs(e) \in BOOLEAN
  PROVE  /\ Updated(s, L, e) \in [Objs -> StaRec]
         /\ \A p \in Objs : Same(Updated(s, L, e)[p], s[p])
         /\ \A p \in Objs : p \in L => Updated(s, L, e)[p].rts = Vcs(e)
         /\ \A p \in Objs : p \notin L => Updated(s, L, e)[p] = s[p]
  <1> DEFINE f(p) == IF p \in L THEN [s[p] EXCEPT !.rts = Vcs(e)] ELSE s[p]
  <1>1. Updated(s, L, e) = [p \in Objs |-> f(p)]
    BY DEF Updated
  <1>2. ASSUME NEW p \in Objs
        PROVE  f(p) \in StaRec /\ Same(f(p), s[p])
               /\ IF p \in L THEN f(p).rts = Vcs(e) ELSE f(p) = s[p]
    <2>1. s[p] \in StaRec
      OBVIOUS
    <2> HIDE DEF Vcs
    <2> QED
      BY <2>1 DEF StaRec, Same
  <1> HIDE DEF f
  <1> QED
    BY <1>1, <1>2

\* ap_free_sta keeps the invariant, whether or not the stations are told: when
\* the bit goes off nobody needs it, otherwise nothing is news.
LEMMA LeaveStep ==
  ASSUME ApInv, apOn # "off", NEW o \in asocL, NEW u \in BOOLEAN, ap_free_sta(o, u)
  PROVE  ApInv'
  <1>0. Sound /\ ApTypeOK /\ sta \in [Objs -> StaRec] /\ num \in [Caps -> Int]
        /\ authL \in SUBSET Objs /\ asocL \in SUBSET Objs
    BY DEF ApInv, Sound, ApTypeOK
  <1>1. o \in Allocated /\ o \in Objs /\ o \notin authL /\ {o} \in SUBSET Allocated
    BY <1>0 DEF Sound, Listed
  <1> DEFINE n == Recount({}, sta[o].set)
             s == Without(sta, {o})
  <1>2. /\ num' = n /\ erp' = ErpAfter({}, sta[o].set, n)
        /\ rtw_free_stainfo({o}) /\ asocL' = asocL \ {o}
        /\ apCnt' = [CntFreed(apCnt, {o}) EXCEPT !.asoc = @ - 1]
        /\ sta' = (IF u THEN Updated(s, asocL', erp') ELSE s) /\ apOn' = apOn
    BY DEF ap_free_sta, bss_cap_update_on_sta_leave
  <1> DEFINE turns == "erp" \in sta[o].set /\ n["erp"] = 0
  <1>3. /\ erp' \in ErpType /\ erp'.on = erp.on /\ erp'.start = erp.start
        /\ turns /\ erp.on /\ erp.start => ~ ("erp" \in erp'.bits)
        /\ ~turns => erp' = erp
        /\ Vcs(erp') \in BOOLEAN /\ Vcs(erp') = (erp'.on /\ "erp" \in erp'.bits)
    <2> HIDE DEF n
    <2> QED
      BY <1>2, ErpAfterFacts
  <1>4. n \in [Caps -> Int] /\ \A c \in Caps : n[c] = num[c] - (IF c \in sta[o].set THEN 1 ELSE 0)
    <2>1. \A c \in Caps : n[c] = num[c] + (IF c \in {} THEN 1 ELSE 0)
                                        - (IF c \in sta[o].set THEN 1 ELSE 0)
      BY RecountFacts
    <2>2. n \in [Caps -> Int]
      BY RecountFacts
    <2> HIDE DEF n, Caps
    <2> QED
      BY <1>0, <2>1, <2>2
  <1> HIDE DEF n
  <1>5. /\ s \in [Objs -> StaRec] /\ s[o] = Blank
        /\ \A p \in Objs \ {o} : s[p] = sta[p]
    BY <1>0, <1>1, WithoutFacts
  <1> HIDE DEF s
  <1>6. /\ sta' \in [Objs -> StaRec] /\ \A p \in Objs : Same(sta'[p], s[p])
        /\ \A p \in Objs \ asocL' : sta'[p] = s[p]
        /\ \A p \in asocL' : sta'[p].rts = s[p].rts \/ sta'[p].rts = Vcs(erp')
    <2>1. CASE ~u
      <3>1. sta' = s
        BY <1>2, <2>1
      <3> QED
        BY <3>1, <1>5 DEF Same
    <2>2. CASE u
      <3>1. sta' = Updated(s, asocL', erp')
        BY <1>2, <2>2
      <3>2. asocL' \in SUBSET Objs
        BY <1>0, <1>2
      <3>3. /\ sta' \in [Objs -> StaRec] /\ \A p \in Objs : Same(sta'[p], s[p])
            /\ \A p \in Objs : IF p \in asocL' THEN sta'[p].rts = Vcs(erp') ELSE sta'[p] = s[p]
        <4>1. s \in [Objs -> StaRec] /\ Vcs(erp') \in BOOLEAN
          BY <1>3, <1>5
        <4>2. /\ Updated(s, asocL', erp') \in [Objs -> StaRec]
              /\ \A p \in Objs : Same(Updated(s, asocL', erp')[p], s[p])
              /\ \A p \in Objs : p \in asocL' => Updated(s, asocL', erp')[p].rts = Vcs(erp')
              /\ \A p \in Objs : p \notin asocL' => Updated(s, asocL', erp')[p] = s[p]
          BY <4>1, UpdatedFacts
        <4> QED
          BY <3>1, <4>2, Zenon
      <3> QED
        BY <3>2, <3>3
    <2> QED
      BY <2>1, <2>2
  <1>7. /\ \A p \in {o} : sta'[p] = Blank
        /\ \A p \in Objs \ {o} : Same(sta'[p], sta[p])
        /\ \A p \in Free : sta'[p] = sta[p]
    <2>1. o \notin asocL' /\ sta'[o] = Blank
      BY <1>1, <1>2, <1>5, <1>6
    <2>2. \A p \in Free : p \in Objs \ asocL' /\ p # o
      BY <1>0, <1>1, <1>2 DEF Sound, Listed, Free
    <2> QED
      BY <1>5, <1>6, <2>1, <2>2
  <1>8. apCnt' = [auth |-> apCnt.auth - Cardinality({o} \cap authL),
                  asoc |-> apCnt.asoc - Cardinality({o} \cap asocL),
                  sta |-> apCnt.sta - Cardinality({o})]
    <2>1. Cardinality({o} \cap asocL) = 1
      BY <1>0, <1>1, OneCard
    <2>2. CntFreed(apCnt, {o}) = [auth |-> apCnt.auth - Cardinality({o} \cap authL),
                                  asoc |-> apCnt.asoc,
                                  sta |-> apCnt.sta - Cardinality({o})]
          /\ apCnt.asoc \in Int
      BY <1>0, <1>1, CntRecord
    <2>3. [CntFreed(apCnt, {o}) EXCEPT !.asoc = @ - 1]
            = [auth |-> apCnt.auth - Cardinality({o} \cap authL),
               asoc |-> apCnt.asoc - 1,
               sta |-> apCnt.sta - Cardinality({o})]
      <3> DEFINE x == apCnt.auth - Cardinality({o} \cap authL)
                 y == apCnt.asoc
                 z == apCnt.sta - Cardinality({o})
      <3>1. CntFreed(apCnt, {o}) = [auth |-> x, asoc |-> y, sta |-> z] /\ y \in Int
        BY <2>2
      <3>2. [CntFreed(apCnt, {o}) EXCEPT !.asoc = @ - 1] = [auth |-> x, asoc |-> y - 1, sta |-> z]
        <4> DEFINE r == CntFreed(apCnt, {o})
        <4>1. r = [auth |-> x, asoc |-> y, sta |-> z] /\ y \in Int
          BY <3>1
        <4> HIDE DEF x, y, z, r
        <4>2. [r EXCEPT !.asoc = @ - 1] = [auth |-> x, asoc |-> y - 1, sta |-> z]
          BY <4>1
        <4> QED
          BY <4>2 DEF r
      <3> QED
        BY <3>2
    <2> QED
      BY <1>2, <2>1, <2>3
  <1>9. /\ Listed' /\ Counted' /\ OnePer' /\ FreeBlank' /\ PassedOK'
        /\ \A c \in Caps : Lacking(c)' = Lacking(c) \ {o}
        /\ authL' \in SUBSET Objs /\ asocL' \in SUBSET Objs
        /\ apCnt' \in [auth : Int, asoc : Int, sta : Int]
        /\ truth' \in TruthType /\ truth'.replaced = truth.replaced
    BY <1>0, <1>1, <1>2, <1>6, <1>7, <1>8, FreeKeeps DEF TruthType
  <1>10. NumCovers'
    <2> SUFFICES ASSUME NEW c \in Caps PROVE num'[c] >= Cardinality(Lacking(c)')
      BY DEF NumCovers
    <2>1. Lacking(c) \in SUBSET Objs /\ (o \in Lacking(c) <=> c \in sta[o].set)
      BY <1>1 DEF Lacking, Allocated
    <2>2. Cardinality(Lacking(c)') = Cardinality(Lacking(c)) - (IF c \in sta[o].set THEN 1 ELSE 0)
      BY <1>1, <1>9, <2>1, TakeOut
    <2>3. num[c] >= Cardinality(Lacking(c)) /\ num[c] \in Int /\ Cardinality(Lacking(c)) \in Nat
      BY <1>0, <2>1, ObjsFinite DEF Sound, NumCovers
    <2>4. num'[c] = num[c] - (IF c \in sta[o].set THEN 1 ELSE 0)
      BY <1>2, <1>4
    <2> HIDE DEF Caps
    <2> QED
      BY <2>2, <2>3, <2>4
  <1>11. Protects'
    <2> SUFFICES ASSUME erp'.on, erp'.start, ~ truth'.replaced
                 PROVE  /\ num'["erp"] > 0 => "erp" \in erp'.bits
                        /\ "erp" \in erp'.bits => \A p \in asocL' : sta'[p].rts
      BY DEF Protects
    <2>1. erp.on /\ erp.start /\ ~ truth.replaced
      BY <1>3, <1>9
    <2>2. /\ num["erp"] > 0 => "erp" \in erp.bits
          /\ "erp" \in erp.bits => \A p \in asocL : sta[p].rts
      BY <1>0, <2>1 DEF Sound, Protects
    <2>3. num'["erp"] = num["erp"] - (IF "erp" \in sta[o].set THEN 1 ELSE 0) /\ num["erp"] \in Int
      BY <1>0, <1>2, <1>4 DEF Caps
    <2>4. CASE turns
      BY <1>2, <1>3, <2>1, <2>4
    <2>5. CASE ~turns
      <3>1. erp' = erp /\ (num'["erp"] > 0 => num["erp"] > 0)
        BY <1>3, <2>3, <2>5
      <3>2. ASSUME "erp" \in erp'.bits, NEW p \in asocL' PROVE sta'[p].rts
        <4>1. p \in Objs \ {o} /\ p \in asocL
          BY <1>0, <1>2
        <4>2. s[p].rts /\ Vcs(erp')
          BY <4>1, <1>3, <1>5, <2>2, <3>1, <3>2
        <4> QED
          BY <1>6, <4>2
      <3> QED
        BY <2>2, <3>1, <3>2
    <2> QED
      BY <2>4, <2>5
  <1>12. ApTypeOK'
    BY <1>0, <1>2, <1>3, <1>4, <1>6, <1>9 DEF ApTypeOK, TruthType, ErpType
  <1> QED
    BY <1>9, <1>10, <1>11, <1>12 DEF ApInv
-----------------------------------------------------------------------------
\* OnAssocReq, accepted, keeps the invariant: when the ERP bit changes all the
\* associated stations are told, and the station that joins always is.
LEMMA JoinStep ==
  ASSUME ApInv, NEW a \in ApAddrs, NEW req, OnAssocReq(a, req)
  PROVE  ApInv'
  <1>0. Sound /\ ApTypeOK /\ sta \in [Objs -> StaRec] /\ num \in [Caps -> Int]
        /\ authL \in SUBSET Objs /\ asocL \in SUBSET Objs /\ apOn # "off" /\ apOn' = apOn
        /\ truth' = truth
    BY DEF ApInv, Sound, ApTypeOK, OnAssocReq
  <1>1. PICK o \in rtw_get_stainfo(a), lack \in {LackOf(req.can)} :
        /\ MayAssociate(o)
        /\ authL' = authL \ {o} /\ asocL' = asocL \union {o}
        /\ apCnt' = [apCnt EXCEPT
                       !.auth = IF o \in authL THEN @ - 1 ELSE @,
                       !.asoc = IF o \in asocL THEN @ ELSE @ + 1]
        /\ bss_cap_update_on_sta_join(o, lack,
             [sta EXCEPT ![o].st = AsocState(o) \union {"asocok"},
                         ![o].aid = AidFor(o),
                         ![o].set = (@ \union Gained(o, lack)) \ Lost(o, lack)], asocL')
    BY DEF OnAssocReq
  <1>2. o \in Objs /\ o \in Allocated /\ sta[o] \in StaRec /\ Allocated \subseteq Objs
    BY <1>0, ApAssocAssumption DEF rtw_get_stainfo, Allocated
  <1> DEFINE gain == Gained(o, lack)
             lose == Lost(o, lack)
             n == Recount(gain, lose)
             st == AsocState(o) \cup {"asocok"}
             aid == AidFor(o)
             set == (sta[o].set \cup gain) \ lose
             t == [sta[o] EXCEPT !.st = st, !.aid = aid, !.set = set]
             s == [sta EXCEPT ![o] = t]
             turns == Turns(gain, lose, n)
             L == IF turns THEN asocL' ELSE {o}
  <1>3. num' = n /\ erp' = ErpAfter(gain, lose, n) /\ sta' = Updated(s, L, erp')
    <2>1. s = [sta EXCEPT ![o].st = st, ![o].aid = aid,
                          ![o].set = (@ \union gain) \ lose]
      <3> HIDE DEF gain, lose, st, aid
      <3> QED
        BY <1>0, <1>2 DEF StaRec
    <2> HIDE DEF s
    <2> QED
      BY <1>1, <2>1 DEF bss_cap_update_on_sta_join
  <1>4. gain \subseteq lack \ sta[o].set /\ lose \subseteq sta[o].set \ lack /\ gain \subseteq Caps
    BY <1>1 DEF Gained, Lost, LackOf
  <1>5. t \in StaRec /\ t.addr = sta[o].addr /\ t.seq = sta[o].seq /\ t.set = set
    <2>1. st \in SUBSET {"authok", "asocok"}
      BY <1>2, AsocStateLess
    <2>2. aid \in Nat
      BY <1>2, FreeAidNat DEF AidFor, StaRec
    <2>3. set \in SUBSET Caps
      <3> HIDE DEF gain, lose, Caps
      <3> QED
        BY <1>2, <1>4 DEF StaRec
    <2> HIDE DEF st, aid, set, Caps
    <2> QED
      BY <1>2, <2>1, <2>2, <2>3 DEF StaRec
  <1> HIDE DEF t
  <1>6. s \in [Objs -> StaRec] /\ s[o] = t /\ \A p \in Objs \ {o} : s[p] = sta[p]
    BY <1>0, <1>2, <1>5
  <1> DEFINE told == ("erp" \in gain /\ n["erp"] = 1) \/ ("erp" \in lose /\ n["erp"] = 0)
  <1>7. /\ erp' \in ErpType /\ erp'.on = erp.on /\ erp'.start = erp.start
        /\ told /\ erp.on /\ erp.start => ("erp" \in erp'.bits <=> n["erp"] = 1)
        /\ ~told => erp' = erp
        /\ Vcs(erp') \in BOOLEAN /\ Vcs(erp') = (erp'.on /\ "erp" \in erp'.bits)
    <2> HIDE DEF n, gain, lose
    <2> QED
      BY <1>3, ErpAfterFacts
  <1>8. told => turns
    BY DEF Turns
  <1>9. n \in [Caps -> Int]
        /\ \A c \in Caps : n[c] = num[c] + (IF c \in gain THEN 1 ELSE 0) - (IF c \in lose THEN 1 ELSE 0)
    BY RecountFacts
  <1> HIDE DEF n, gain, lose, turns, s, told
  <1>10. /\ sta' \in [Objs -> StaRec] /\ \A p \in Objs : Same(sta'[p], s[p])
         /\ \A p \in Objs : p \in L => sta'[p].rts = Vcs(erp')
         /\ \A p \in Objs : p \notin L => sta'[p] = s[p]
    <2>1. Vcs(erp') \in BOOLEAN
      BY <1>7
    <2> HIDE DEF L
    <2>2. /\ Updated(s, L, erp') \in [Objs -> StaRec]
          /\ \A p \in Objs : Same(Updated(s, L, erp')[p], s[p])
          /\ \A p \in Objs : p \in L => Updated(s, L, erp')[p].rts = Vcs(erp')
          /\ \A p \in Objs : p \notin L => Updated(s, L, erp')[p] = s[p]
      BY <1>6, <2>1, UpdatedFacts
    <2> QED
      BY <1>3, <2>2, Zenon
  <1>11. asocL' \in SUBSET Objs /\ authL' \in SUBSET Objs /\ L \subseteq Allocated
         /\ L \subseteq asocL' /\ o \in L
    BY <1>0, <1>1, <1>2 DEF Sound, Listed
  <1> HIDE DEF L
  <1>12. /\ \A p \in Objs \ {o} : Same(sta'[p], sta[p])
         /\ sta'[o].addr = sta[o].addr /\ sta'[o].seq = sta[o].seq /\ sta'[o].set = set
         /\ \A p \in Free : sta'[p] = sta[p]
    <2>1. \A p \in Free : p \in Objs /\ p # o /\ p \notin L
      BY <1>2, <1>11 DEF Free
    <2> HIDE DEF set
    <2> QED
      BY <1>2, <1>5, <1>6, <1>10, <2>1 DEF Same
  <1>13. Allocated' = Allocated
    BY <1>2, <1>12 DEF Allocated, Same
  <1>14. Listed'
    BY <1>0, <1>1, <1>2, <1>13 DEF Sound, Listed
  <1>15. Counted'
    <2>1. /\ Cardinality(authL') = Cardinality(authL) - (IF o \in authL THEN 1 ELSE 0)
          /\ Cardinality(asocL') = Cardinality(asocL) + (IF o \in asocL THEN 0 ELSE 1)
      BY <1>0, <1>1, <1>2, PutIn, TakeOut
    <2>2. Cardinality(authL) \in Nat /\ Cardinality(asocL) \in Nat
      BY <1>0, ObjsFinite
    <2>3. apCnt = [auth |-> Cardinality(authL), asoc |-> Cardinality(asocL),
                   sta |-> Cardinality(Allocated)]
      BY <1>0 DEF Sound, Counted
    <2>4. apCnt' = [auth |-> Cardinality(authL'), asoc |-> Cardinality(asocL'),
                    sta |-> Cardinality(Allocated)]
      BY <1>1, <2>1, <2>2, <2>3
    <2> QED
      BY <1>13, <2>4 DEF Counted
  <1>16. OnePer'
    BY <1>0, <1>2, <1>12, <1>13 DEF Sound, OnePer, Same
  <1>17. FreeBlank'
    BY <1>0, <1>12, <1>13 DEF Sound, FreeBlank, Free
  <1>18. PassedOK'
    <2>1. sta[o].addr \in truth.passed
      BY <1>0, <1>1, <1>2 DEF Sound, PassedOK, MayAssociate
    <2> SUFFICES ASSUME NEW p \in Allocated
                 PROVE  /\ sta'[p].seq = 2 => sta'[p].addr \in truth.asked
                        /\ sta'[p].st # {} \/ p \in asocL' => sta'[p].addr \in truth.passed
      BY <1>0, <1>13 DEF PassedOK
    <2>2. CASE p = o
      BY <1>0, <1>2, <1>12, <2>1, <2>2 DEF Sound, PassedOK
    <2>3. CASE p # o
      <3>1. Same(sta'[p], sta[p]) /\ (p \in asocL' => p \in asocL)
        BY <1>1, <1>2, <1>12, <2>3
      <3> QED
        BY <1>0, <3>1 DEF Sound, PassedOK, Same
    <2> QED
      BY <2>2, <2>3
  <1>19. NumCovers'
    <2> SUFFICES ASSUME NEW c \in Caps PROVE num'[c] >= Cardinality(Lacking(c)')
      BY DEF NumCovers
    <2>1. Lacking(c) \in SUBSET Objs /\ (o \in Lacking(c) <=> c \in sta[o].set)
      BY <1>2 DEF Lacking
    <2>2. num[c] >= Cardinality(Lacking(c)) /\ num[c] \in Int /\ Cardinality(Lacking(c)) \in Nat
      BY <1>0, <2>1, ObjsFinite DEF Sound, NumCovers
    <2>3. num'[c] = num[c] + (IF c \in gain THEN 1 ELSE 0) - (IF c \in lose THEN 1 ELSE 0)
      BY <1>3, <1>9
    <2>4. c \in set <=> (c \in sta[o].set \/ c \in gain) /\ c \notin lose
      OBVIOUS
    <2> HIDE DEF set, Caps
    <2>5. \A p \in Allocated : p \in Lacking(c)' <=> IF p = o THEN c \in set ELSE p \in Lacking(c)
      BY <1>2, <1>12, <1>13 DEF Lacking, Same
    <2>6. Lacking(c)' \subseteq Allocated
      BY <1>13 DEF Lacking
    <2>7. CASE c \in gain
      <3>1. c \notin sta[o].set /\ c \notin lose
        BY <1>4, <2>7
      <3>2. Lacking(c)' = Lacking(c) \cup {o}
        BY <1>2, <2>4, <2>5, <2>6, <2>7, <3>1 DEF Lacking
      <3>3. Cardinality(Lacking(c)') = Cardinality(Lacking(c)) + (IF o \in Lacking(c) THEN 0 ELSE 1)
        BY <1>2, <2>1, <3>2, PutIn
      <3> QED
        BY <2>1, <2>2, <2>3, <2>7, <3>1, <3>3
    <2>8. CASE c \in lose
      <3>1. c \in sta[o].set /\ c \notin gain
        BY <1>4, <2>8
      <3>2. Lacking(c)' = Lacking(c) \ {o}
        BY <1>2, <2>4, <2>5, <2>6, <2>8 DEF Lacking
      <3>3. Cardinality(Lacking(c)') = Cardinality(Lacking(c)) - (IF o \in Lacking(c) THEN 1 ELSE 0)
        BY <1>2, <2>1, <3>2, TakeOut
      <3> QED
        BY <2>1, <2>2, <2>3, <2>8, <3>1, <3>3
    <2>9. CASE c \notin gain /\ c \notin lose
      <3>1. Lacking(c)' = Lacking(c)
        BY <1>2, <2>1, <2>4, <2>5, <2>6, <2>9 DEF Lacking
      <3> QED
        BY <2>2, <2>3, <2>9, <3>1
    <2> QED
      BY <2>7, <2>8, <2>9
  <1>20. Protects'
    <2> SUFFICES ASSUME erp'.on, erp'.start, ~ truth'.replaced
                 PROVE  /\ num'["erp"] > 0 => "erp" \in erp'.bits
                        /\ "erp" \in erp'.bits => \A p \in asocL' : sta'[p].rts
      BY DEF Protects
    <2>1. erp.on /\ erp.start /\ ~ truth.replaced
      BY <1>0, <1>7
    <2>2. /\ num["erp"] > 0 => "erp" \in erp.bits
          /\ "erp" \in erp.bits => \A p \in asocL : sta[p].rts
      BY <1>0, <2>1 DEF Sound, Protects
    <2>3. /\ num'["erp"] = num["erp"] + (IF "erp" \in gain THEN 1 ELSE 0)
                                      - (IF "erp" \in lose THEN 1 ELSE 0)
          /\ num["erp"] \in Int /\ num'["erp"] = n["erp"]
      BY <1>0, <1>3, <1>9 DEF Caps
    <2>4. num["erp"] >= 0 /\ ("erp" \in lose => num["erp"] >= 1)
      <3>1. Lacking("erp") \in SUBSET Objs /\ ("erp" \in lose => o \in Lacking("erp"))
        BY <1>2, <1>4 DEF Lacking
      <3>2. Cardinality(Lacking("erp")) \in Nat /\ Cardinality(Lacking("erp") \ {o}) \in Nat
        BY <3>1, ObjsFinite
      <3>3. Cardinality(Lacking("erp") \ {o})
              = Cardinality(Lacking("erp")) - (IF o \in Lacking("erp") THEN 1 ELSE 0)
        BY <1>2, <3>1, TakeOut
      <3>4. num["erp"] >= Cardinality(Lacking("erp"))
        BY <1>0 DEF Sound, NumCovers, Caps
      <3> QED
        BY <2>3, <3>1, <3>2, <3>3, <3>4
    <2>5. ~ ("erp" \in gain /\ "erp" \in lose)
      BY <1>4
    <2>6. num'["erp"] > 0 => "erp" \in erp'.bits
      <3>1. CASE told
        <4>1. "erp" \in erp'.bits <=> n["erp"] = 1
          BY <1>7, <2>1, <3>1
        <4> QED
          BY <2>3, <3>1, <4>1 DEF told
      <3>2. CASE ~told
        <4>1. erp' = erp
          BY <1>7, <3>2
        <4>2. num'["erp"] > 0 => num["erp"] > 0
          BY <2>3, <2>4, <3>2 DEF told
        <4> QED
          BY <2>2, <4>1, <4>2
      <3> QED
        BY <3>1, <3>2
    <2>7. ASSUME "erp" \in erp'.bits, NEW p \in asocL' PROVE sta'[p].rts
      <3>1. p \in Objs
        BY <1>11
      <3>2. CASE p \in L
        BY <1>7, <1>10, <2>7, <3>1, <3>2
      <3>3. CASE p \notin L
        <4>1. ~turns /\ p # o
          BY <1>11, <2>7, <3>3 DEF L
        <4>2. erp' = erp /\ p \in asocL /\ sta'[p] = sta[p]
          BY <1>1, <1>6, <1>7, <1>8, <1>10, <2>7, <3>1, <3>3, <4>1
        <4> QED
          BY <2>2, <2>7, <4>2
      <3> QED
        BY <3>2, <3>3
    <2> QED
      BY <2>6, <2>7
  <1>21. ApTypeOK'
    <2>1. apCnt' \in [auth : Int, asoc : Int, sta : Int]
      <3>1. /\ Cardinality(authL') \in Nat /\ Cardinality(asocL') \in Nat
            /\ Cardinality(Allocated') \in Nat
        BY <1>2, <1>11, <1>13, ObjsFinite
      <3> QED
        BY <1>15, <3>1 DEF Counted
    <2>2. num' \in [Caps -> Int]
      BY <1>3, <1>9
    <2>3. erp' \in ErpType /\ truth' \in TruthType
      BY <1>0, <1>7 DEF ApTypeOK, TruthType
    <2> QED
      BY <1>10, <1>11, <2>1, <2>2, <2>3 DEF ApTypeOK, TruthType, ErpType
  <1> QED
    BY <1>14, <1>15, <1>16, <1>17, <1>18, <1>19, <1>20, <1>21 DEF ApInv
-----------------------------------------------------------------------------
\* The invariant holds when the access point starts.
LEMMA ApInitInv == ApInit => ApInv
  <1> SUFFICES ASSUME ApInit PROVE ApInv
    OBVIOUS
  <1>1. /\ sta = [o \in Objs |-> Blank] /\ authL = {} /\ asocL = {}
        /\ apCnt = [auth |-> 0, asoc |-> 0, sta |-> 0] /\ num = [c \in Caps |-> 0]
        /\ cfg \in ApSetups /\ erp = [on |-> cfg.erp, start |-> ~cfg.wps, bits |-> {}]
        /\ truth = [asked |-> {}, passed |-> {}, calls |-> 0, replaced |-> FALSE]
    BY DEF ApInit, start_ap_mode
  <1>2. sta \in [Objs -> StaRec] /\ Allocated = {}
    BY <1>1, BlankType DEF Allocated
  <1>3. cfg.erp \in BOOLEAN
    BY <1>1, ApAssocAssumption
  <1>4. erp \in ErpType
    BY <1>1, <1>3 DEF ErpType
  <1>5. truth \in TruthType /\ num \in [Caps -> Int]
    BY <1>1 DEF TruthType
  <1>6. ApTypeOK
    BY <1>1, <1>2, <1>4, <1>5 DEF ApTypeOK, TruthType, ErpType
  <1>7. Cardinality({}) = 0
    BY FS_EmptySet
  <1>8. Listed /\ Counted /\ OnePer /\ PassedOK
    BY <1>1, <1>2, <1>7 DEF Listed, Counted, OnePer, PassedOK
  <1>9. FreeBlank
    BY <1>1 DEF FreeBlank
  <1>10. NumCovers
    <2>1. ASSUME NEW c \in Caps PROVE Lacking(c) = {} /\ num[c] = 0
      BY <1>1, <1>2 DEF Lacking
    <2> QED
      BY <1>7, <2>1 DEF NumCovers
  <1>11. Protects
    BY <1>1 DEF Protects, Caps
  <1> QED
    BY <1>6, <1>8, <1>9, <1>10, <1>11 DEF ApInv

\* Every step keeps the invariant.
LEMMA ApStepInv == ApInv /\ [ApNext]_apVars => ApInv'
  <1> SUFFICES ASSUME ApInv, [ApNext]_apVars PROVE ApInv'
    OBVIOUS
  <1>1. ASSUME NEW a \in ApAddrs, NEW alg \in 0 .. 1,
               NEW f \in {<<1, FALSE>>, <<3, FALSE>>, <<3, TRUE>>}, OnAuth(a, alg, f[1], f[2])
        PROVE  ApInv'
    <2>1. f = <<1, FALSE>> \/ f = <<3, FALSE>> \/ f = <<3, TRUE>>
      OBVIOUS
    <2>2. f[1] \in {1, 3} /\ f[2] \in BOOLEAN
      <3>1. CASE f = <<1, FALSE>>
        BY <3>1
      <3>2. CASE f = <<3, FALSE>>
        BY <3>2
      <3>3. CASE f = <<3, TRUE>>
        BY <3>3
      <3> QED
        BY <2>1, <3>1, <3>2, <3>3
    <2> QED
      BY <1>1, <2>2, AuthStep
  <1>2. ASSUME NEW a \in ApAddrs, NEW alg, NEW q, NEW proof, OnAuthFail(a, alg, q, proof)
        PROVE  ApInv'
    BY <1>2, AuthFailStep
  <1>3. ASSUME NEW a \in ApAddrs, NEW req, OnAssocReq(a, req) PROVE ApInv'
    BY <1>3, JoinStep
  <1>4. ASSUME NEW a \in ApAddrs, NEW req, OnAssocReqFail(a, req) PROVE ApInv'
    BY <1>4, ReqFailStep
  <1>5. ASSUME NEW a \in ApAddrs, NoRoom(a) PROVE ApInv'
    BY <1>5, NoRoomStep
  <1>6. ASSUME NEW a \in ApAddrs, OnDeAuth(a) PROVE ApInv'
    <2> DEFINE u(o) == Turns({}, sta[o].set, bss_cap_update_on_sta_leave(o))
    <2>1. PICK o \in asocL : apOn # "off" /\ ap_free_sta(o, u(o))
      BY <1>6 DEF OnDeAuth
    <2>2. u(o) \in BOOLEAN
      BY DEF Turns
    <2> HIDE DEF u
    <2> QED
      BY <2>1, <2>2, LeaveStep
  <1>7. ASSUME NEW a \in ApAddrs, NEW u \in BOOLEAN, OnDeAuthIdle(a, u) PROVE ApInv'
    BY <1>7, IdleStep
  <1>8. ASSUME NEW a \in ApAddrs, NEW i \in DaemonAids, rtw_add_sta(a, i) PROVE ApInv'
    BY <1>8, AddStaStep
  <1>9. ASSUME NEW a, rtw_acl_add_sta(a) \/ rtw_acl_remove_sta(a) \/ rtw_set_macaddr_acl(a)
        PROVE  ApInv'
    BY <1>9, AclStep DEF rtw_acl_add_sta, rtw_acl_remove_sta, rtw_set_macaddr_acl
  <1>10. ASSUME NEW out \in SUBSET authL, ExpireAuth(out) PROVE ApInv'
    BY <1>10, ExpireAuthStep
  <1>11. ASSUME NEW o \in asocL, NEW u \in BOOLEAN, rtw_sta_flush(o) \/ ExpireAsoc(o, u)
         PROVE  ApInv'
    BY <1>11, LeaveStep DEF rtw_sta_flush, ExpireAsoc
  <1>12. ASSUME NEW b, rtw_set_beacon(b) PROVE ApInv'
    BY <1>12, BeaconStep
  <1>13. CASE ApNext
    BY <1>1, <1>2, <1>3, <1>4, <1>5, <1>6, <1>7, <1>8, <1>9, <1>10, <1>11, <1>12, <1>13,
       StopStep, FreeAllStep DEF ApNext
  <1> QED
    BY <1>13, StutterStep

\* The invariant implies both properties.
LEMMA ApInvSays == ApInv => StationsSound /\ AbilitiesTold
  <1> SUFFICES ASSUME ApInv PROVE StationsSound /\ AbilitiesTold
    OBVIOUS
  <1>1. CASE apOn # "on"
    BY <1>1 DEF StationsSound, TableSound, Admitted, AbilitiesTold
  <1>2. CASE apOn = "on"
    <2>0. Sound /\ ApTypeOK
      BY <1>2 DEF ApInv, Sound
    <2>1. ASSUME NEW a \in ApAddrs PROVE Cardinality(rtw_get_stainfo(a)) <= 1
      <3>1. rtw_get_stainfo(a) \subseteq Allocated
        BY ApAssocAssumption DEF rtw_get_stainfo, Allocated
      <3>2. \A o, p \in rtw_get_stainfo(a) : o = p
        BY <2>0, <3>1 DEF Sound, OnePer, rtw_get_stainfo
      <3>3. CASE rtw_get_stainfo(a) = {}
        BY <3>3, FS_EmptySet
      <3>4. CASE rtw_get_stainfo(a) # {}
        <4>1. PICK o : o \in rtw_get_stainfo(a)
          BY <3>4
        <4>2. rtw_get_stainfo(a) = {o}
          BY <4>1, <3>2
        <4>3. Cardinality({o}) = 1
          BY FS_Singleton
        <4> QED
          BY <4>2, <4>3
      <3> QED
        BY <3>3, <3>4
    <2>2. TableSound
      BY <2>0, <2>1 DEF Sound, Listed, Counted, TableSound
    <2>3. Admitted
      BY <2>0 DEF Sound, Listed, PassedOK, Admitted
    <2>4. \A c \in Caps : num[c] >= Cardinality({o \in Allocated : c \in sta[o].set})
      BY <2>0 DEF Sound, NumCovers, Lacking
    <2>5. ASSUME erp.on, erp.start, ~ truth.replaced, \E o \in asocL : "erp" \in sta[o].set
          PROVE  "erp" \in erp.bits /\ \A o \in asocL : sta[o].rts
      <3>1. PICK o \in asocL : "erp" \in sta[o].set
        BY <2>5
      <3>2. o \in Objs /\ o \in Lacking("erp") /\ Lacking("erp") \in SUBSET Objs
        BY <2>0, <3>1 DEF Lacking, Sound, Listed, Allocated
      <3>3. Cardinality(Lacking("erp")) \in Nat /\ Cardinality(Lacking("erp") \ {o}) \in Nat
        BY <3>2, ObjsFinite
      <3>4. Cardinality(Lacking("erp") \ {o}) = Cardinality(Lacking("erp")) - 1
        BY <3>2, TakeOut
      <3>5. num["erp"] >= Cardinality(Lacking("erp")) /\ num["erp"] \in Int
        BY <2>0 DEF Sound, NumCovers, Caps, ApTypeOK
      <3>6. num["erp"] > 0
        BY <3>3, <3>4, <3>5
      <3> QED
        BY <2>0, <2>5, <3>6 DEF Sound, Protects
    <2> QED
      BY <2>2, <2>3, <2>4, <2>5 DEF StationsSound, AbilitiesTold
  <1> QED
    BY <1>1, <1>2

\* For any number of objects, addresses and setups: the lists, the counters and
\* the table of stations tell the same, and a station is associated only after
\* the exchange its mode asks for (OnAuth, OnAssocReq, expire_timeout_chk,
\* ap_free_sta).
THEOREM StationsKept == ApSpec => []StationsSound
  <1>1. ApInv => StationsSound
    BY ApInvSays
  <1> QED
    BY <1>1, ApInitInv, ApStepInv, PTL DEF ApSpec

\* For any number of objects, addresses and setups: the num_sta_ counters never
\* fall below the stations that lack an ability, and until the daemon replaces the
\* beacon every associated station protects its frames while one of them has no
\* ERP (bss_cap_update_on_sta_join, ap_free_sta, associated_clients_update).
THEOREM AbilitiesKept == ApSpec => []AbilitiesTold
  <1>1. ApInv => AbilitiesTold
    BY ApInvSays
  <1> QED
    BY <1>1, ApInitInv, ApStepInv, PTL DEF ApSpec

=============================================================================
