------------------------- MODULE RecvReorderProofs -------------------------
(***************************************************************************)
(* Proofs about RecvReorder for every window size, sequence space, pool    *)
(* and number of frames.                                                   *)
(*                                                                         *)
(* The argument: the driver only sees numbers modulo M, so the lemmas Sn*  *)
(* say when its comparisons are those of the absolute numbers, namely as   *)
(* long as the two lie within half the space. OrderInv names the absolute  *)
(* window start w behind indicate_seq and keeps the sender, the list and   *)
(* the released frames that close to it, in each of three modes: without   *)
(* agreement (Direct), before the first frame of an agreement (Fresh), and *)
(* with a window (Aligned). The order, the drops and the size of the list  *)
(* then follow. Where an agreement is ended or the station is freed under  *)
(* the receiver's feet the order may be lost, so the theorems about it are *)
(* about histories without; typing, the bound of the pool and the timer    *)
(* are proved with both.                                                   *)
(***************************************************************************)
EXTENDS RecvReorder, SequenceTheorems, FiniteSetTheorems, WellFoundedInduction, TLAPS
-----------------------------------------------------------------------------
(***************************************************************************)
(* The arithmetic of sequence numbers.                                     *)
(***************************************************************************)
\* Integer division.
LEMMA DivisionLaw ==
  ASSUME NEW m \in Nat, m > 0, NEW a \in Int
  PROVE  \E q \in Int : a % m = a - m * q
  <1>1. a % m = a - m * (a \div m)
    BY Z3
  <1>2. (a \div m) \in Int
    OBVIOUS
  <1> QED
    BY <1>1, <1>2

\* A remainder is its own remainder.
LEMMA Remainder ==
  ASSUME NEW m \in Nat, m > 0, NEW q \in Int, NEW r \in 0 .. m - 1
  PROVE  (m * q + r) % m = r
  OBVIOUS

\* The sequence space is twice its half.
LEMMA MType == M \in Nat /\ M > 0 /\ HALF \in Nat /\ HALF >= 2 /\ M = 2 * HALF
  BY ReorderAssumption DEF M

\* The number on the air is a sequence number.
LEMMA SnType == ASSUME NEW a \in Int PROVE Sn(a) \in Seqs
  BY MType DEF Sn, Seqs

\* indicate_seq + k modulo the space is the number of the k-th next frame.
LEMMA SnPlus ==
  ASSUME NEW a \in Int, NEW k \in Int
  PROVE  (Sn(a) + k) % M = Sn(a + k)
  <1>1. PICK p \in Int : Sn(a) = a - M * p
    BY DivisionLaw, MType DEF Sn
  <1>2. PICK q \in Int : Sn(a + k) = (a + k) - M * q
    BY DivisionLaw, MType DEF Sn
  <1>3. Sn(a + k) \in 0 .. M - 1
    BY SnType DEF Seqs
  <1>4. Sn(a) + k = M * (q - p) + Sn(a + k)
    <2>1. M * (q - p) = M * q - M * p
      BY MType
    <2>2. M * q \in Int /\ M * p \in Int
      BY MType
    <2> QED
      BY <1>1, <1>2, <2>1, <2>2, MType
  <1>5. q - p \in Int
    OBVIOUS
  <1>6. (M * (q - p) + Sn(a + k)) % M = Sn(a + k)
    BY <1>3, <1>5, Remainder, MType
  <1> QED
    BY <1>4, <1>6

\* SN_EQUAL tells frames apart that are less than the space apart.
LEMMA SnEqual ==
  ASSUME NEW a \in Int, NEW b \in Int, a - b < M, b - a < M
  PROVE  Sn(a) = Sn(b) <=> a = b
  <1>1. PICK p \in Int : Sn(a) = a - M * p
    BY DivisionLaw, MType DEF Sn
  <1>2. PICK q \in Int : Sn(b) = b - M * q
    BY DivisionLaw, MType DEF Sn
  <1> SUFFICES ASSUME Sn(a) = Sn(b) PROVE a = b
    OBVIOUS
  <1>3. a - b = M * (p - q)
    <2>1. M * (p - q) = M * p - M * q
      BY MType
    <2>2. M * q \in Int /\ M * p \in Int
      BY MType
    <2>3. a - M * p = b - M * q
      BY <1>1, <1>2
    <2> QED
      BY <2>1, <2>2, <2>3
  <1>4. p - q = 0
    <2>1. CASE p - q >= 1
      <3>1. M * (p - q) >= M
        BY <2>1, MType
      <3> QED
        BY <3>1, <1>3, MType
    <2>2. CASE p - q <= -1
      <3>1. M * (p - q) <= -M
        BY <2>2, MType
      <3> QED
        BY <3>1, <1>3, MType
    <2> QED
      BY <2>1, <2>2
  <1>5. M * 0 = 0
    BY MType
  <1> QED
    BY <1>3, <1>4, <1>5

\* SN_LESS compares frames rightly that are within half the space.
LEMMA SnLess ==
  ASSUME NEW a \in Int, NEW b \in Int, a - b < HALF, b - a <= HALF
  PROVE  SN_LESS(Sn(a), Sn(b)) <=> a < b
  <1>1. PICK q \in Int : Sn(b) = b - M * q
    BY DivisionLaw, MType DEF Sn
  <1>2. (Sn(a) + (- Sn(b))) % M = Sn(a - Sn(b))
    <2>1. - Sn(b) \in Int
      BY SnType DEF Seqs
    <2>2. a + (- Sn(b)) = a - Sn(b) /\ Sn(a) + (- Sn(b)) = Sn(a) - Sn(b)
      BY SnType DEF Seqs
    <2> QED
      BY SnPlus, <2>1, <2>2
  <1>3. a - Sn(b) = M * q + (a - b)
    <2>1. M * q \in Int
      BY MType
    <2> HIDE DEF Sn
    <2> QED
      BY <1>1, <2>1
  <1>4. CASE a >= b
    <2>1. (M * q + (a - b)) % M = a - b
      BY Remainder, MType, <1>4
    <2>2. Sn(a) - Sn(b) = Sn(a) + (- Sn(b))
      BY SnType DEF Seqs
    <2> QED
      BY <1>2, <1>3, <1>4, <2>1, <2>2, MType DEF SN_LESS, Sn
  <1>5. CASE a < b
    <2>1. M * q + (a - b) = M * (q - 1) + (a - b + M)
      <3>1. M * (q - 1) = M * q - M /\ M * q \in Int
        BY MType
      <3> QED
        BY <3>1, MType
    <2>2. (M * (q - 1) + (a - b + M)) % M = a - b + M
      <3>1. a - b + M \in 0 .. M - 1 /\ q - 1 \in Int
        BY MType, <1>5
      <3> QED
        BY <3>1, Remainder, MType
    <2>3. Sn(a) - Sn(b) = Sn(a) + (- Sn(b))
      BY SnType DEF Seqs
    <2> QED
      BY <1>2, <1>3, <1>5, <2>1, <2>2, <2>3, MType DEF SN_LESS, Sn
  <1> QED
    BY <1>4, <1>5

\* The two cases of "boundary situation, when seq_num cross 0xFFF" are
\* one: the window that ends with frame n starts wsize_b - 1 frames before.
LEMMA WindowStartIs ==
  ASSUME NEW n \in Int
  PROVE  WindowStart(Sn(n)) = Sn(n + 1 - wsize_b)
  <1> DEFINE s == Sn(n)
  <1>1. s \in 0 .. M - 1
    BY SnType DEF Seqs
  <1>2. wsize_b \in Nat \ {0} /\ wsize_b <= M
    BY ReorderAssumption DEF M
  <1>3. (s + (1 - wsize_b)) % M = Sn(n + (1 - wsize_b))
    BY SnPlus, <1>2
  <1> HIDE DEF s
  <1>4. CASE s >= wsize_b - 1
    <2>1. (M * 0 + (s + 1 - wsize_b)) % M = s + 1 - wsize_b
      BY Remainder, MType, <1>1, <1>2, <1>4
    <2>2. M * 0 + (s + 1 - wsize_b) = s + (1 - wsize_b)
      BY MType, <1>1, <1>2
    <2>3. n + (1 - wsize_b) = n + 1 - wsize_b
      BY <1>2
    <2> QED
      BY <1>3, <1>4, <2>1, <2>2, <2>3 DEF WindowStart, s
  <1>5. CASE s < wsize_b - 1
    <2>1. (M * (-1) + (M + s + 1 - wsize_b)) % M = M + s + 1 - wsize_b
      BY Remainder, MType, <1>1, <1>2, <1>5
    <2>2. M * (-1) + (M + s + 1 - wsize_b) = s + (1 - wsize_b)
      BY MType, <1>1, <1>2
    <2>3. n + (1 - wsize_b) = n + 1 - wsize_b
      BY <1>2
    <2>4. (M - 1) - (wsize_b - (s + 1)) + 1 = M + s + 1 - wsize_b
      BY MType, <1>1, <1>2
    <2>5. ~ (s >= wsize_b - 1)
      BY <1>1, <1>2, <1>5
    <2> QED
      BY <1>3, <2>5, <2>1, <2>2, <2>3, <2>4 DEF WindowStart, s
  <1> QED
    BY <1>1, <1>2, <1>4, <1>5

-----------------------------------------------------------------------------
(***************************************************************************)
(* Induction by a least counterexample, and the recursion of StartAfter.   *)
(***************************************************************************)
\* A non-empty set of naturals has a least element.
LEMMA LeastNat ==
  ASSUME NEW T \in SUBSET Nat, T # {}
  PROVE  \E k \in T : \A j \in T : ~ (j < k)
  <1>1. \E k \in T : \A j \in T : ~ (<<j, k>> \in OpToRel(<, Nat))
    BY NatLessThanWellFounded, WFMin
  <1> QED
    BY <1>1 DEF OpToRel

\* The window start after each frame: the recursion has a solution ...
LEMMA StartAfterExists ==
  ASSUME NEW ind, NEW q \in Seq(Frames)
  PROVE  \E a : a = [k \in 0 .. Len(q) |-> IF k = 0 THEN ind ELSE Bump(a[k - 1], q[k])]
  <1> DEFINE F(a, n) == [k \in 0 .. n |-> IF k = 0 THEN ind ELSE Bump(a[k - 1], q[k])]
             T == {n \in 0 .. Len(q) : ~ \E a : a = F(a, n)}
  <1> SUFFICES ASSUME T # {} PROVE FALSE
    <2> Len(q) \in 0 .. Len(q)
      OBVIOUS
    <2> QED
      OBVIOUS
  <1>1. T \in SUBSET Nat
    OBVIOUS
  <1>2. PICK n \in T : \A j \in T : ~ (j < n)
    <2> HIDE DEF T
    <2> QED
      BY <1>1, LeastNat
  <1>3. CASE n = 0
    <2> DEFINE b == [k \in 0 .. 0 |-> ind]
    <2>1. b = F(b, 0)
      OBVIOUS
    <2> QED
      BY <1>2, <1>3, <2>1
  <1>4. CASE n # 0
    <2>1. n - 1 \in 0 .. Len(q) /\ n - 1 < n /\ n \in Nat
      BY <1>2, <1>4
    <2>2. PICK a : a = F(a, n - 1)
      BY <1>2, <2>1
    <2> DEFINE b == [k \in 0 .. n |-> IF k = n THEN Bump(a[n - 1], q[n]) ELSE a[k]]
    <2>3. ASSUME NEW k \in 0 .. n
          PROVE  b[k] = IF k = 0 THEN ind ELSE Bump(b[k - 1], q[k])
      <3>1. CASE k = 0
        BY <3>1, <2>1, <2>2, <1>4
      <3>2. CASE k = n
        <4>1. k - 1 \in 0 .. n /\ k - 1 # n
          BY <3>2, <2>1
        <4>2. b[k - 1] = a[n - 1]
          BY <4>1, <3>2
        <4> QED
          BY <3>2, <4>2, <1>4
      <3>3. CASE k # 0 /\ k # n
        <4>1. k \in 0 .. n - 1 /\ k - 1 \in 0 .. n /\ k - 1 # n
          BY <3>3, <2>1
        <4>2. a[k] = Bump(a[k - 1], q[k])
          <5> HIDE DEF b
          <5> QED
            BY <4>1, <2>2, <3>3
        <4> QED
          BY <4>1, <4>2, <3>3
      <3> QED
        BY <3>1, <3>2, <3>3
    <2>4. b = F(b, n)
      <3> DEFINE g == F(b, n)
      <3>1. \A k \in 0 .. n : b[k] = g[k]
        BY <2>3
      <3>2. b = [k \in 0 .. n |-> b[k]] /\ g = [k \in 0 .. n |-> g[k]]
        OBVIOUS
      <3> HIDE DEF b, g
      <3>3. b = g
        BY <3>1, <3>2
      <3> QED
        BY <3>3 DEF g
    <2> QED
      BY <1>2, <2>4
  <1> QED
    BY <1>3, <1>4

\* ... which StartAfter is.
LEMMA StartAfterIs ==
  ASSUME NEW ind, NEW q \in Seq(Frames)
  PROVE  /\ StartAfter(ind, q)[0] = ind
         /\ \A k \in 1 .. Len(q) :
              StartAfter(ind, q)[k] = Bump(StartAfter(ind, q)[k - 1], q[k])
  <1> DEFINE a == StartAfter(ind, q)
  <1>1. a = [k \in 0 .. Len(q) |-> IF k = 0 THEN ind ELSE Bump(a[k - 1], q[k])]
    BY StartAfterExists DEF StartAfter
  <1>2. Len(q) \in Nat
    OBVIOUS
  <1> HIDE DEF a
  <1>3. a[0] = ind
    BY <1>1, <1>2
  <1>4. ASSUME NEW k \in 1 .. Len(q) PROVE a[k] = Bump(a[k - 1], q[k])
    BY <1>1, <1>2
  <1> QED
    BY <1>3, <1>4 DEF a

-----------------------------------------------------------------------------
(***************************************************************************)
(* The sorted list.                                                        *)
(***************************************************************************)
\* Sorted without duplicates.
Increasing(q) == \A i, j \in DOMAIN q : i < j => q[i] < q[j]

\* Numbers that the driver compares rightly with n.
Near(n) == {m \in Nat : m - n < HALF /\ n - m <= HALF}

\* The walk of enqueue_reorder_recvframe stops at one place of the list ...
LEMMA InsertAtType ==
  ASSUME pending \in Seq(Frames), NEW s
  PROVE  /\ InsertAt(s) \in 1 .. Len(pending) + 1
         /\ \A j \in 1 .. InsertAt(s) - 1 : SN_LESS(Sn(pending[j]), s)
         /\ InsertAt(s) <= Len(pending) => ~ SN_LESS(Sn(pending[InsertAt(s)]), s)
  <1> DEFINE stop(k) == k = Len(pending) + 1 \/ ~ SN_LESS(Sn(pending[k]), s)
             T == {k \in 1 .. Len(pending) + 1 : stop(k)}
  <1>1. Len(pending) + 1 \in T /\ T \in SUBSET Nat
    OBVIOUS
  <1>2. PICK k \in T : \A j \in T : ~ (j < k)
    <2> HIDE DEF T
    <2> QED
      BY <1>1, LeastNat
  <1>3. /\ \A j \in 1 .. k - 1 : SN_LESS(Sn(pending[j]), s)
        /\ k <= Len(pending) => ~ SN_LESS(Sn(pending[k]), s)
    BY <1>2
  <1> QED
    BY <1>3 DEF InsertAt

\* ... behind the smaller frames and before the others.
LEMMA InsertAtSplits ==
  ASSUME pending \in Seq(Frames), Increasing(pending), NEW n \in Frames,
         \A i \in DOMAIN pending : pending[i] \in Near(n)
  PROVE  /\ \A j \in 1 .. InsertAt(Sn(n)) - 1 : pending[j] < n
         /\ \A j \in InsertAt(Sn(n)) .. Len(pending) : n <= pending[j]
         /\ Duplicate(Sn(n)) <=> \E i \in DOMAIN pending : pending[i] = n
  <1> DEFINE k == InsertAt(Sn(n))
  <1>1. /\ k \in 1 .. Len(pending) + 1
        /\ \A j \in 1 .. k - 1 : SN_LESS(Sn(pending[j]), Sn(n))
        /\ k <= Len(pending) => ~ SN_LESS(Sn(pending[k]), Sn(n))
    BY InsertAtType
  <1>2. ASSUME NEW j \in 1 .. Len(pending)
        PROVE  /\ SN_LESS(Sn(pending[j]), Sn(n)) <=> pending[j] < n
               /\ Sn(pending[j]) = Sn(n) <=> pending[j] = n
               /\ pending[j] \in Nat /\ n \in Nat
    <2>1. pending[j] \in Nat /\ pending[j] - n < HALF /\ n - pending[j] <= HALF
      BY DEF Near
    <2>2. n \in Nat
      BY ReorderAssumption DEF Frames
    <2> QED
      BY <2>1, <2>2, SnLess, SnEqual, MType
  <1>3. Duplicate(Sn(n)) <=> k <= Len(pending) /\ Sn(pending[k]) = Sn(n)
    BY DEF Duplicate
  <1> HIDE DEF k
  <1>4. \A j \in 1 .. k - 1 : pending[j] < n
    BY <1>1, <1>2
  <1>5. ASSUME NEW j \in k .. Len(pending) PROVE n <= pending[j]
    <2>1. n <= pending[k]
      BY <1>1, <1>2
    <2>2. k = j \/ pending[k] < pending[j]
      BY <1>1 DEF Increasing
    <2> QED
      BY <1>1, <1>2, <2>1, <2>2
  <1>6. ASSUME NEW i \in DOMAIN pending, pending[i] = n
        PROVE  k <= Len(pending) /\ Sn(pending[k]) = Sn(n)
    <2>1. i >= k
      BY <1>1, <1>2, <1>4, <1>6
    <2>2. k \in 1 .. Len(pending) /\ n <= pending[k]
      BY <1>1, <1>2, <1>5, <2>1
    <2>3. k = i \/ pending[k] < pending[i]
      BY <2>1, <2>2 DEF Increasing
    <2> QED
      BY <1>2, <1>6, <2>2, <2>3
  <1>7. ASSUME k <= Len(pending), Sn(pending[k]) = Sn(n)
        PROVE  \E i \in DOMAIN pending : pending[i] = n
    BY <1>1, <1>2, <1>7
  <1> QED
    BY <1>3, <1>4, <1>5, <1>6, <1>7 DEF k

\* enqueue_reorder_recvframe puts the frame at InsertAt and keeps the rest.
LEMMA InsertType ==
  ASSUME pending \in Seq(Frames), NEW n \in Frames
  PROVE  /\ Insert(n) \in Seq(Frames) /\ Len(Insert(n)) = Len(pending) + 1
         /\ \A j \in 1 .. InsertAt(Sn(n)) - 1 : Insert(n)[j] = pending[j]
         /\ Insert(n)[InsertAt(Sn(n))] = n
         /\ \A j \in InsertAt(Sn(n)) + 1 .. Len(pending) + 1 : Insert(n)[j] = pending[j - 1]
  <1> DEFINE k == InsertAt(Sn(n))
             a == SubSeq(pending, 1, k - 1)
             b == SubSeq(pending, k, Len(pending))
  <1>1. k \in 1 .. Len(pending) + 1
    BY InsertAtType
  <1>2. Insert(n) = a \o <<n>> \o b
    BY DEF Insert
  <1> HIDE DEF k
  <1>3. /\ a \in Seq(Frames) /\ Len(a) = k - 1 /\ \A j \in 1 .. k - 1 : a[j] = pending[j]
        /\ b \in Seq(Frames) /\ Len(b) = Len(pending) - k + 1
        /\ \A j \in 1 .. Len(pending) - k + 1 : b[j] = pending[k + j - 1]
    BY <1>1
  <1> HIDE DEF a, b
  <1>4. /\ a \o <<n>> \in Seq(Frames) /\ Len(a \o <<n>>) = k
        /\ \A j \in 1 .. k - 1 : (a \o <<n>>)[j] = pending[j]
        /\ (a \o <<n>>)[k] = n
    <2> DEFINE e == <<n>>
    <2>1. e \in Seq(Frames) /\ Len(e) = 1 /\ e[1] = n
      OBVIOUS
    <2> HIDE DEF e
    <2>2. /\ a \o e \in Seq(Frames) /\ Len(a \o e) = k
          /\ \A j \in 1 .. k : (a \o e)[j] = IF j <= k - 1 THEN a[j] ELSE e[j - (k - 1)]
      <3>1. Len(a) = k - 1 /\ Len(a) + Len(e) = k
        BY <1>1, <1>3, <2>1
      <3>2. /\ a \o e \in Seq(Frames) /\ Len(a \o e) = Len(a) + Len(e)
            /\ \A j \in 1 .. Len(a) + Len(e) :
                 (a \o e)[j] = IF j <= Len(a) THEN a[j] ELSE e[j - Len(a)]
        BY <1>3, <2>1, ConcatProperties
      <3> QED
        BY <3>1, <3>2
    <2>3. \A j \in 1 .. k - 1 : (a \o e)[j] = pending[j]
      BY <1>1, <1>3, <2>2
    <2>4. (a \o e)[k] = n
      <3>1. k \in 1 .. k /\ ~ (k <= k - 1) /\ k - (k - 1) = 1
        BY <1>1
      <3> QED
        BY <2>1, <2>2, <3>1
    <2> QED
      BY <2>2, <2>3, <2>4 DEF e
  <1> DEFINE c == a \o <<n>>
  <1> HIDE DEF c
  <1>5. /\ c \o b \in Seq(Frames) /\ Len(c \o b) = Len(pending) + 1
        /\ \A j \in 1 .. k : (c \o b)[j] = c[j]
        /\ \A j \in k + 1 .. Len(pending) + 1 : (c \o b)[j] = b[j - k]
    <2>1. c \in Seq(Frames) /\ Len(c) = k
      BY <1>4 DEF c
    <2>2. /\ c \o b \in Seq(Frames) /\ Len(c \o b) = Len(c) + Len(b)
          /\ \A j \in 1 .. Len(c) + Len(b) :
               (c \o b)[j] = IF j <= Len(c) THEN c[j] ELSE b[j - Len(c)]
      BY <1>3, <2>1, ConcatProperties
    <2> QED
      BY <1>1, <1>3, <2>1, <2>2
  <1>6. \A j \in k + 1 .. Len(pending) + 1 : b[j - k] = pending[j - 1]
    <2> TAKE j \in k + 1 .. Len(pending) + 1
    <2>1. j - k \in 1 .. Len(pending) - k + 1 /\ k + (j - k) - 1 = j - 1
      BY <1>1
    <2> QED
      BY <1>3, <2>1
  <1> QED
    BY <1>1, <1>2, <1>4, <1>5, <1>6 DEF c, k

\* A frame that is not in the list is inserted in its place.
LEMMA InsertSorted ==
  ASSUME pending \in Seq(Frames), Increasing(pending), NEW n \in Frames,
         \A i \in DOMAIN pending : pending[i] \in Near(n), ~ Duplicate(Sn(n))
  PROVE  /\ Insert(n) \in Seq(Frames) /\ Len(Insert(n)) = Len(pending) + 1
         /\ Increasing(Insert(n))
         /\ \E i \in DOMAIN Insert(n) : Insert(n)[i] = n
         /\ \A i \in DOMAIN Insert(n) :
              Insert(n)[i] = n \/ \E j \in DOMAIN pending : Insert(n)[i] = pending[j]
  <1> DEFINE k == InsertAt(Sn(n))
             q == Insert(n)
  <1>1. k \in 1 .. Len(pending) + 1
    BY InsertAtType
  <1>2. /\ q \in Seq(Frames) /\ Len(q) = Len(pending) + 1
        /\ \A j \in 1 .. k - 1 : q[j] = pending[j]
        /\ q[k] = n
        /\ \A j \in k + 1 .. Len(pending) + 1 : q[j] = pending[j - 1]
    BY InsertType
  <1>3. /\ \A j \in 1 .. k - 1 : pending[j] < n
        /\ \A j \in k .. Len(pending) : n <= pending[j]
        /\ \A j \in DOMAIN pending : pending[j] # n
    BY InsertAtSplits
  <1>4. n \in Nat /\ \A j \in DOMAIN pending : pending[j] \in Nat
    BY ReorderAssumption DEF Frames, Near
  <1> HIDE DEF k, q
  <1>5. ASSUME NEW i \in DOMAIN q, NEW j \in DOMAIN q, i < j PROVE q[i] < q[j]
    <2>0. i \in 1 .. Len(pending) + 1 /\ j \in 1 .. Len(pending) + 1
      BY <1>2
    <2>1. CASE j < k
      BY <1>1, <1>2, <1>5, <2>0, <2>1 DEF Increasing
    <2>2. CASE j = k
      BY <1>1, <1>2, <1>3, <1>5, <2>0, <2>2
    <2>3. CASE j > k /\ i < k
      <3>1. q[j] = pending[j - 1] /\ q[i] = pending[i] /\ i < j - 1
        BY <1>1, <1>2, <2>0, <2>3
      <3> QED
        BY <1>1, <3>1, <2>0, <2>3 DEF Increasing
    <2>4. CASE j > k /\ i = k
      <3>1. j \in k + 1 .. Len(pending) + 1 /\ j - 1 \in k .. Len(pending)
        BY <1>1, <2>0, <2>4
      <3>2. q[j] = pending[j - 1] /\ n <= pending[j - 1] /\ q[i] = n
        BY <1>2, <1>3, <3>1, <2>4
      <3>3. j - 1 \in DOMAIN pending
        BY <1>1, <3>1
      <3>4. pending[j - 1] # n /\ pending[j - 1] \in Nat
        BY <1>3, <1>4, <3>3
      <3> QED
        BY <1>4, <3>2, <3>4
    <2>5. CASE j > k /\ i > k
      <3>1. q[j] = pending[j - 1] /\ q[i] = pending[i - 1] /\ i - 1 < j - 1
        BY <1>1, <1>2, <2>0, <2>5, <1>5
      <3> QED
        BY <1>1, <3>1, <2>0, <2>5 DEF Increasing
    <2> QED
      BY <1>1, <2>0, <2>1, <2>2, <2>3, <2>4, <2>5
  <1>6. k \in DOMAIN q
    BY <1>1, <1>2
  <1>7. ASSUME NEW i \in DOMAIN q, i # k
        PROVE  \E j \in DOMAIN pending : q[i] = pending[j]
    <2>1. CASE i < k
      BY <1>1, <1>2, <2>1
    <2>2. CASE i > k
      <3>1. i \in k + 1 .. Len(pending) + 1 /\ i - 1 \in 1 .. Len(pending)
        BY <1>1, <1>2, <2>2
      <3>2. i - 1 \in DOMAIN pending /\ q[i] = pending[i - 1]
        BY <1>2, <3>1
      <3> QED
        BY <3>2
    <2> QED
      BY <1>1, <1>2, <1>7, <2>1, <2>2
  <1> QED
    BY <1>2, <1>5, <1>6, <1>7 DEF q, Increasing

-----------------------------------------------------------------------------
(***************************************************************************)
(* The frames that are ready.                                              *)
(***************************************************************************)
\* Frames are naturals.
LEMMA FramesNat == Frames \subseteq Nat /\ M \in Nat
  BY ReorderAssumption, MType DEF Frames

\* recv_indicatepkts_in_order takes a prefix of the list ...
LEMMA ReadyType ==
  ASSUME NEW ind, NEW q \in Seq(Frames)
  PROVE  /\ Ready(ind, q) \in 0 .. Len(q)
         /\ \A j \in 1 .. Ready(ind, q) : ~ SN_LESS(StartAfter(ind, q)[j - 1], Sn(q[j]))
         /\ Ready(ind, q) < Len(q) =>
              SN_LESS(StartAfter(ind, q)[Ready(ind, q)], Sn(q[Ready(ind, q) + 1]))
  <1> DEFINE less(j) == SN_LESS(StartAfter(ind, q)[j], Sn(q[j + 1]))
             T == {k \in 0 .. Len(q) : k = Len(q) \/ less(k)}
  <1>1. Len(q) \in T /\ T \in SUBSET Nat
    OBVIOUS
  <1>2. PICK k \in T : \A j \in T : ~ (j < k)
    <2> HIDE DEF T
    <2> QED
      BY <1>1, LeastNat
  <1>3. \A j \in 0 .. k - 1 : ~ less(j)
    <2> HIDE DEF less
    <2> QED
      BY <1>2
  <1>4. \A j \in 1 .. k : ~ SN_LESS(StartAfter(ind, q)[j - 1], Sn(q[j]))
    <2> TAKE j \in 1 .. k
    <2>1. j - 1 \in 0 .. k - 1 /\ (j - 1) + 1 = j
      BY <1>2
    <2>2. ~ less(j - 1)
      BY <1>3, <2>1
    <2> QED
      BY <2>1, <2>2
  <1>5. k \in 0 .. Len(q) /\ (k < Len(q) => SN_LESS(StartAfter(ind, q)[k], Sn(q[k + 1])))
    BY <1>2
  <1> QED
    BY <1>4, <1>5 DEF Ready

\* ... up to the first hole behind frame v, where the window starts then.
LEMMA ReadyInOrder ==
  ASSUME NEW v \in Nat, NEW q \in Seq(Frames), Increasing(q),
         \A i \in DOMAIN q : v - q[i] < HALF /\ q[i] - v <= HALF
  PROVE  \E x \in Nat :
           LET k == Ready(Sn(v), q)
           IN  /\ StartAfter(Sn(v), q)[k] = Sn(x)
               /\ v <= x
               /\ x = v \/ (k >= 1 /\ x = q[k] + 1)
               /\ k >= 1 => q[k] < x
               /\ k < Len(q) => x < q[k + 1]
  <1> DEFINE k == Ready(Sn(v), q)
             S == StartAfter(Sn(v), q)
             x(j) == IF j >= 1 /\ q[j] >= v THEN q[j] + 1 ELSE v
  <1>1. /\ k \in 0 .. Len(q)
        /\ \A j \in 1 .. k : ~ SN_LESS(S[j - 1], Sn(q[j]))
        /\ k < Len(q) => SN_LESS(S[k], Sn(q[k + 1]))
    BY ReadyType
  <1>2. S[0] = Sn(v) /\ \A j \in 1 .. Len(q) : S[j] = Bump(S[j - 1], q[j])
    BY StartAfterIs
  <1>3. HALF \in Nat /\ HALF >= 2 /\ M = 2 * HALF /\ Len(q) \in Nat
    BY MType
  <1>4. ASSUME NEW i \in 1 .. Len(q)
        PROVE  q[i] \in Nat /\ v - q[i] < HALF /\ q[i] - v <= HALF
    <2> q[i] \in Frames /\ i \in DOMAIN q
      OBVIOUS
    <2> QED
      BY FramesNat
  <1>5. ASSUME NEW j \in 0 .. Len(q) PROVE x(j) \in Nat /\ v <= x(j) /\ (j >= 1 => q[j] < x(j))
    <2>1. CASE j = 0
      BY <2>1
    <2>2. CASE j # 0
      <3>1. j \in 1 .. Len(q) /\ q[j] \in Nat
        BY <1>3, <1>4, <2>2
      <3> QED
        BY <3>1
    <2> QED
      BY <2>1, <2>2
  <1>6. ASSUME NEW j \in 0 .. Len(q) - 1
        PROVE  /\ SN_LESS(Sn(x(j)), Sn(q[j + 1])) <=> x(j) < q[j + 1]
               /\ Sn(x(j)) = Sn(q[j + 1]) <=> x(j) = q[j + 1]
    <2>1. j + 1 \in 1 .. Len(q) /\ j \in 0 .. Len(q)
      BY <1>3
    <2>2. q[j + 1] \in Nat /\ v - q[j + 1] < HALF /\ q[j + 1] - v <= HALF
      BY <1>4, <2>1
    <2>3. x(j) \in Nat /\ v <= x(j)
      BY <1>5, <2>1
    <2>4. x(j) - q[j + 1] < HALF
      <3>1. CASE j >= 1 /\ q[j] >= v
        <4>1. j \in 1 .. Len(q) /\ j + 1 \in DOMAIN q /\ j \in DOMAIN q
          BY <2>1, <3>1
        <4>2. q[j] < q[j + 1] /\ q[j] \in Nat
          BY <4>1, <1>4 DEF Increasing
        <4> QED
          BY <3>1, <4>2, <2>2, <1>3
      <3>2. CASE ~ (j >= 1 /\ q[j] >= v)
        BY <3>2, <2>2
      <3> QED
        BY <3>1, <3>2
    <2> HIDE DEF x
    <2>5. q[j + 1] - x(j) <= HALF
      BY <2>2, <2>3, <1>3
    <2>6. x(j) - q[j + 1] < M /\ q[j + 1] - x(j) < M
      BY <2>2, <2>3, <2>4, <2>5, <1>3
    <2> QED
      BY <2>2, <2>3, <2>4, <2>5, <2>6, SnLess, SnEqual
  <1>7. \A j \in 0 .. k : S[j] = Sn(x(j))
    <2> DEFINE T == {j \in 0 .. k : S[j] # Sn(x(j))}
    <2> SUFFICES ASSUME T # {} PROVE FALSE
      OBVIOUS
    <2>1. T \in SUBSET Nat
      BY <1>1
    <2>2. PICK j \in T : \A i \in T : ~ (i < j)
      <3> HIDE DEF T
      <3> QED
        BY <2>1, LeastNat
    <2>3. j # 0
      BY <1>2, <2>2
    <2>4. /\ j \in 1 .. k /\ j \in 1 .. Len(q) /\ j - 1 \in 0 .. k /\ j - 1 < j
          /\ j - 1 \in 0 .. Len(q) - 1 /\ (j - 1) + 1 = j
      BY <1>1, <2>2, <2>3
    <2>5. S[j - 1] = Sn(x(j - 1))
      <3> HIDE DEF x, S
      <3> QED
        BY <2>2, <2>4
    <2>6. /\ SN_LESS(Sn(x(j - 1)), Sn(q[j])) <=> x(j - 1) < q[j]
          /\ Sn(x(j - 1)) = Sn(q[j]) <=> x(j - 1) = q[j]
      <3> HIDE DEF x, S
      <3> QED
        BY <1>6, <2>4
    <2>7. x(j - 1) \in Nat /\ v <= x(j - 1) /\ q[j] \in Nat
      <3> HIDE DEF x, S
      <3> QED
        BY <1>4, <1>5, <2>4
    <2>8. q[j] <= x(j - 1)
      <3> HIDE DEF x, S
      <3> QED
        BY <1>1, <2>4, <2>5, <2>6, <2>7
    <2>9. S[j] = IF q[j] = x(j - 1) THEN Sn(x(j - 1) + 1) ELSE Sn(x(j - 1))
      <3> HIDE DEF x, S
      <3>1. (Sn(x(j - 1)) + 1) % M = Sn(x(j - 1) + 1)
        BY <2>7, SnPlus
      <3> QED
        BY <1>2, <2>4, <2>5, <2>6, <3>1 DEF Bump
    <2>10. x(j) = IF q[j] = x(j - 1) THEN x(j - 1) + 1 ELSE x(j - 1)
      <3>1. CASE j - 1 >= 1 /\ q[j - 1] >= v
        <4>1. j - 1 \in DOMAIN q /\ j \in DOMAIN q /\ q[j - 1] \in Nat
          BY <2>4, <3>1, <1>4
        <4>2. q[j - 1] < q[j]
          BY <4>1, <2>4 DEF Increasing
        <4>3. x(j - 1) = q[j - 1] + 1
          BY <3>1
        <4>4. q[j] = x(j - 1) /\ q[j] >= v
          BY <2>7, <2>8, <3>1, <4>1, <4>2, <4>3
        <4>5. x(j) = q[j] + 1
          BY <2>4, <4>4
        <4> HIDE DEF x
        <4> QED
          BY <4>4, <4>5
      <3>2. CASE ~ (j - 1 >= 1 /\ q[j - 1] >= v)
        BY <3>2, <2>4, <2>7, <2>8
      <3> QED
        BY <3>1, <3>2
    <2> QED
      BY <2>2, <2>9, <2>10
  <1>8. k \in 0 .. Len(q) /\ k \in 0 .. k
    BY <1>1
  <1>9. x(k) \in Nat /\ v <= x(k) /\ (k >= 1 => q[k] < x(k))
    <2> HIDE DEF x
    <2> QED
      BY <1>5, <1>8
  <1>10. S[k] = Sn(x(k))
    <2> HIDE DEF x, S
    <2> QED
      BY <1>7, <1>8
  <1>11. k < Len(q) => x(k) < q[k + 1]
    <2>1. k < Len(q) => k \in 0 .. Len(q) - 1
      BY <1>8
    <2> HIDE DEF x, S
    <2> QED
      BY <1>1, <1>6, <1>10, <2>1
  <1>12. x(k) = v \/ (k >= 1 /\ x(k) = q[k] + 1)
    OBVIOUS
  <1> HIDE DEF x
  <1> QED
    BY <1>9, <1>10, <1>11, <1>12

-----------------------------------------------------------------------------
(***************************************************************************)
(* Types.                                                                  *)
(***************************************************************************)
\* Indicating gives at most the released frames back, and all of them unless
\* the driver is stopped.
LEMMA GoneCount ==
  ASSUME NEW fs \in Seq(Frames)
  PROVE  LET c == Cardinality({i \in DOMAIN fs : Goes(fs[i])})
         IN  c \in 0 .. Len(fs) /\ (~ bDriverStopped => c = Len(fs))
  <1> DEFINE G == {i \in DOMAIN fs : Goes(fs[i])}
  <1>1. DOMAIN fs = 1 .. Len(fs) /\ Len(fs) \in Nat
    OBVIOUS
  <1>2. IsFiniteSet(1 .. Len(fs)) /\ Cardinality(1 .. Len(fs)) = Len(fs)
    <2>1. 1 \in Int /\ Len(fs) \in Int
      OBVIOUS
    <2>2. IsFiniteSet(1 .. Len(fs))
          /\ Cardinality(1 .. Len(fs)) = IF 1 > Len(fs) THEN 0 ELSE Len(fs) - 1 + 1
      BY <2>1, FS_Interval
    <2> QED
      BY <1>1, <2>2
  <1>3. G \subseteq 1 .. Len(fs)
    BY <1>1
  <1>4. Cardinality(G) \in Nat /\ Cardinality(G) <= Len(fs)
    BY <1>2, <1>3, FS_Subset, FS_CardinalityType
  <1>5. ~ bDriverStopped => G = 1 .. Len(fs)
    BY <1>1 DEF Goes
  <1> HIDE DEF G
  <1>6. Cardinality(G) \in 0 .. Len(fs) /\ (~ bDriverStopped => Cardinality(G) = Len(fs))
    BY <1>1, <1>2, <1>4, <1>5
  <1> QED
    BY <1>6 DEF G
\* The tasklet holds a frame while it is working on one.
Hand == rpc \in {"frame", "direct"} <=> rframe # NoFrame
\* The frames in use do not exceed the pool.
PoolHolds ==
    free_recvframe_cnt + Len(pending) + (IF rframe = NoFrame THEN 0 ELSE 1) <= NR_RECVFRAME
\* The inductive form of the type invariant.
TypeInv == TypeOK /\ Hand /\ PoolHolds

\* The split of the list into what goes up and what stays.
LEMMA Split ==
  ASSUME NEW q \in Seq(Frames), NEW k \in 0 .. Len(q)
  PROVE  /\ SubSeq(q, 1, k) \in Seq(Frames) /\ Len(SubSeq(q, 1, k)) = k
         /\ \A i \in 1 .. k : SubSeq(q, 1, k)[i] = q[i]
         /\ SubSeq(q, k + 1, Len(q)) \in Seq(Frames)
         /\ Len(SubSeq(q, k + 1, Len(q))) = Len(q) - k
         /\ \A i \in 1 .. Len(q) - k : SubSeq(q, k + 1, Len(q))[i] = q[k + i]
  OBVIOUS

\* At most one frame is remembered.
LEMMA LastType ==
  ASSUME released \in Seq(Frames)
  PROVE  Last \in Seq(Frames)
  BY DEF Last

\* The loop of recv_indicatepkts_in_order leaves a sequence number.
LEMMA StartAfterType ==
  ASSUME NEW ind \in Seqs \cup {NoSeq}, ind # NoSeq, NEW q \in Seq(Frames), NEW k \in 0 .. Len(q)
  PROVE  StartAfter(ind, q)[k] \in Seqs
  <1> DEFINE S == StartAfter(ind, q)
             T == {j \in 0 .. Len(q) : S[j] \notin Seqs}
  <1>1. S[0] = ind /\ \A j \in 1 .. Len(q) : S[j] = Bump(S[j - 1], q[j])
    BY StartAfterIs
  <1> HIDE DEF S
  <1> SUFFICES ASSUME T # {} PROVE FALSE
    BY DEF S
  <1>2. T \in SUBSET Nat
    OBVIOUS
  <1>3. PICK j \in T : \A i \in T : ~ (i < j)
    <2> HIDE DEF T
    <2> QED
      BY <1>2, LeastNat
  <1>4. j # 0
    BY <1>1, <1>3
  <1>5. j \in 1 .. Len(q) /\ j - 1 \in 0 .. Len(q) /\ j - 1 < j
    BY <1>3, <1>4
  <1>6. S[j - 1] \in Seqs
    BY <1>3, <1>5
  <1>7. (S[j - 1] + 1) % M \in Seqs
    BY <1>6, MType DEF Seqs
  <1> QED
    BY <1>1, <1>3, <1>5, <1>6, <1>7 DEF Bump

\* So does check_indicate_seq.
LEMMA CheckType ==
  ASSUME indicate_seq \in Seqs \cup {NoSeq}, NEW s \in Seqs
  PROVE  /\ FirstStart(s) \in Seqs /\ check_indicate_seq(s) \in Seqs
  <1>1. FirstStart(s) \in Seqs
    BY DEF FirstStart
  <1>2. (FirstStart(s) + 1) % M \in Seqs
    BY <1>1, MType DEF Seqs
  <1>3. WindowStart(s) \in Seqs
    BY MType, ReorderAssumption DEF Seqs, WindowStart
  <1> QED
    BY <1>1, <1>2, <1>3 DEF check_indicate_seq

\* 0xffff is not a sequence number and no frame is NoFrame.
LEMMA SeqsFacts == NoSeq \notin Seqs /\ NoFrame \notin Frames /\ \A a \in Frames : Sn(a) \in Seqs
  BY SnType, FramesNat DEF Seqs, NoSeq, NoFrame, Frames

\* An accepted frame keeps the types and the bound of the pool.
LEMMA AcceptType ==
  ASSUME TypeInv, rpc = "frame", NEW ind \in Seqs, RxAccept(ind)
  PROVE  TypeInv'
  <1> DEFINE q == Insert(rframe)
             k == Ready(ind, q)
             c == Cardinality({i \in DOMAIN SubSeq(q, 1, k) : Goes(SubSeq(q, 1, k)[i])})
  <1>0. rframe \in Frames /\ rframe # NoFrame
    BY SeqsFacts DEF TypeInv, TypeOK, Hand
  <1>1. q \in Seq(Frames) /\ Len(q) = Len(pending) + 1
    BY <1>0, InsertType DEF TypeInv, TypeOK
  <1>2. k \in 0 .. Len(q)
    BY <1>1, ReadyType
  <1>3. /\ SubSeq(q, 1, k) \in Seq(Frames) /\ Len(SubSeq(q, 1, k)) = k
        /\ SubSeq(q, k + 1, Len(q)) \in Seq(Frames)
        /\ Len(SubSeq(q, k + 1, Len(q))) = Len(q) - k
    BY <1>1, <1>2, Split
  <1>4. c \in 0 .. k
    BY <1>3, GoneCount
  <1>5. StartAfter(ind, q)[k] \in Seqs
    BY <1>1, <1>2, SeqsFacts, StartAfterType
  <1>6. Last \o SubSeq(q, 1, k) \in Seq(Frames)
    BY <1>3, LastType, ConcatProperties DEF TypeInv, TypeOK
  <1>7. /\ indicate_seq' = StartAfter(ind, q)[k]
        /\ pending' = SubSeq(q, k + 1, Len(q))
        /\ released' = released \/ released' = Last \o SubSeq(q, 1, k)
        /\ free_recvframe_cnt' = free_recvframe_cnt + c
        /\ rframe' = NoFrame
        /\ \/ timer' = "armed" /\ rpc' = "idle"
           \/ timer' = timer /\ rpc' = "del_timer"
        /\ UNCHANGED <<enable, bDriverStopped, sta, tid_rxseq, hpc, sender>>
    BY DEF RxAccept, Indicate
  <1>8. Len(pending) \in Nat /\ NR_RECVFRAME \in Nat /\ free_recvframe_cnt \in Nat
        /\ free_recvframe_cnt + Len(pending) + 1 <= NR_RECVFRAME
    BY <1>0, ReorderAssumption DEF TypeInv, TypeOK, PoolHolds
  <1> HIDE DEF q, k, c
  <1>9. free_recvframe_cnt' \in 0 .. NR_RECVFRAME
        /\ free_recvframe_cnt' + Len(pending') <= NR_RECVFRAME
    <2>1. Len(pending') = Len(pending) + 1 - k /\ free_recvframe_cnt' = free_recvframe_cnt + c
      BY <1>1, <1>3, <1>7
    <2>2. k \in Nat /\ c \in Nat /\ c <= k /\ k <= Len(pending) + 1
      BY <1>1, <1>2, <1>4, <1>8
    <2> QED
      BY <1>8, <2>1, <2>2
  <1>10. TypeOK'
    BY <1>3, <1>5, <1>6, <1>7, <1>9 DEF TypeInv, TypeOK, sender
  <1>11. Hand' /\ PoolHolds'
    BY <1>7, <1>9, <1>3, <1>1, <1>2 DEF Hand, PoolHolds
  <1> QED
    BY <1>10, <1>11 DEF TypeInv

\* So does a refused one.
LEMMA RefuseType ==
  ASSUME TypeInv, rpc = "frame", NEW ind \in Seqs, RxRefuse(ind)
  PROVE  TypeInv'
  <1>1. rframe # NoFrame /\ free_recvframe_cnt + Len(pending) + 1 <= NR_RECVFRAME
        /\ free_recvframe_cnt \in Nat /\ NR_RECVFRAME \in Nat /\ Len(pending) \in Nat
    BY ReorderAssumption DEF TypeInv, TypeOK, Hand, PoolHolds
  <1>2. free_recvframe_cnt' \in 0 .. NR_RECVFRAME
        /\ free_recvframe_cnt' + Len(pending) <= NR_RECVFRAME
    BY <1>1 DEF RxRefuse
  <1>3. TypeOK'
    BY <1>2 DEF RxRefuse, TypeInv, TypeOK, sender
  <1>4. Hand' /\ PoolHolds'
    BY <1>2 DEF RxRefuse, Hand, PoolHolds
  <1> QED
    BY <1>3, <1>4 DEF TypeInv

\* The tasklet holds a frame exactly while it works on it.
LEMMA HandStep ==
  ASSUME Hand, [Next]_vars
  PROVE  Hand'
  <1>0. \A n \in Frames : n # NoFrame
    BY SeqsFacts
  <1>1. CASE (\E n \in Frames : RxFrame(n)) \/ Tasklet
    <2>1. CASE \E n \in Frames : RxFrame(n)
      BY <1>0, <2>1 DEF RxFrame, Hand
    <2>2. ASSUME NEW ind, RxRefuse(ind) \/ RxAccept(ind) PROVE Hand'
      BY <2>2 DEF RxRefuse, RxAccept, Hand
    <2>3. CASE RxReorder
      BY <2>2, <2>3 DEF RxReorder
    <2>4. CASE RxBypass \/ RxDirect \/ RxDirectIndicate \/ RxDelTimer
      BY <2>4 DEF RxBypass, RxDirect, RxDirectIndicate, RxDelTimer, Hand
    <2> QED
      BY <1>1, <2>1, <2>3, <2>4 DEF Tasklet
  <1>2. CASE OnAddba \/ OnDelba \/ TimerFire \/ TimerLock \/ TimerLoop
    BY <1>2 DEF OnAddba, OnDelba, TimerFire, TimerLock, TimerLoop, tasklet, Hand
  <1>3. CASE FreeUnhash \/ FreeDelTimer \/ FreePending \/ AllocSta \/ Stop \/ SenderAdvances
    BY <1>3 DEF FreeUnhash, FreeDelTimer, FreePending, AllocSta, Stop, SenderAdvances,
                tasklet, Hand
  <1>4. CASE UNCHANGED vars
    BY <1>4 DEF vars, tasklet, Hand
  <1> QED
    BY <1>1, <1>2, <1>3, <1>4 DEF Next

\* A race for indicate_seq leaves one of the two values.
LEMMA RacedType ==
  ASSUME indicate_seq \in Seqs \cup {NoSeq}, NEW v \in Seqs \cup {NoSeq}
  PROVE  Raced(v) \subseteq Seqs \cup {NoSeq}
  BY DEF Raced

\* Every step keeps the types and the bound of the pool.
LEMMA TypeStep ==
  ASSUME TypeInv, [Next]_vars
  PROVE  TypeInv'
  <1>0. /\ TypeOK /\ Hand' /\ NR_RECVFRAME \in Nat /\ MaxSeq \in Nat
        /\ free_recvframe_cnt \in Nat /\ Len(pending) \in Nat
        /\ free_recvframe_cnt + Len(pending) + (IF rframe = NoFrame THEN 0 ELSE 1) <= NR_RECVFRAME
    BY HandStep, ReorderAssumption DEF TypeInv, TypeOK, PoolHolds
  <1> SUFFICES TypeOK' /\ PoolHolds'
    BY <1>0 DEF TypeInv
  <1> USE DEF PoolHolds
  <1>1. ASSUME NEW n \in Frames, RxFrame(n) PROVE TypeOK' /\ PoolHolds'
    <2>1. rframe = NoFrame
      BY <1>1 DEF RxFrame, TypeInv, Hand
    <2>2. rframe' # NoFrame /\ Sn(n) \in Seqs
      BY <1>1, SeqsFacts DEF RxFrame
    <2>3. free_recvframe_cnt' \in 0 .. NR_RECVFRAME
      BY <1>0, <1>1 DEF RxFrame
    <2>4. TypeOK'
      BY <1>0, <1>1, <2>2, <2>3 DEF RxFrame, TypeOK, ctrl, tasklet, sender
    <2>5. PoolHolds'
      BY <1>0, <1>1, <2>1 DEF RxFrame, ctrl
    <2> QED
      BY <2>4, <2>5
  <1>2. CASE RxBypass
    <2>1. rframe # NoFrame
      BY <1>2 DEF RxBypass, TypeInv, Hand
    <2>2. free_recvframe_cnt' \in 0 .. NR_RECVFRAME
          /\ free_recvframe_cnt' + Len(pending) <= NR_RECVFRAME
      BY <1>0, <1>2, <2>1 DEF RxBypass
    <2> QED
      BY <1>0, <1>2, <2>2 DEF RxBypass, TypeOK, ctrl, sender
  <1>3. CASE RxDirect
    <2>1. rframe \in Frames
      BY <1>0, <1>3 DEF RxDirect, TypeInv, Hand, TypeOK
    <2>2. indicate_seq' \in Seqs \cup {NoSeq}
      BY <1>0, <1>3, <2>1, SeqsFacts, RacedType DEF RxDirect, TypeOK
    <2> QED
      BY <1>0, <1>3, <2>2 DEF RxDirect, TypeOK, ctrl, sender
  <1>4. CASE RxDirectIndicate
    <2>1. rframe # NoFrame /\ rframe \in Frames
      BY <1>0, <1>4 DEF RxDirectIndicate, TypeInv, Hand, TypeOK
    <2>2. (indicate_seq + 1) % M \in Seqs
      BY <1>0, MType DEF TypeOK, Seqs, NoSeq
    <2>3. indicate_seq' \in Seqs \cup {NoSeq}
      BY <1>0, <1>4, <2>2, RacedType DEF RxDirectIndicate, TypeOK
    <2>4. free_recvframe_cnt' \in 0 .. NR_RECVFRAME
          /\ free_recvframe_cnt' + Len(pending) <= NR_RECVFRAME
      BY <1>0, <1>4, <2>1 DEF RxDirectIndicate
    <2>5. released' \in Seq(Frames)
      BY <1>0, <1>4, <2>1, LastType DEF RxDirectIndicate, TypeOK
    <2> QED
      BY <1>0, <1>4, <2>3, <2>4, <2>5 DEF RxDirectIndicate, TypeOK, ctrl, sender
  <1>5. CASE RxReorder
    <2>1. Sn(rframe) \in Seqs
      BY <1>0, <1>5, SeqsFacts DEF RxReorder, TypeInv, Hand, TypeOK
    <2>2. FirstStart(Sn(rframe)) \in Seqs /\ check_indicate_seq(Sn(rframe)) \in Seqs
      BY <1>0, <2>1, CheckType DEF TypeOK
    <2>3. TypeInv'
      BY <1>5, <2>2, AcceptType, RefuseType DEF RxReorder
    <2> QED
      BY <2>3 DEF TypeInv
  <1>6. CASE RxDelTimer
    BY <1>0, <1>6 DEF RxDelTimer, TypeOK, ctrl, sender
  <1>7. CASE OnAddba \/ OnDelba
    <2>1. indicate_seq' \in Seqs \cup {NoSeq}
      BY <1>0, <1>7, RacedType DEF OnAddba, OnDelba, TypeOK
    <2> QED
      BY <1>0, <1>7, <2>1, ReorderAssumption DEF OnAddba, OnDelba, TypeOK, tasklet
  <1>8. CASE TimerFire
    BY <1>0, <1>8 DEF TimerFire, TypeOK, ctrl, tasklet, sender
  <1>9. CASE TimerLock
    <2>1. pending # << >> => Sn(Head(pending)) \in Seqs
      <3>1. pending # << >> => Head(pending) \in Frames
        BY <1>0 DEF TypeOK
      <3> QED
        BY <3>1, SeqsFacts
    <2>2. indicate_seq' \in Seqs \cup {NoSeq}
      BY <1>0, <1>9, <2>1 DEF TimerLock, TypeOK
    <2> QED
      BY <1>0, <1>9, <2>2 DEF TimerLock, TypeOK, tasklet, sender
  <1>10. CASE TimerLoop
    <2>1. CASE UNCHANGED <<ctrl, released, free_recvframe_cnt>>
      BY <1>0, <1>10, <2>1 DEF TimerLoop, TypeOK, ctrl, tasklet, sender
    <2>2. CASE /\ pending # << >> /\ pending' = Tail(pending)
               /\ indicate_seq' = Bump(indicate_seq, Head(pending))
               /\ Indicate(<<Head(pending)>>)
               /\ UNCHANGED <<enable, timer, hpc>>
      <3>1. Head(pending) \in Frames /\ Tail(pending) \in Seq(Frames)
            /\ Len(Tail(pending)) = Len(pending) - 1 /\ Len(pending) >= 1
        BY <1>0, <2>2 DEF TypeOK
      <3> DEFINE fs == <<Head(pending)>>
                 c == Cardinality({i \in DOMAIN fs : Goes(fs[i])})
      <3>2. fs \in Seq(Frames) /\ Len(fs) = 1 /\ fs # << >>
        BY <3>1
      <3>3. c \in 0 .. 1
        <4> HIDE DEF fs
        <4> QED
          BY <3>2, GoneCount
      <3>4. released' = Last \o fs /\ free_recvframe_cnt' = free_recvframe_cnt + c
        BY <2>2 DEF Indicate
      <3>5. released' \in Seq(Frames)
        <4> HIDE DEF fs
        <4> QED
          BY <1>0, <3>2, <3>4, LastType, ConcatProperties DEF TypeOK
      <3>6. indicate_seq' \in Seqs \cup {NoSeq}
        <4>1. (indicate_seq + 1) % M \in Seqs
          BY <1>0, MType DEF TypeOK, Seqs, NoSeq
        <4> QED
          BY <1>0, <2>2, <4>1 DEF Bump, TypeOK
      <3> HIDE DEF c, fs
      <3>7. free_recvframe_cnt' \in 0 .. NR_RECVFRAME
            /\ free_recvframe_cnt' + Len(pending') + (IF rframe = NoFrame THEN 0 ELSE 1)
                 <= NR_RECVFRAME
        BY <1>0, <2>2, <3>1, <3>3, <3>4
      <3> QED
        BY <1>0, <1>10, <2>2, <3>1, <3>5, <3>6, <3>7 DEF TimerLoop, TypeOK, tasklet, sender
    <2> QED
      BY <1>10, <2>1, <2>2 DEF TimerLoop, ctrl
  <1>11. CASE FreeUnhash \/ FreeDelTimer \/ Stop
    BY <1>0, <1>11 DEF FreeUnhash, FreeDelTimer, Stop, TypeOK, ctrl, tasklet, sender
  <1>12. CASE FreePending
    <2>1. free_recvframe_cnt' \in 0 .. NR_RECVFRAME
          /\ free_recvframe_cnt' + (IF rframe = NoFrame THEN 0 ELSE 1) <= NR_RECVFRAME
          /\ pending' = << >> /\ Len(<< >>) = 0
      BY <1>0, <1>12 DEF FreePending
    <2> QED
      BY <1>0, <1>12, <2>1 DEF FreePending, TypeOK, tasklet, sender
  <1>13. CASE AllocSta
    <2>1. pending' = << >> /\ Len(<< >>) = 0 /\ << >> \in Seq(Frames)
      BY <1>13 DEF AllocSta
    <2>2. TypeOK'
      BY <1>0, <1>13, <2>1 DEF AllocSta, TypeOK, sender
    <2>3. free_recvframe_cnt' = free_recvframe_cnt /\ rframe' = rframe /\ Len(pending') = 0
      BY <1>13, <2>1 DEF AllocSta
    <2> QED
      BY <1>0, <2>2, <2>3
  <1>14. CASE SenderAdvances
    BY <1>0, <1>14 DEF SenderAdvances, TypeOK, ctrl, tasklet
  <1>15. CASE UNCHANGED vars
    BY <1>0, <1>15 DEF vars, TypeOK, ctrl, tasklet, sender
  <1> QED
    BY <1>1, <1>2, <1>3, <1>4, <1>5, <1>6, <1>7, <1>8, <1>9, <1>10, <1>11, <1>12, <1>13,
       <1>14, <1>15 DEF Next, Tasklet

\* The initial state has them.
LEMMA TypeInit == Init => TypeInv
  <1> SUFFICES ASSUME Init PROVE TypeInv
    OBVIOUS
  <1>1. << >> \in Seq(Frames) /\ Len(<< >>) = 0
    OBVIOUS
  <1>2. NR_RECVFRAME \in Nat /\ MaxSeq \in Nat
    BY ReorderAssumption
  <1>3. TypeOK
    <2>1. free_recvframe_cnt \in 0 .. NR_RECVFRAME /\ wstart \in 0 .. MaxSeq + 1
      BY <1>2 DEF Init
    <2>2. pending \in Seq(Frames) /\ released \in Seq(Frames)
      BY <1>1 DEF Init
    <2> QED
      BY <2>1, <2>2 DEF Init, TypeOK
  <1>4. Hand /\ PoolHolds
    BY <1>1, <1>2 DEF Init, Hand, PoolHolds
  <1> QED
    BY <1>3, <1>4 DEF TypeInv

-----------------------------------------------------------------------------
(***************************************************************************)
(* The ordering invariant.                                                 *)
(***************************************************************************)
\* The last frame that went up.
LastReleased == IF released = << >> THEN -1 ELSE released[Len(released)]
\* The tasklet is about to reorder rframe.
InHand == rpc = "frame" /\ rframe \notin Bypass
\* The sender: its window, and how far it can be from what was heard.
SenderInv ==
    /\ agree = enable /\ sta = "alloc"
    /\ heard < wstart + (IF agree THEN wsize_b ELSE 1)
    /\ wstart <= heard + MaxLoss + 1
    /\ InHand => heard - wsize_b < rframe /\ rframe <= heard
\* No agreement: one frame at a time, recognised by tid_rxseq.
Direct ==
    /\ pending = << >> /\ timer = "off" /\ hpc = "idle"
    /\ LastReleased <= heard
    /\ LastReleased = wstart => tid_rxseq = Sn(wstart)
    /\ rpc \in {"frame", "direct"} =>
         /\ tid_rxseq = Sn(rframe) /\ rframe <= wstart
         /\ rframe \notin Bypass => LastReleased < rframe /\ rframe <= heard
    /\ rpc = "direct" => rframe \notin Bypass
\* An agreement whose first frame has not been through the reordering.
Fresh ==
    /\ pending = << >> /\ timer = "off" /\ hpc = "idle" /\ rpc # "direct"
    /\ LastReleased < wstart
    /\ IF InHand THEN LastReleased < rframe /\ rframe = heard ELSE heard < wstart
\* A window that starts at frame w: everything released is before it,
\* everything held is inside it, and it has only moved past frames that were
\* released, are too old to be sent again, or (in the handler) were given up.
Aligned(w) ==
    /\ indicate_seq = Sn(w) /\ rpc # "direct"
    /\ released # << >> /\ LastReleased < w
    /\ Increasing(pending)
    /\ \A i \in DOMAIN pending :
         /\ pending[i] <= heard /\ pending[i] < w + wsize_b
         /\ IF LockFree THEN w < pending[i] ELSE w <= pending[i]
    /\ w <= heard + 1
    /\ \/ heard < w + wsize_b
       \/ InHand /\ rframe = heard /\ heard < w + MaxLoss + 2 * wsize_b
    /\ \/ w <= LastReleased + 1
       \/ w <= heard + 1 - wsize_b
       \/ ~ LockFree /\ pending # << >> /\ w = pending[1]
\* The ordering invariant.
OrderInv ==
    /\ InOrder /\ SenderInv
    /\ IF ~ enable THEN Direct
       ELSE IF indicate_seq = NoSeq THEN Fresh ELSE \E w \in Nat : Aligned(w)

\* The constants, spelled out for arithmetic.
LEMMA ConstTypes ==
  /\ HALF \in Nat /\ wsize_b \in Nat /\ wsize_b >= 1 /\ MaxSeq \in Nat /\ MaxLoss \in Nat
  /\ MaxLoss + 2 * wsize_b <= HALF /\ NoFrame = -1
  BY ReorderAssumption DEF NoFrame

\* The variables, spelled out for arithmetic.
LEMMA IntTypes ==
  ASSUME TypeInv
  PROVE  /\ heard \in Int /\ heard >= -1 /\ wstart \in Nat /\ LastReleased \in Int /\ LastReleased >= -1
         /\ rpc \in {"frame", "direct"} => rframe \in Nat /\ rframe \in Frames
         /\ \A i \in DOMAIN pending : pending[i] \in Nat
         /\ \A i \in DOMAIN released : released[i] \in Nat
  <1>1. /\ heard \in Frames \cup {NoFrame} /\ wstart \in 0 .. MaxSeq + 1
        /\ released \in Seq(Frames) /\ pending \in Seq(Frames)
    BY DEF TypeInv, TypeOK
  <1>2. rpc \in {"frame", "direct"} => rframe \in Frames
    BY DEF TypeInv, TypeOK, Hand
  <1>3. released # << >> => released[Len(released)] \in Frames
    <2> SUFFICES ASSUME released # << >> PROVE released[Len(released)] \in Frames
      OBVIOUS
    <2>1. Len(released) \in DOMAIN released
      BY <1>1
    <2> QED
      BY <1>1, <2>1
  <1>4. LastReleased \in Int /\ LastReleased >= -1
    <2>1. CASE released = << >>
      BY <2>1 DEF LastReleased
    <2>2. CASE released # << >>
      <3>1. LastReleased = released[Len(released)] /\ LastReleased \in Nat
        BY <1>3, <2>2, FramesNat DEF LastReleased
      <3> QED
        BY <3>1
    <2> QED
      BY <2>1, <2>2
  <1>5. \A i \in DOMAIN pending : pending[i] \in Frames
    BY <1>1
  <1>6. \A i \in DOMAIN released : released[i] \in Frames
    BY <1>1
  <1>7. heard \in Int /\ heard >= -1
    <2>1. CASE heard = NoFrame
      BY <2>1, ConstTypes
    <2>2. CASE heard \in Frames
      BY <2>2, FramesNat
    <2> QED
      BY <1>1, <2>1, <2>2
  <1>8. wstart \in Nat
    BY <1>1, ConstTypes
  <1> QED
    BY <1>2, <1>4, <1>5, <1>6, <1>7, <1>8, FramesNat

\* Later frames keep the order of the released ones.
LEMMA ReleaseOrder ==
  ASSUME TypeInv, NEW fs \in Seq(Frames), fs # << >>, Increasing(fs),
         LastReleased < fs[1], released' = Last \o fs
  PROVE  InOrder' /\ released' # << >> /\ LastReleased' = fs[Len(fs)]
  <1>0. released \in Seq(Frames) /\ Last \in Seq(Frames)
    BY LastType DEF TypeInv, TypeOK
  <1>1. Len(fs) \in Nat /\ Len(fs) >= 1 /\ \A i \in 1 .. Len(fs) : fs[i] \in Nat
    <2>1. \A i \in 1 .. Len(fs) : fs[i] \in Frames
      OBVIOUS
    <2>2. Len(fs) \in Nat /\ Len(fs) >= 1
      OBVIOUS
    <2> QED
      BY <2>1, <2>2, FramesNat
  <1>2. CASE released = << >>
    <2>1. released' = fs
      BY <1>2, ConcatEmptySeq DEF Last
    <2> QED
      BY <1>1, <2>1 DEF InOrder, Increasing, LastReleased
  <1>3. CASE released # << >>
    <2> DEFINE l == released[Len(released)]
    <2>1. l \in Frames /\ l \in Nat /\ l < fs[1]
      <3>1. Len(released) \in DOMAIN released
        BY <1>0, <1>3
      <3>2. l \in Frames
        BY <1>0, <3>1
      <3> QED
        BY <1>3, <3>2, FramesNat DEF LastReleased
    <2> HIDE DEF l
    <2>2. Last = <<l>>
      BY <1>3 DEF Last, l
    <2>3. Len(Last) = 1 /\ Last[1] = l
      BY <2>2
    <2>4. /\ released' \in Seq(Frames) /\ Len(released') = 1 + Len(fs)
          /\ \A i \in 1 .. 1 + Len(fs) : released'[i] = IF i <= 1 THEN l ELSE fs[i - 1]
      <3>1. /\ Last \o fs \in Seq(Frames) /\ Len(Last \o fs) = Len(Last) + Len(fs)
            /\ \A i \in 1 .. Len(Last) + Len(fs) :
                 (Last \o fs)[i] = IF i <= Len(Last) THEN Last[i] ELSE fs[i - Len(Last)]
        BY <1>0, ConcatProperties
      <3>2. \A i \in 1 .. 1 + Len(fs) : i <= 1 => i = 1
        BY <1>1
      <3> QED
        BY <2>3, <3>1, <3>2
    <2>5. ASSUME NEW i \in DOMAIN released', NEW j \in DOMAIN released', i < j
          PROVE  released'[i] < released'[j]
      <3>1. i \in 1 .. 1 + Len(fs) /\ j \in 1 .. 1 + Len(fs) /\ j - 1 \in 1 .. Len(fs)
        BY <1>1, <2>4, <2>5
      <3>2. released'[j] = fs[j - 1] /\ fs[j - 1] \in Nat
        BY <1>1, <2>4, <3>1
      <3>3. CASE i = 1
        <4>1. 1 = j - 1 \/ fs[1] < fs[j - 1]
          BY <1>1, <3>1 DEF Increasing
        <4> QED
          BY <1>1, <2>1, <2>4, <3>1, <3>2, <3>3, <4>1
      <3>4. CASE i # 1
        <4>1. i - 1 \in 1 .. Len(fs) /\ released'[i] = fs[i - 1] /\ i - 1 < j - 1
          BY <1>1, <2>4, <2>5, <3>1, <3>4
        <4>2. i - 1 \in DOMAIN fs /\ j - 1 \in DOMAIN fs
          BY <1>1, <3>1, <4>1
        <4> QED
          BY <3>2, <4>1, <4>2 DEF Increasing
      <3> QED
        BY <3>3, <3>4
    <2>6. released'[Len(released')] = fs[Len(fs)] /\ released' # << >>
      <3>1. 1 + Len(fs) \in 1 .. 1 + Len(fs) /\ ~ (1 + Len(fs) <= 1) /\ 1 + Len(fs) - 1 = Len(fs)
        BY <1>1
      <3> QED
        BY <2>4, <3>1
    <2> QED
      BY <2>5, <2>6 DEF InOrder, LastReleased
  <1> QED
    BY <1>2, <1>3

\* s3 and s4 of recv_indicatepkt_reorder: w is the window start before the
\* frame, v the one check_indicate_seq makes of it.
LEMMA AcceptOrder ==
  ASSUME TypeInv, InOrder, InHand, LockFree, enable, NEW w \in Nat, NEW v \in Nat,
         Increasing(pending),
         \A i \in DOMAIN pending :
            w < pending[i] /\ pending[i] < w + wsize_b /\ pending[i] <= heard,
         LastReleased < w, w <= rframe, rframe <= heard,
         rframe < w + MaxLoss + 2 * wsize_b, ~ Duplicate(Sn(rframe)),
         \/ rframe = w /\ v = w + 1
         \/ /\ rframe > w /\ rframe < w + wsize_b /\ v = w /\ released # << >>
            /\ w <= LastReleased + 1 \/ w <= heard + 1 - wsize_b
         \/ rframe >= w + wsize_b /\ v = rframe + 1 - wsize_b /\ released # << >>,
         heard < v + wsize_b,
         RxAccept(Sn(v))
  PROVE  InOrder' /\ \E x \in Nat : Aligned(x)'
  <1> DEFINE q == Insert(rframe)
             k == Ready(Sn(v), q)
  <1>0. /\ heard \in Int /\ LastReleased \in Int /\ rframe \in Nat /\ rframe \in Frames
        /\ \A i \in DOMAIN pending : pending[i] \in Nat
    BY IntTypes DEF InHand
  <1>1. \A i \in DOMAIN pending : pending[i] \in Near(rframe)
    BY <1>0, ConstTypes DEF Near
  <1>2. /\ q \in Seq(Frames) /\ Len(q) = Len(pending) + 1 /\ Increasing(q)
        /\ \E i \in DOMAIN q : q[i] = rframe
        /\ \A i \in DOMAIN q : q[i] = rframe \/ \E j \in DOMAIN pending : q[i] = pending[j]
    BY <1>0, <1>1, InsertSorted DEF TypeInv, TypeOK
  <1> HIDE DEF q
  <1>3. \A i \in DOMAIN q : q[i] \in Nat /\ w <= q[i] /\ q[i] <= heard /\ q[i] < v + wsize_b
    <2> TAKE i \in DOMAIN q
    <2>1. CASE q[i] = rframe
      BY <1>0, <2>1, ConstTypes
    <2>2. CASE \E j \in DOMAIN pending : q[i] = pending[j]
      BY <1>0, <2>2, ConstTypes
    <2> QED
      BY <1>2, <2>1, <2>2
  <1>4. w <= v /\ v <= w + MaxLoss + wsize_b /\ v <= heard + 1
    BY <1>0, ConstTypes
  <1>5. \A i \in DOMAIN q : v - q[i] < HALF /\ q[i] - v <= HALF
    BY <1>3, <1>4, ConstTypes
  <1>6. PICK x \in Nat :
           /\ StartAfter(Sn(v), q)[k] = Sn(x)
           /\ v <= x
           /\ x = v \/ (k >= 1 /\ x = q[k] + 1)
           /\ k >= 1 => q[k] < x
           /\ k < Len(q) => x < q[k + 1]
    BY <1>2, <1>5, ReadyInOrder
  <1>7. k \in 0 .. Len(q)
    BY <1>2, ReadyType
  <1> DEFINE fs == SubSeq(q, 1, k)
             rest == SubSeq(q, k + 1, Len(q))
  <1>8. /\ fs \in Seq(Frames) /\ Len(fs) = k /\ \A i \in 1 .. k : fs[i] = q[i]
        /\ rest \in Seq(Frames) /\ Len(rest) = Len(q) - k
        /\ \A i \in 1 .. Len(q) - k : rest[i] = q[k + i]
    BY <1>2, <1>7, Split
  <1>9. /\ indicate_seq' = Sn(x) /\ pending' = rest
        /\ released' = IF fs = << >> THEN released ELSE Last \o fs
        /\ rpc' # "direct" /\ rpc' # "frame"
        /\ hpc' = hpc /\ heard' = heard
    BY <1>6 DEF RxAccept, Indicate, q, sender
  <1> HIDE DEF k, fs, rest
  <1>10. DOMAIN q = 1 .. Len(q) /\ Len(q) \in Nat /\ Len(q) >= 1 /\ k \in Nat
    BY <1>2, <1>7
  <1>11. k >= 1 => /\ InOrder' /\ released' # << >> /\ LastReleased' = q[k]
                   /\ k \in DOMAIN q
    <2> SUFFICES ASSUME k >= 1 PROVE /\ InOrder' /\ released' # << >> /\ LastReleased' = q[k]
                                     /\ k \in DOMAIN q
      OBVIOUS
    <2>1. fs # << >> /\ fs[1] = q[1] /\ fs[Len(fs)] = q[k] /\ 1 \in DOMAIN q /\ k \in DOMAIN q
      BY <1>7, <1>8, <1>10
    <2>2. Increasing(fs)
      <3> SUFFICES ASSUME NEW i \in 1 .. k, NEW j \in 1 .. k, i < j PROVE fs[i] < fs[j]
        BY <1>8 DEF Increasing
      <3>1. i \in DOMAIN q /\ j \in DOMAIN q
        BY <1>7, <1>10
      <3> QED
        BY <1>2, <1>8, <3>1 DEF Increasing
    <2>3. LastReleased < fs[1]
      BY <1>0, <1>3, <2>1
    <2>4. released' = Last \o fs
      BY <1>9, <2>1
    <2> QED
      BY <1>8, <2>1, <2>2, <2>3, <2>4, ReleaseOrder
  <1>12. k = 0 => released' = released /\ LastReleased' = LastReleased /\ InOrder'
    <2>1. k = 0 => fs = << >>
      BY <1>8
    <2> QED
      BY <1>9, <2>1 DEF LastReleased, InOrder
  <1>13. rframe = w /\ v = w + 1 => k >= 1
    <2> SUFFICES ASSUME rframe = w, v = w + 1, k = 0 PROVE FALSE
      BY <1>10
    <2>1. x < q[1] /\ 1 \in DOMAIN q
      BY <1>6, <1>10
    <2>2. PICK i \in DOMAIN q : q[i] = rframe
      BY <1>2
    <2>3. i = 1 \/ q[1] < q[i]
      BY <1>10, <1>2, <2>1 DEF Increasing
    <2> QED
      BY <1>3, <1>6, <2>1, <2>2, <2>3
  <1>14. InOrder' /\ released' # << >> /\ LastReleased' \in Int /\ LastReleased' < x
    <2>1. CASE k >= 1
      BY <1>3, <1>6, <1>11, <2>1
    <2>2. CASE k = 0
      BY <1>0, <1>4, <1>6, <1>12, <1>13, <2>2
    <2> QED
      BY <1>10, <2>1, <2>2
  <1>15. \/ x <= LastReleased' + 1
         \/ x <= heard + 1 - wsize_b
    <2>1. CASE k >= 1 /\ x = q[k] + 1
      BY <1>3, <1>11, <2>1
    <2>2. CASE x = v
      <3>1. CASE v = w + 1 /\ rframe = w
        <4>1. k >= 1 /\ q[k] < x /\ w <= q[k] /\ q[k] \in Nat
          BY <1>3, <1>6, <1>11, <1>13, <3>1
        <4> QED
          BY <1>11, <2>2, <3>1, <4>1
      <3>2. CASE v = w /\ (w <= LastReleased + 1 \/ w <= heard + 1 - wsize_b)
        <4>1. k = 0
          <5> SUFFICES ASSUME k >= 1 PROVE FALSE
            BY <1>10
          <5>1. q[k] < x /\ w <= q[k] /\ q[k] \in Nat
            BY <1>3, <1>6, <1>11
          <5> QED
            BY <2>2, <3>2, <5>1
        <4> QED
          BY <1>12, <2>2, <3>2, <4>1
      <3>3. CASE v = rframe + 1 - wsize_b
        BY <1>0, <2>2, <3>3, ConstTypes
      <3> QED
        BY <3>1, <3>2, <3>3
    <2> QED
      BY <1>6, <2>1, <2>2
  <1>16. ASSUME NEW i \in DOMAIN rest
         PROVE  rest[i] <= heard /\ rest[i] < x + wsize_b /\ x < rest[i]
    <2>1. i \in 1 .. Len(q) - k /\ k + i \in DOMAIN q /\ rest[i] = q[k + i] /\ k + 1 \in DOMAIN q
          /\ k < Len(q)
      BY <1>7, <1>8, <1>10
    <2>2. k + i = k + 1 \/ q[k + 1] < q[k + i]
      BY <1>2, <1>10, <2>1 DEF Increasing
    <2>3. q[k + i] \in Nat /\ q[k + 1] \in Nat /\ q[k + i] <= heard /\ q[k + i] < v + wsize_b
      BY <1>3, <2>1
    <2> QED
      BY <1>0, <1>6, <2>1, <2>2, <2>3, ConstTypes
  <1>17. Increasing(rest)
    <2> SUFFICES ASSUME NEW i \in DOMAIN rest, NEW j \in DOMAIN rest, i < j
                 PROVE  rest[i] < rest[j]
      BY DEF Increasing
    <2>1. /\ k + i \in DOMAIN q /\ k + j \in DOMAIN q /\ k + i < k + j
          /\ rest[i] = q[k + i] /\ rest[j] = q[k + j]
      BY <1>7, <1>8, <1>10
    <2> QED
      BY <1>2, <2>1 DEF Increasing
  <1>18. x <= heard + 1 /\ heard < x + wsize_b
    <2>1. CASE k >= 1 /\ x = q[k] + 1
      BY <1>0, <1>3, <1>6, <1>11, <2>1, ConstTypes
    <2>2. CASE x = v
      BY <1>4, <2>2
    <2> QED
      BY <1>6, <2>1, <2>2
  <1>19. LockFree'
    BY <1>9 DEF LockFree
  <1>20. Aligned(x)'
    BY <1>9, <1>14, <1>15, <1>16, <1>17, <1>18, <1>19 DEF Aligned, Increasing
  <1> QED
    BY <1>14, <1>20

\* One of the three modes.
Mode ==
    IF ~ enable THEN Direct
    ELSE IF indicate_seq = NoSeq THEN Fresh ELSE \E w \in Nat : Aligned(w)

\* The sender keeps to its window around what the receiver has heard.
LEMMA SenderStep ==
  ASSUME TypeInv, SenderInv, ~ Delba, ~ Teardown, [Next]_vars
  PROVE  SenderInv'
  <1>0. /\ heard \in Int /\ heard >= -1 /\ wstart \in Nat /\ agree \in BOOLEAN
        /\ rframe \in Int /\ Frames \subseteq Nat
        /\ wsize_b \in Nat /\ wsize_b >= 1 /\ MaxLoss \in Nat
    BY IntTypes, ConstTypes, FramesNat DEF TypeInv, TypeOK
  <1> USE DEF SenderInv, InHand
  <1>1. ASSUME NEW n \in Frames, RxFrame(n) PROVE SenderInv'
    <2>1. /\ n \in Nat /\ wstart <= n /\ n <= wstart + (IF agree THEN wsize_b ELSE 1) - 1
      BY <1>0, <1>1 DEF RxFrame, SendWindow
    <2>2. /\ rframe' = n /\ heard' = IF n > heard /\ n \notin Bypass THEN n ELSE heard
          /\ agree' = agree /\ wstart' = wstart /\ enable' = enable /\ sta' = sta
      BY <1>1 DEF RxFrame, ctrl
    <2> QED
      BY <1>0, <2>1, <2>2
  <1>2. CASE RxBypass \/ RxDirect \/ RxDirectIndicate \/ RxDelTimer
    BY <1>0, <1>2 DEF RxBypass, RxDirect, RxDirectIndicate, RxDelTimer, sender, ctrl
  <1>3. CASE RxReorder
    <2>1. rpc' # "frame" /\ UNCHANGED <<sender, enable, sta>>
      BY <1>3 DEF RxReorder, RxRefuse, RxAccept
    <2> QED
      BY <1>0, <2>1 DEF sender
  <1>4. CASE OnAddba
    BY <1>0, <1>4 DEF OnAddba, tasklet
  <1>5. CASE TimerFire \/ TimerLock \/ TimerLoop \/ Stop
    BY <1>0, <1>5 DEF TimerFire, TimerLock, TimerLoop, Stop, tasklet, sender, ctrl
  <1>6. CASE SenderAdvances
    BY <1>0, <1>6 DEF SenderAdvances, tasklet, ctrl
  <1>7. CASE OnDelba \/ FreeUnhash \/ FreeDelTimer \/ FreePending \/ AllocSta
    BY <1>7 DEF OnDelba, FreeUnhash, FreeDelTimer, FreePending, AllocSta
  <1>8. CASE UNCHANGED vars
    BY <1>0, <1>8 DEF vars, tasklet, sender, ctrl
  <1> QED
    BY <1>1, <1>2, <1>3, <1>4, <1>5, <1>6, <1>7, <1>8 DEF Next, Tasklet
\* With a window start w close to the frame, check_indicate_seq drops and
\* moves the window as it would on absolute numbers.
LEMMA AlignedUse ==
  ASSUME TypeInv, OrderInv, NEW w \in Nat, Aligned(w), InHand, LockFree, enable
  PROVE  /\ Sn(w) \in Seqs /\ Sn(w) # NoSeq
         /\ SN_LESS(Sn(rframe), Sn(w)) <=> rframe < w
         /\ rframe >= w =>
              \E v \in Nat :
                 /\ check_indicate_seq(Sn(rframe)) = Sn(v)
                 /\ \/ rframe = w /\ v = w + 1
                    \/ rframe > w /\ rframe < w + wsize_b /\ v = w
                    \/ rframe >= w + wsize_b /\ v = rframe + 1 - wsize_b
  <1>0. /\ heard \in Int /\ rframe \in Nat /\ wsize_b \in Nat /\ wsize_b >= 1
        /\ MaxLoss + 2 * wsize_b <= HALF /\ MaxLoss \in Nat /\ HALF \in Nat
        /\ M \in Nat /\ M = 2 * HALF
    BY IntTypes, ConstTypes, MType DEF InHand
  <1>1. /\ indicate_seq = Sn(w) /\ w <= heard + 1 /\ heard - wsize_b < rframe /\ rframe <= heard
        /\ heard < w + MaxLoss + 2 * wsize_b
    BY <1>0 DEF Aligned, OrderInv, SenderInv
  <1>2. Sn(w) \in Seqs /\ Sn(w) # NoSeq
    BY SnType, SeqsFacts
  <1>3. rframe - w < HALF /\ w - rframe <= HALF
    BY <1>0, <1>1
  <1>4. SN_LESS(Sn(rframe), Sn(w)) <=> rframe < w
    BY <1>0, <1>3, SnLess
  <1>5. Sn(rframe) = Sn(w) <=> rframe = w
    BY <1>0, <1>3, SnEqual
  <1>6. ASSUME rframe >= w
        PROVE  \E v \in Nat :
                 /\ check_indicate_seq(Sn(rframe)) = Sn(v)
                 /\ \/ rframe = w /\ v = w + 1
                    \/ rframe > w /\ rframe < w + wsize_b /\ v = w
                    \/ rframe >= w + wsize_b /\ v = rframe + 1 - wsize_b
    <2> DEFINE e == w + wsize_b - 1
    <2>1. e \in Int /\ e - rframe < HALF /\ rframe - e <= HALF
      BY <1>0, <1>3, <1>6
    <2>2. (Sn(w) + wsize_b - 1) % M = Sn(e)
      <3>1. (Sn(w) + (wsize_b - 1)) % M = Sn(w + (wsize_b - 1))
        BY <1>0, SnPlus
      <3>2. Sn(w) + (wsize_b - 1) = Sn(w) + wsize_b - 1 /\ w + (wsize_b - 1) = e
        BY <1>0, <1>2 DEF Seqs
      <3> QED
        BY <3>1, <3>2
    <2>3. SN_LESS(Sn(e), Sn(rframe)) <=> e < rframe
      BY <1>0, <2>1, SnLess
    <2> DEFINE c == check_indicate_seq(Sn(rframe))
    <2>4. c = IF Sn(rframe) = Sn(w) THEN (Sn(w) + 1) % M
              ELSE IF SN_LESS(Sn(e), Sn(rframe)) THEN WindowStart(Sn(rframe)) ELSE Sn(w)
      BY <1>1, <1>2, <2>2 DEF check_indicate_seq, FirstStart
    <2> HIDE DEF c
    <2>5. CASE rframe = w
      <3>1. (Sn(w) + 1) % M = Sn(w + 1)
        BY SnPlus
      <3>2. c = Sn(w + 1) /\ w + 1 \in Nat
        BY <1>5, <2>4, <2>5, <3>1
      <3> QED
        BY <2>5, <3>2 DEF c
    <2>6. CASE rframe >= w + wsize_b
      <3>1. c = WindowStart(Sn(rframe))
        BY <1>0, <1>5, <2>3, <2>4, <2>6
      <3>2. WindowStart(Sn(rframe)) = Sn(rframe + 1 - wsize_b)
        BY <1>0, WindowStartIs
      <3>3. rframe + 1 - wsize_b \in Nat
        BY <1>0, <2>6
      <3> QED
        BY <2>6, <3>1, <3>2, <3>3 DEF c
    <2>7. CASE rframe > w /\ rframe < w + wsize_b
      <3>1. c = Sn(w)
        BY <1>0, <1>5, <2>3, <2>4, <2>7
      <3> QED
        BY <2>7, <3>1 DEF c
    <2> QED
      BY <1>0, <1>6, <2>5, <2>6, <2>7
  <1> QED
    BY <1>2, <1>4, <1>6

\* ... and a duplicate is a frame that is in the list.
LEMMA DuplicateIs ==
  ASSUME TypeInv, NEW w \in Nat, Aligned(w), InHand, LockFree, rframe >= w,
         rframe <= heard
  PROVE  /\ \A i \in DOMAIN pending : pending[i] \in Near(rframe)
         /\ Duplicate(Sn(rframe)) <=> \E i \in DOMAIN pending : pending[i] = rframe
  <1>0. /\ heard \in Int /\ rframe \in Nat /\ rframe \in Frames /\ wsize_b \in Nat /\ wsize_b >= 1
        /\ MaxLoss + 2 * wsize_b <= HALF /\ MaxLoss \in Nat /\ HALF \in Nat
        /\ \A i \in DOMAIN pending : pending[i] \in Nat
    BY IntTypes, ConstTypes DEF InHand
  <1>1. heard < w + MaxLoss + 2 * wsize_b
    BY <1>0 DEF Aligned
  <1>2. \A i \in DOMAIN pending : w < pending[i] /\ pending[i] < w + wsize_b
    BY DEF Aligned
  <1>3. \A i \in DOMAIN pending : pending[i] \in Near(rframe)
    BY <1>0, <1>1, <1>2 DEF Near
  <1>4. pending \in Seq(Frames) /\ Increasing(pending)
    BY DEF TypeInv, TypeOK, Aligned
  <1> QED
    BY <1>0, <1>3, <1>4, InsertAtSplits

\* The first frame of an agreement sets the window.
LEMMA ReorderFresh ==
  ASSUME TypeInv, OrderInv, enable, indicate_seq = NoSeq, RxReorder
  PROVE  InOrder' /\ Mode'
  <1>0. InHand /\ Fresh /\ InOrder /\ LockFree
    BY DEF RxReorder, OrderInv, InHand
  <1>1. /\ heard \in Int /\ rframe \in Nat /\ wsize_b \in Nat /\ wsize_b >= 1
        /\ MaxLoss \in Nat /\ LastReleased \in Int
    BY <1>0, IntTypes, ConstTypes DEF InHand
  <1>2. Sn(rframe) \in Seqs /\ FirstStart(Sn(rframe)) = Sn(rframe)
    BY <1>1, SnType DEF FirstStart
  <1>3. ~ SN_LESS(Sn(rframe), Sn(rframe))
    BY <1>1, SnLess, MType
  <1>4. ~ Duplicate(Sn(rframe))
    <2>1. InsertAt(Sn(rframe)) \in 1 .. Len(pending) + 1 /\ Len(pending) = 0
      BY <1>0, InsertAtType DEF Fresh, TypeInv, TypeOK
    <2> QED
      BY <2>1 DEF Duplicate
  <1>5. check_indicate_seq(Sn(rframe)) = Sn(rframe + 1)
    <2>1. (Sn(rframe) + 1) % M = Sn(rframe + 1)
      BY <1>1, SnPlus
    <2> QED
      BY <1>2, <2>1 DEF check_indicate_seq
  <1>6. RxAccept(Sn(rframe + 1)) /\ enable' = enable
    BY <1>2, <1>3, <1>4, <1>5 DEF RxReorder, RxAccept
  <1>7. \E x \in Nat : Aligned(x)'
    <2>1. pending = << >> /\ Increasing(pending) /\ DOMAIN pending = {}
      BY <1>0 DEF Fresh, Increasing
    <2>2. LastReleased < rframe /\ rframe = heard
      BY <1>0 DEF Fresh
    <2>3. rframe + 1 \in Nat /\ rframe < rframe + MaxLoss + 2 * wsize_b
          /\ heard < rframe + 1 + wsize_b
      BY <1>1, <2>2
    <2> QED
      BY <1>0, <1>1, <1>4, <1>6, <2>1, <2>2, <2>3, AcceptOrder
  <1>8. InOrder'
    <2>1. pending = << >> /\ Increasing(pending) /\ DOMAIN pending = {}
      BY <1>0 DEF Fresh, Increasing
    <2>2. LastReleased < rframe /\ rframe = heard
      BY <1>0 DEF Fresh
    <2>3. rframe + 1 \in Nat /\ rframe < rframe + MaxLoss + 2 * wsize_b
          /\ heard < rframe + 1 + wsize_b
      BY <1>1, <2>2
    <2> QED
      BY <1>0, <1>1, <1>4, <1>6, <2>1, <2>2, <2>3, AcceptOrder
  <1>9. \A x \in Nat : Aligned(x)' => indicate_seq' # NoSeq
    BY SnType, SeqsFacts DEF Aligned
  <1> QED
    BY <1>6, <1>7, <1>8, <1>9 DEF Mode

\* A later frame is refused, or accepted in order.
LEMMA ReorderAligned ==
  ASSUME TypeInv, OrderInv, enable, NEW w \in Nat, Aligned(w), RxReorder
  PROVE  InOrder' /\ Mode'
  <1>0. InHand /\ InOrder /\ LockFree /\ indicate_seq = Sn(w)
    BY DEF RxReorder, OrderInv, InHand, Aligned
  <1>1. /\ heard \in Int /\ rframe \in Nat /\ wsize_b \in Nat /\ wsize_b >= 1
        /\ MaxLoss \in Nat /\ LastReleased \in Int
    BY <1>0, IntTypes, ConstTypes DEF InHand
  <1>2. /\ Sn(w) \in Seqs /\ Sn(w) # NoSeq
        /\ SN_LESS(Sn(rframe), Sn(w)) <=> rframe < w
    BY <1>0, AlignedUse
  <1>3. FirstStart(Sn(rframe)) = Sn(w)
    BY <1>0, <1>2 DEF FirstStart
  <1>4. rframe <= heard
    BY <1>0 DEF OrderInv, SenderInv
  <1>5. ASSUME RxRefuse(Sn(w)), heard < w + wsize_b PROVE InOrder' /\ Mode'
    <2>1. /\ released' = released /\ pending' = pending /\ hpc' = hpc /\ rpc' = "idle"
          /\ enable' = enable /\ heard' = heard /\ indicate_seq' = Sn(w)
      BY <1>5 DEF RxRefuse, sender
    <2>2. Aligned(w)'
      BY <1>1, <1>5, <2>1 DEF Aligned, LockFree, LastReleased, Increasing
    <2>3. InOrder'
      BY <1>0, <2>1 DEF InOrder
    <2> QED
      BY <1>2, <2>1, <2>2, <2>3 DEF Mode
  <1>6. CASE rframe < w
    <2>1. RxRefuse(Sn(w))
      BY <1>2, <1>3, <1>6 DEF RxReorder
    <2>2. heard < w + wsize_b
      BY <1>1, <1>6 DEF Aligned
    <2> QED
      BY <1>5, <2>1, <2>2
  <1>7. CASE rframe >= w
    <2>1. PICK v \in Nat :
             /\ check_indicate_seq(Sn(rframe)) = Sn(v)
             /\ \/ rframe = w /\ v = w + 1
                \/ rframe > w /\ rframe < w + wsize_b /\ v = w
                \/ rframe >= w + wsize_b /\ v = rframe + 1 - wsize_b
      BY <1>0, <1>7, AlignedUse
    <2>2. Duplicate(Sn(rframe)) <=> \E i \in DOMAIN pending : pending[i] = rframe
      BY <1>0, <1>4, <1>7, DuplicateIs
    <2>3. \A i \in DOMAIN pending :
             w < pending[i] /\ pending[i] < w + wsize_b /\ pending[i] <= heard
      BY <1>0 DEF Aligned
    <2>4. ~ (rframe < w)
      BY <1>1, <1>7
    <2>5. CASE Duplicate(Sn(rframe))
      <3>1. w < rframe /\ rframe < w + wsize_b
        BY <2>2, <2>3, <2>5
      <3>2. v = w
        BY <1>1, <2>1, <3>1
      <3>3. RxRefuse(Sn(w))
        BY <1>2, <1>3, <2>1, <2>4, <2>5, <3>2 DEF RxReorder
      <3>4. heard < w + wsize_b
        BY <1>1, <3>1 DEF Aligned
      <3> QED
        BY <1>5, <3>3, <3>4
    <2>6. CASE ~ Duplicate(Sn(rframe))
      <3>1. RxAccept(Sn(v)) /\ enable' = enable
        BY <1>2, <1>3, <2>1, <2>4, <2>6 DEF RxReorder, RxAccept
      <3>2. heard < v + wsize_b /\ rframe < w + MaxLoss + 2 * wsize_b
        BY <1>1, <1>4, <1>7, <2>1 DEF Aligned
      <3>3. /\ released # << >> /\ LastReleased < w /\ Increasing(pending)
            /\ w <= LastReleased + 1 \/ w <= heard + 1 - wsize_b
        BY <1>0 DEF Aligned
      <3>4. InOrder' /\ \E x \in Nat : Aligned(x)'
        BY <1>0, <1>4, <1>7, <2>1, <2>3, <2>6, <3>1, <3>2, <3>3, AcceptOrder
      <3>5. \A x \in Nat : Aligned(x)' => indicate_seq' # NoSeq
        BY SnType, SeqsFacts DEF Aligned
      <3> QED
        BY <3>1, <3>4, <3>5 DEF Mode
    <2> QED
      BY <2>5, <2>6
  <1> QED
    BY <1>1, <1>6, <1>7

-----------------------------------------------------------------------------
(***************************************************************************)
(* Every step keeps a mode.                                                *)
(***************************************************************************)
\* Arithmetic of clauses that only get weaker.
LEMMA Weaker ==
  ASSUME NEW w \in Int, NEW a \in Int, NEW b \in Int, NEW c \in Int, a <= b
  PROVE  (w <= a + 1 => w <= b + 1) /\ (w <= a + 1 - c => w <= b + 1 - c)
  OBVIOUS

\* Every step keeps the order and one of the modes.
LEMMA ModeStep ==
  ASSUME TypeInv, OrderInv, ~ Delba, ~ Teardown, [Next]_vars
  PROVE  InOrder' /\ Mode'
  <1>0. /\ heard \in Int /\ heard >= -1 /\ wstart \in Nat /\ agree \in BOOLEAN
        /\ rframe \in Int /\ Frames \subseteq Nat /\ LastReleased \in Int
        /\ wsize_b \in Nat /\ wsize_b >= 1 /\ MaxLoss \in Nat
        /\ \A i \in DOMAIN pending : pending[i] \in Nat
    BY IntTypes, ConstTypes, FramesNat DEF TypeInv, TypeOK
  <1>a. InOrder /\ SenderInv /\ Mode
    BY DEF OrderInv, Mode
  <1>b. agree = enable /\ sta = "alloc" /\ heard < wstart + (IF agree THEN wsize_b ELSE 1)
        /\ wstart <= heard + MaxLoss + 1
    BY <1>a DEF SenderInv
  <1>1. ASSUME NEW n \in Frames, RxFrame(n) PROVE InOrder' /\ Mode'
    <2>1. /\ n \in Nat /\ wstart <= n /\ n <= wstart + (IF agree THEN wsize_b ELSE 1) - 1
          /\ Sn(n) # tid_rxseq /\ rpc = "idle" /\ ~ InHand
      BY <1>0, <1>1 DEF RxFrame, SendWindow, InHand
    <2>2. /\ rframe' = n /\ heard' = IF n > heard /\ n \notin Bypass THEN n ELSE heard
          /\ rpc' = "frame" /\ tid_rxseq' = Sn(n)
          /\ UNCHANGED <<enable, indicate_seq, pending, timer, hpc, released, wstart>>
      BY <1>1 DEF RxFrame, ctrl
    <2>3. InOrder' /\ LastReleased' = LastReleased
      BY <1>a, <2>2 DEF InOrder, LastReleased
    <2>4. heard' \in Int /\ heard <= heard'
      BY <1>0, <2>1, <2>2
    <2>5. CASE ~ enable
      <3>1. Direct /\ n = wstart
        BY <1>0, <1>a, <1>b, <2>1, <2>5 DEF Mode
      <3>2. LastReleased <= heard /\ heard <= wstart /\ LastReleased # wstart
        BY <1>0, <1>b, <2>1, <2>5, <3>1 DEF Direct
      <3>3. Direct'
        BY <1>0, <2>1, <2>2, <2>3, <2>4, <3>1, <3>2 DEF Direct
      <3> QED
        BY <2>2, <2>3, <2>5, <3>3 DEF Mode
    <2>6. CASE enable /\ indicate_seq = NoSeq
      <3>1. Fresh
        BY <1>a, <2>6 DEF Mode
      <3>2. Fresh'
        BY <1>0, <2>1, <2>2, <2>3, <2>4, <3>1 DEF Fresh, InHand
      <3> QED
        BY <2>2, <2>3, <2>6, <3>2 DEF Mode
    <2>7. CASE enable /\ indicate_seq # NoSeq
      <3>1. PICK w \in Nat : Aligned(w)
        BY <1>a, <2>7 DEF Mode
      <3>2. heard < w + wsize_b /\ n <= wstart + wsize_b - 1
        BY <1>0, <1>b, <2>1, <2>7, <3>1 DEF Aligned
      <3>3. \/ heard' < w + wsize_b
            \/ InHand' /\ rframe' = heard' /\ heard' < w + MaxLoss + 2 * wsize_b
        BY <1>0, <1>b, <2>1, <2>2, <3>2 DEF InHand
      <3>4. \A i \in DOMAIN pending :
              /\ pending[i] <= heard' /\ pending[i] < w + wsize_b
              /\ IF LockFree THEN w < pending[i] ELSE w <= pending[i]
        BY <1>0, <2>4, <3>1 DEF Aligned
      <3>5. w <= heard' + 1
            /\ \/ w <= LastReleased + 1
               \/ w <= heard' + 1 - wsize_b
               \/ ~ LockFree /\ pending # << >> /\ w = pending[1]
        <4>1. w <= heard + 1
              /\ \/ w <= LastReleased + 1
                 \/ w <= heard + 1 - wsize_b
                 \/ ~ LockFree /\ pending # << >> /\ w = pending[1]
          BY <3>1 DEF Aligned
        <4>2. heard \in Int /\ heard' \in Int /\ heard <= heard' /\ wsize_b \in Nat
          BY <1>0, <2>4
        <4>3. PICK a \in Int, b \in Int : a = heard /\ b = heard'
          BY <4>2
        <4>4. a <= b /\ w <= a + 1
          BY <4>1, <4>2, <4>3
        <4>5. w <= b + 1 /\ (w <= a + 1 - wsize_b => w <= b + 1 - wsize_b)
          BY <4>2, <4>4, Weaker
        <4> QED
          BY <4>1, <4>3, <4>5
      <3>6. /\ indicate_seq = Sn(w) /\ released # << >> /\ LastReleased < w
            /\ Increasing(pending)
        BY <3>1 DEF Aligned
      <3>7. Aligned(w)'
        BY <2>2, <2>3, <3>3, <3>4, <3>5, <3>6 DEF Aligned, LockFree, Increasing
      <3> QED
        BY <2>2, <2>3, <2>7, <3>7 DEF Mode
    <2> QED
      BY <2>5, <2>6, <2>7
  <1>2. CASE RxBypass \/ RxDelTimer
    <2>1. /\ UNCHANGED <<enable, indicate_seq, pending, hpc, released, wstart, heard, tid_rxseq>>
          /\ ~ InHand /\ rpc' = "idle" /\ ~ InHand' /\ (timer' = timer \/ timer' = "off")
      BY <1>2 DEF RxBypass, RxDelTimer, InHand, ctrl, sender
    <2>2. InOrder' /\ LastReleased' = LastReleased
      BY <1>a, <2>1 DEF InOrder, LastReleased
    <2>3. Direct => Direct'
      BY <2>1, <2>2 DEF Direct
    <2>4. Fresh => Fresh'
      BY <2>1, <2>2 DEF Fresh
    <2>5. ASSUME NEW w \in Nat, Aligned(w) PROVE Aligned(w)'
      BY <2>1, <2>2, <2>5 DEF Aligned, Increasing, LockFree
    <2> QED
      BY <1>a, <2>1, <2>2, <2>3, <2>4, <2>5 DEF Mode
  <1>3. CASE RxDirect
    <2>1. Direct /\ ~ enable
      BY <1>3, <1>a DEF RxDirect, Mode
    <2>2. /\ UNCHANGED <<enable, pending, timer, hpc, released, wstart, heard, rframe, tid_rxseq>>
          /\ rpc' = "direct" /\ rpc = "frame" /\ rframe \notin Bypass
      BY <1>3, <1>b DEF RxDirect, sender, SenderInv, TypeInv, TypeOK
    <2>3. InOrder' /\ LastReleased' = LastReleased
      BY <1>a, <2>2 DEF InOrder, LastReleased
    <2> QED
      BY <2>1, <2>2, <2>3 DEF Direct, Mode
  <1>4. CASE RxDirectIndicate
    <2>1. Direct /\ ~ enable /\ rpc = "direct"
      BY <1>4, <1>a DEF RxDirectIndicate, Mode, Fresh, Aligned
    <2>2. /\ UNCHANGED <<enable, pending, timer, hpc, wstart, heard, tid_rxseq>>
          /\ rpc' = "idle" /\ released' = Append(Last, rframe)
      BY <1>4 DEF RxDirectIndicate, sender
    <2>3. /\ LastReleased < rframe /\ rframe <= heard /\ tid_rxseq = Sn(rframe)
          /\ rframe \in Frames /\ rframe \in Nat
      BY <2>1, IntTypes DEF Direct
    <2> DEFINE fs == <<rframe>>
    <2>4. fs \in Seq(Frames) /\ fs # << >> /\ Len(fs) = 1 /\ fs[1] = rframe
      BY <2>3
    <2>5. Increasing(fs)
      BY DEF Increasing
    <2>6. released' = Last \o fs
      <3>1. Last \in Seq(Frames)
        BY LastType DEF TypeInv, TypeOK
      <3> QED
        BY <2>2, <2>3, <3>1, AppendIsConcat
    <2> HIDE DEF fs
    <2>7. InOrder' /\ LastReleased' = rframe
      BY <2>3, <2>4, <2>5, <2>6, ReleaseOrder
    <2> QED
      BY <2>1, <2>2, <2>3, <2>7 DEF Direct, Mode
  <1>5. CASE RxReorder
    <2>1. enable
      BY <1>5 DEF RxReorder
    <2>2. CASE indicate_seq = NoSeq
      BY <1>5, <2>1, <2>2, ReorderFresh
    <2>3. CASE indicate_seq # NoSeq
      <3>1. PICK w \in Nat : Aligned(w)
        BY <1>a, <2>1, <2>3 DEF Mode
      <3> QED
        BY <1>5, <2>1, <3>1, ReorderAligned
    <2> QED
      BY <2>2, <2>3
  <1>6. CASE OnAddba
    <2>1. Direct /\ ~ enable /\ rpc = "idle" /\ heard < wstart /\ hpc = "idle"
      BY <1>6, <1>a, <1>b DEF OnAddba, Mode, Direct
    <2>2. /\ indicate_seq' = NoSeq
          /\ UNCHANGED <<pending, timer, hpc, wstart, heard, rpc, rframe, tid_rxseq, released>>
      BY <1>6, <2>1 DEF OnAddba, Raced, tasklet
    <2>3. InOrder' /\ LastReleased' = LastReleased
      BY <1>a, <2>2 DEF InOrder, LastReleased
    <2>4. Direct' /\ Fresh'
      BY <1>0, <2>1, <2>2, <2>3 DEF Direct, Fresh, InHand
    <2> QED
      BY <2>2, <2>3, <2>4 DEF Mode
  <1>7. CASE TimerFire
    <2>1. timer = "armed" /\ hpc = "idle" /\ hpc' # "loop"
          /\ UNCHANGED <<enable, indicate_seq, pending, released, rpc, rframe, heard>>
      BY <1>7 DEF TimerFire, ctrl, tasklet, sender
    <2>2. PICK w \in Nat : Aligned(w)
      BY <1>a, <2>1 DEF Mode, Direct, Fresh
    <2>3. Aligned(w)'
      BY <2>1, <2>2 DEF Aligned, LastReleased, Increasing, LockFree, InHand
    <2> QED
      BY <1>a, <2>1, <2>3, <2>2 DEF InOrder, Mode, Direct, Fresh
  <1>8. CASE TimerLock
    <2>1. hpc = "lock"
          /\ UNCHANGED <<enable, pending, released, rpc, rframe, heard>>
      BY <1>8 DEF TimerLock, tasklet, sender
    <2>2. PICK w \in Nat : Aligned(w)
      BY <1>a, <2>1 DEF Mode, Direct, Fresh
    <2>3. enable /\ indicate_seq # NoSeq /\ LockFree
      BY <1>a, <2>1 DEF Mode, Direct, Fresh, LockFree
    <2>4. InOrder' /\ LastReleased' = LastReleased
      BY <1>a, <2>1 DEF InOrder, LastReleased
    <2>5. CASE pending = << >>
      <3>1. indicate_seq' = indicate_seq /\ hpc' = "idle"
        BY <1>8, <2>5 DEF TimerLock
      <3>2. Aligned(w)'
        BY <2>1, <2>2, <2>3, <2>4, <3>1, <2>5 DEF Aligned, Increasing, LockFree, InHand
      <3> QED
        BY <2>1, <2>3, <2>4, <3>1, <3>2 DEF Mode
    <2>6. CASE pending # << >>
      <3>0. 1 \in DOMAIN pending
        BY <2>6 DEF TypeInv, TypeOK
      <3>p. PICK p \in Nat : p = pending[1]
        BY <1>0, <3>0
      <3>1. indicate_seq' = Sn(p) /\ hpc' = "loop"
        BY <1>8, <2>6, <3>p DEF TimerLock
      <3>2. 1 \in DOMAIN pending /\ p \in Nat /\ w < p /\ p <= heard
        <4>1. 1 \in DOMAIN pending /\ p = pending[1]
          BY <3>0, <3>p
        <4> QED
          BY <1>0, <2>2, <2>3, <4>1 DEF Aligned
      <3>3. \A i \in DOMAIN pending :
              pending[i] <= heard /\ pending[i] < p + wsize_b /\ p <= pending[i]
        <4> TAKE i \in DOMAIN pending
        <4>1. i = 1 \/ 1 < i
          BY DEF TypeInv, TypeOK
        <4>2. p <= pending[i]
          BY <1>0, <2>2, <3>2, <3>p, <4>1 DEF Aligned, Increasing
        <4> QED
          BY <1>0, <2>2, <3>2, <4>2 DEF Aligned
      <3>4. \/ heard < p + wsize_b
            \/ InHand /\ rframe = heard /\ heard < p + MaxLoss + 2 * wsize_b
        BY <1>0, <2>2, <3>2 DEF Aligned
      <3>5. /\ rpc # "direct" /\ released # << >> /\ LastReleased < p
            /\ Increasing(pending) /\ p <= heard + 1
        BY <1>0, <2>2, <3>2 DEF Aligned
      <3>6. pending[1] = p
        BY <3>p
      <3>7. Aligned(p)'
        BY <2>1, <2>4, <2>6, <3>1, <3>3, <3>4, <3>5, <3>6 DEF Aligned, Increasing, LockFree, InHand
      <3>8. indicate_seq' # NoSeq
        BY <3>1, <3>2, SnType, SeqsFacts
      <3> QED
        BY <2>1, <2>3, <2>4, <3>2, <3>7, <3>8 DEF Mode
    <2> QED
      BY <2>5, <2>6
  <1>9. CASE TimerLoop
    <2>1. hpc = "loop" /\ UNCHANGED <<enable, rpc, rframe, heard>>
      BY <1>9 DEF TimerLoop, tasklet, sender, ctrl
    <2>2. PICK w \in Nat : Aligned(w)
      BY <1>a, <2>1 DEF Mode, Direct, Fresh
    <2>3. enable /\ indicate_seq # NoSeq /\ ~ LockFree /\ indicate_seq = Sn(w)
      BY <1>a, <2>1, <2>2 DEF Mode, Direct, Fresh, LockFree, Aligned
    <2>4. CASE pending = << >>
      <3>1. hpc' = "idle" /\ UNCHANGED <<indicate_seq, pending, released>>
        BY <1>9, <2>4 DEF TimerLoop, ctrl
      <3>2. InOrder' /\ LastReleased' = LastReleased
        BY <1>a, <3>1 DEF InOrder, LastReleased
      <3>3. Aligned(w)'
        BY <2>1, <2>2, <2>4, <3>1, <3>2 DEF Aligned, Increasing, LockFree, InHand
      <3> QED
        BY <2>1, <2>3, <3>1, <3>2, <3>3 DEF Mode
    <2>5. CASE pending # << >>
      <3> DEFINE p == pending[1]
      <3>1. 1 \in DOMAIN pending /\ p \in Nat /\ p \in Frames /\ w <= p /\ p <= heard
            /\ p < w + wsize_b
        <4>1. 1 \in DOMAIN pending /\ p \in Frames
          BY <2>5 DEF TypeInv, TypeOK
        <4> QED
          BY <1>0, <2>2, <2>3, <4>1 DEF Aligned
      <3>2. /\ SN_LESS(indicate_seq, Sn(p)) <=> w < p
            /\ Sn(w) = Sn(p) <=> w = p
        <4>1. w - p < HALF /\ p - w <= HALF /\ w - p < M /\ p - w < M
          BY <1>0, <3>1, ConstTypes, MType
        <4> HIDE DEF p
        <4> QED
          BY <2>3, <3>1, <4>1, SnLess, SnEqual
      <3>3. \A i \in DOMAIN pending : i = 1 \/ p < pending[i]
        <4> TAKE i \in DOMAIN pending
        <4>1. i = 1 \/ 1 < i
          BY DEF TypeInv, TypeOK
        <4> QED
          BY <2>2, <3>1, <4>1 DEF Aligned, Increasing
      <3>4. CASE w < p
        <4>1. hpc' = "idle" /\ UNCHANGED <<indicate_seq, pending, released>>
          BY <1>9, <2>5, <3>2, <3>4 DEF TimerLoop, ctrl
        <4>2. InOrder' /\ LastReleased' = LastReleased
          BY <1>a, <4>1 DEF InOrder, LastReleased
        <4>3. \A i \in DOMAIN pending : w < pending[i]
          BY <1>0, <3>1, <3>3, <3>4
        <4>4. w # p
          BY <3>1, <3>4
        <4>5. Aligned(w)'
          BY <2>1, <2>2, <4>1, <4>2, <4>3, <4>4 DEF Aligned, Increasing, LockFree, InHand
        <4> QED
          BY <2>1, <2>3, <4>1, <4>2, <4>5 DEF Mode
      <3>5. CASE w = p
        <4>1. /\ hpc' = hpc /\ pending' = Tail(pending)
              /\ indicate_seq' = Bump(indicate_seq, p)
              /\ Indicate(<<p>>)
          BY <1>9, <2>5, <3>1, <3>2, <3>5 DEF TimerLoop
        <4>2. indicate_seq' = Sn(w + 1)
          <5>1. (Sn(w) + 1) % M = Sn(w + 1)
            BY SnPlus
          <5> QED
            BY <2>3, <3>2, <3>5, <4>1, <5>1 DEF Bump
        <4> DEFINE fs == <<p>>
        <4>3. fs \in Seq(Frames) /\ fs # << >> /\ Len(fs) = 1 /\ fs[1] = p /\ Increasing(fs)
          BY <3>1 DEF Increasing
        <4>4. released' = Last \o fs
          BY <4>1 DEF Indicate
        <4>5. LastReleased < p
          BY <2>2, <3>5 DEF Aligned
        <4> HIDE DEF fs, p
        <4>6. InOrder' /\ released' # << >> /\ LastReleased' = p
          BY <4>3, <4>4, <4>5, ReleaseOrder
        <4>7. \A i \in DOMAIN pending' : i + 1 \in DOMAIN pending /\ pending'[i] = pending[i + 1]
              /\ i \in Nat /\ i >= 1
          BY <2>5, <4>1 DEF TypeInv, TypeOK
        <4>8. \A i \in DOMAIN pending' :
                /\ pending'[i] <= heard /\ pending'[i] < w + 1 + wsize_b /\ w + 1 <= pending'[i]
          <5> TAKE i \in DOMAIN pending'
          <5>1. pending[i + 1] \in Nat /\ p < pending[i + 1] /\ i + 1 # 1
            BY <1>0, <3>3, <4>7
          <5>2. pending[i + 1] <= heard /\ pending[i + 1] < w + wsize_b
            BY <2>2, <4>7 DEF Aligned
          <5> QED
            BY <1>0, <3>1, <3>5, <4>7, <5>1, <5>2
        <4>9. Increasing(pending')
          <5> SUFFICES ASSUME NEW i \in DOMAIN pending', NEW j \in DOMAIN pending', i < j
                       PROVE  pending'[i] < pending'[j]
            BY DEF Increasing
          <5>1. i + 1 < j + 1
            BY <4>7
          <5> QED
            BY <2>2, <4>7, <5>1 DEF Aligned, Increasing
        <4>10. \/ heard < w + 1 + wsize_b
               \/ InHand /\ rframe = heard /\ heard < w + 1 + MaxLoss + 2 * wsize_b
          BY <1>0, <2>2 DEF Aligned
        <4>11. w + 1 <= heard + 1 /\ w + 1 \in Nat /\ LastReleased' < w + 1
               /\ w + 1 <= LastReleased' + 1 /\ rpc # "direct"
          BY <1>0, <2>2, <3>1, <3>5, <4>6 DEF Aligned
        <4> HIDE DEF Increasing
        <4>12. Aligned(w + 1)'
          <5>1. Increasing(pending)'
            BY <4>9 DEF Increasing
          <5>2. ~ LockFree'
            BY <2>3, <4>1 DEF LockFree
          <5>3. InHand' = InHand
            BY <2>1 DEF InHand
          <5> QED
            BY <2>1, <4>2, <4>6, <4>8, <4>10, <4>11, <5>1, <5>2, <5>3 DEF Aligned
        <4>13. indicate_seq' # NoSeq
          BY <4>2, SnType, SeqsFacts
        <4> QED
          BY <2>1, <2>3, <4>6, <4>11, <4>12, <4>13 DEF Mode
      <3> QED
        BY <3>1, <3>4, <3>5
    <2> QED
      BY <2>4, <2>5
  <1>10. CASE Stop \/ SenderAdvances
    <2>1. /\ UNCHANGED <<enable, indicate_seq, pending, timer, released, rpc, rframe, tid_rxseq,
                         heard, hpc>>
          /\ wstart' \in Nat /\ wstart' >= wstart
      BY <1>0, <1>10 DEF Stop, SenderAdvances, ctrl, tasklet, sender
    <2>2. InOrder' /\ LastReleased' = LastReleased
      BY <1>a, <2>1 DEF InOrder, LastReleased
    <2>3. ~ enable /\ Direct => Direct'
      <3> SUFFICES ASSUME ~ enable, Direct PROVE Direct'
        OBVIOUS
      <3>1. LastReleased <= heard /\ heard <= wstart
        BY <1>0, <1>b DEF Direct
      <3>2. rpc \in {"frame", "direct"} => rframe <= wstart'
        BY <1>0, <2>1 DEF Direct
      <3>3. LastReleased = wstart' => wstart' = wstart
        BY <1>0, <2>1, <3>1
      <3> QED
        BY <2>1, <2>2, <3>2, <3>3 DEF Direct
    <2>4. Fresh => Fresh'
      BY <1>0, <2>1, <2>2 DEF Fresh, InHand
    <2>5. ASSUME NEW w \in Nat, Aligned(w) PROVE Aligned(w)'
      BY <2>1, <2>2, <2>5 DEF Aligned, Increasing, LockFree, InHand
    <2> QED
      BY <1>a, <2>1, <2>2, <2>3, <2>4, <2>5 DEF Mode
  <1>11. CASE OnDelba \/ FreeUnhash \/ FreeDelTimer \/ FreePending \/ AllocSta
    BY <1>11, <1>b DEF OnDelba, FreeUnhash, FreeDelTimer, FreePending, AllocSta
  <1>12. CASE UNCHANGED vars
    <2>1. UNCHANGED <<enable, indicate_seq, pending, timer, released, rpc, rframe, tid_rxseq,
                         heard, hpc, wstart>>
      BY <1>12 DEF vars, ctrl, tasklet, sender
    <2>2. InOrder' /\ LastReleased' = LastReleased
      BY <1>a, <2>1 DEF InOrder, LastReleased
    <2>3. Direct => Direct'
      BY <2>1, <2>2 DEF Direct
    <2>4. Fresh => Fresh'
      BY <2>1, <2>2 DEF Fresh, InHand
    <2>5. ASSUME NEW w \in Nat, Aligned(w) PROVE Aligned(w)'
      BY <2>1, <2>2, <2>5 DEF Aligned, Increasing, LockFree, InHand
    <2> QED
      BY <1>a, <2>1, <2>2, <2>3, <2>4, <2>5 DEF Mode
  <1> QED
    BY <1>1, <1>2, <1>3, <1>4, <1>5, <1>6, <1>7, <1>8, <1>9, <1>10, <1>11, <1>12
       DEF Next, Tasklet

-----------------------------------------------------------------------------
(***************************************************************************)
(* The ordering theorem.                                                   *)
(***************************************************************************)
\* The whole inductive invariant.
OrderAll == TypeInv /\ OrderInv

\* The ordering invariant holds initially ...
LEMMA OrderInit == Init => OrderAll
  <1> SUFFICES ASSUME Init PROVE OrderInv
    BY TypeInit DEF OrderAll
  <1>1. /\ released = << >> /\ pending = << >> /\ heard = -1 /\ wstart = 0 /\ agree = FALSE
        /\ enable = FALSE /\ sta = "alloc" /\ rpc = "idle" /\ timer = "off" /\ hpc = "idle"
    BY DEF Init, NoFrame
  <1>2. MaxLoss \in Nat
    BY ConstTypes
  <1>3. InOrder
    BY <1>1 DEF InOrder
  <1>4. SenderInv
    <2>1. heard < wstart + (IF agree THEN wsize_b ELSE 1)
      BY <1>1
    <2>2. wstart <= heard + MaxLoss + 1
      BY <1>1, <1>2
    <2> QED
      BY <1>1, <2>1, <2>2 DEF SenderInv, InHand
  <1>5. Direct
    BY <1>1 DEF Direct, LastReleased
  <1> QED
    BY <1>1, <1>3, <1>4, <1>5 DEF OrderInv

\* ... is kept by every step ...
LEMMA OrderStep ==
  ASSUME OrderAll, ~ Delba, ~ Teardown, [Next]_vars
  PROVE  OrderAll'
  <1>1. TypeInv' /\ SenderInv' /\ InOrder' /\ Mode'
    BY TypeStep, SenderStep, ModeStep DEF OrderAll, OrderInv
  <1> QED
    BY <1>1 DEF OrderAll, OrderInv, Mode

\* ... and implies ReorderRight ...
LEMMA OrderRight ==
  ASSUME OrderAll
  PROVE  ReorderRight
  <1>1. InOrder
    BY DEF OrderAll, OrderInv
  <1>2. ASSUME InHand, enable, LockFree, SN_LESS(Sn(rframe), FirstStart(Sn(rframe)))
        PROVE  released # << >> /\ rframe <= released[Len(released)]
    <2>1. rframe \in Nat /\ Sn(rframe) \in Seqs /\ heard \in Int /\ LastReleased \in Int
      BY <1>2, IntTypes, SnType DEF OrderAll, InHand
    <2>2. indicate_seq # NoSeq
      <3>1. ~ SN_LESS(Sn(rframe), Sn(rframe))
        BY <2>1, SnLess, MType
      <3> QED
        BY <1>2, <3>1 DEF FirstStart
    <2>3. PICK w \in Nat : Aligned(w)
      BY <1>2, <2>2 DEF OrderAll, OrderInv
    <2>4. rframe < w
      BY <1>2, <2>2, <2>3, AlignedUse DEF OrderAll, FirstStart, Aligned
    <2>5. heard - wsize_b < rframe /\ wsize_b \in Nat
      BY <1>2, ConstTypes DEF OrderAll, OrderInv, SenderInv
    <2>6. released # << >> /\ (w <= LastReleased + 1 \/ w <= heard + 1 - wsize_b)
      BY <1>2, <2>3 DEF Aligned
    <2>7. rframe <= LastReleased
      BY <2>1, <2>4, <2>5, <2>6
    <2> QED
      BY <2>6, <2>7 DEF LastReleased
  <1> QED
    BY <1>1, <1>2 DEF ReorderRight, DropsOnlyOld, InHand

\* An increasing sequence behind w has its i-th element at w + i or later.
LEMMA Spread ==
  ASSUME NEW q \in Seq(Frames), Increasing(q), NEW w \in Nat,
         \A i \in DOMAIN q : w < q[i]
  PROVE  \A i \in DOMAIN q : w + i <= q[i]
  <1> DEFINE T == {i \in 1 .. Len(q) : ~ (w + i <= q[i])}
  <1> SUFFICES ASSUME T # {} PROVE FALSE
    OBVIOUS
  <1>1. T \in SUBSET Nat
    OBVIOUS
  <1>2. PICK i \in T : \A j \in T : ~ (j < i)
    <2> HIDE DEF T
    <2> QED
      BY <1>1, LeastNat
  <1>3. i \in DOMAIN q /\ i \in Nat /\ ~ (w + i <= q[i])
    BY <1>2
  <1>4. q[i] \in Nat /\ w < q[i]
    <2>1. q[i] \in Frames
      BY <1>3
    <2> QED
      BY <1>3, <2>1, FramesNat
  <1>5. i # 1
    BY <1>3, <1>4
  <1>6. i - 1 \in DOMAIN q /\ i - 1 < i /\ i - 1 \notin T
    BY <1>2, <1>3, <1>5
  <1>7. q[i - 1] < q[i] /\ w + (i - 1) <= q[i - 1]
    BY <1>3, <1>6 DEF Increasing
  <1>8. q[i - 1] \in Nat
    <2>1. q[i - 1] \in Frames
      BY <1>6
    <2> QED
      BY <2>1, FramesNat
  <1> QED
    BY <1>3, <1>4, <1>7, <1>8

\* ... and the list's window.
LEMMA OrderWindow ==
  ASSUME OrderAll
  PROVE  WindowOK
  <1>1. pending \in Seq(Frames) /\ wsize_b \in Nat /\ wsize_b >= 1
        /\ \A i \in DOMAIN pending : pending[i] \in Nat
    BY IntTypes, ConstTypes DEF OrderAll, TypeInv, TypeOK
  <1>2. CASE pending = << >>
    BY <1>1, <1>2 DEF WindowOK
  <1>3. CASE pending # << >>
    <2>1. enable /\ indicate_seq # NoSeq
      BY <1>3 DEF OrderAll, OrderInv, Direct, Fresh
    <2>2. PICK w \in Nat : Aligned(w)
      BY <2>1 DEF OrderAll, OrderInv
    <2> SUFFICES ASSUME LockFree
                 PROVE  /\ \A i, j \in DOMAIN pending : i < j => pending[i] < pending[j]
                        /\ Len(pending) < wsize_b
                        /\ \A i \in DOMAIN pending :
                              indicate_seq # NoSeq /\ SN_LESS(indicate_seq, Sn(pending[i]))
      BY DEF WindowOK
    <2>3. Increasing(pending)
          /\ \A i \in DOMAIN pending : w < pending[i] /\ pending[i] < w + wsize_b
      BY <2>2 DEF Aligned
    <2>4. Len(pending) < wsize_b
      <3>1. Len(pending) \in DOMAIN pending /\ Len(pending) \in Nat
        BY <1>1, <1>3
      <3>2. w + Len(pending) <= pending[Len(pending)]
        BY <1>1, <2>3, <3>1, Spread
      <3> QED
        BY <1>1, <2>3, <3>1, <3>2
    <2>5. ASSUME NEW i \in DOMAIN pending PROVE SN_LESS(indicate_seq, Sn(pending[i]))
      <3>1. w - pending[i] < HALF /\ pending[i] - w <= HALF
        BY <1>1, <2>3, ConstTypes
      <3>2. pending[i] \in Int /\ w < pending[i]
        BY <1>1, <2>3
      <3>3. SN_LESS(Sn(w), Sn(pending[i]))
        BY <3>1, <3>2, SnLess
      <3> QED
        BY <2>2, <3>3 DEF Aligned
    <2> QED
      BY <2>1, <2>3, <2>4, <2>5 DEF Increasing
  <1> QED
    BY <1>2, <1>3

\* Frames of an agreement reach the network stack in order and none twice,
\* and check_indicate_seq drops only old ones, whatever the sender repeats or
\* loses, wherever the sequence space wraps, and however the timer handler and
\* the tasklet interleave.
THEOREM OrderKept == ~ Delba /\ ~ Teardown => (Spec => []ReorderRight)
  <1> SUFFICES ASSUME ~ Delba, ~ Teardown PROVE Spec => []ReorderRight
    OBVIOUS
  <1>1. Init => OrderAll
    BY OrderInit
  <1>2. OrderAll /\ [Next]_vars => OrderAll'
    BY OrderStep
  <1>3. OrderAll => ReorderRight
    BY OrderRight
  <1> QED
    BY <1>1, <1>2, <1>3, PTL DEF Spec

-----------------------------------------------------------------------------
(***************************************************************************)
(* The pool.                                                               *)
(***************************************************************************)
\* Every frame of the pool is accounted for.
PoolEqual ==
    free_recvframe_cnt + Len(pending) + (IF rframe = NoFrame THEN 0 ELSE 1) = NR_RECVFRAME
\* ... while the driver runs.
PoolInv == sta = "alloc" /\ (~ bDriverStopped => PoolEqual)

\* While the driver runs and no station is freed no frame gets lost.
LEMMA PoolStep ==
  ASSUME TypeInv, PoolInv, ~ Teardown, [Next]_vars
  PROVE  PoolInv'
  <1>0. /\ sta = "alloc" /\ Hand /\ Hand'
        /\ free_recvframe_cnt \in Nat /\ Len(pending) \in Nat /\ NR_RECVFRAME \in Nat
        /\ pending \in Seq(Frames) /\ bDriverStopped \in BOOLEAN
    BY HandStep, ReorderAssumption DEF TypeInv, TypeOK, PoolInv
  <1>1. sta' = "alloc" /\ (~ bDriverStopped' => ~ bDriverStopped)
    <2>1. CASE (\E n \in Frames : RxFrame(n)) \/ RxBypass \/ RxDirect \/ RxDirectIndicate \/ RxDelTimer
      BY <1>0, <2>1 DEF RxFrame, RxBypass, RxDirect, RxDirectIndicate, RxDelTimer
    <2>2. CASE RxReorder
      BY <1>0, <2>2 DEF RxReorder, RxRefuse, RxAccept
    <2>3. CASE OnAddba \/ OnDelba \/ TimerFire \/ TimerLock \/ TimerLoop
      BY <1>0, <2>3 DEF OnAddba, OnDelba, TimerFire, TimerLock, TimerLoop
    <2>4. CASE FreeUnhash \/ FreeDelTimer \/ FreePending \/ AllocSta \/ Stop \/ SenderAdvances
      BY <1>0, <2>4 DEF FreeUnhash, FreeDelTimer, FreePending, AllocSta, Stop, SenderAdvances
    <2>5. CASE UNCHANGED vars
      BY <1>0, <2>5 DEF vars
    <2> QED
      BY <2>1, <2>2, <2>3, <2>4, <2>5 DEF Next, Tasklet
  <1> SUFFICES ASSUME ~ bDriverStopped, ~ bDriverStopped', PoolEqual PROVE PoolEqual'
    BY <1>1 DEF PoolInv
  <1> USE DEF PoolEqual
  <1>2. CASE \E n \in Frames : RxFrame(n)
    <2>1. rframe = NoFrame /\ rframe' # NoFrame
      BY <1>0, <1>2, SeqsFacts DEF RxFrame, Hand
    <2>2. free_recvframe_cnt' = free_recvframe_cnt - 1 /\ pending' = pending
      BY <1>2 DEF RxFrame, ctrl
    <2> QED
      BY <1>0, <2>1, <2>2
  <1>3. CASE RxBypass \/ RxDirectIndicate
    <2>1. rframe # NoFrame /\ rframe' = NoFrame
      BY <1>0, <1>3 DEF RxBypass, RxDirectIndicate, Hand
    <2>2. free_recvframe_cnt' = free_recvframe_cnt + 1 /\ pending' = pending
      BY <1>3 DEF RxBypass, RxDirectIndicate, ctrl
    <2> QED
      BY <1>0, <2>1, <2>2
  <1>4. CASE RxReorder
    <2>1. rframe # NoFrame /\ rframe \in Frames
      BY <1>0, <1>4 DEF RxReorder, Hand, TypeInv, TypeOK
    <2>2. ASSUME NEW ind, RxRefuse(ind) PROVE PoolEqual'
      BY <1>0, <2>1, <2>2 DEF RxRefuse
    <2>3. ASSUME NEW ind, RxAccept(ind) PROVE PoolEqual'
      <3> DEFINE q == Insert(rframe)
                 k == Ready(ind, q)
                 c == Cardinality({i \in DOMAIN SubSeq(q, 1, k) : Goes(SubSeq(q, 1, k)[i])})
      <3>1. q \in Seq(Frames) /\ Len(q) = Len(pending) + 1
        BY <1>0, <2>1, InsertType
      <3>2. k \in 0 .. Len(q)
        BY <3>1, ReadyType
      <3>3. /\ SubSeq(q, 1, k) \in Seq(Frames) /\ Len(SubSeq(q, 1, k)) = k
            /\ Len(SubSeq(q, k + 1, Len(q))) = Len(q) - k
        BY <3>1, <3>2, Split
      <3>4. c = k
        BY <3>3, GoneCount
      <3>5. /\ pending' = SubSeq(q, k + 1, Len(q))
            /\ free_recvframe_cnt' = free_recvframe_cnt + c /\ rframe' = NoFrame
        BY <2>3 DEF RxAccept, Indicate
      <3> HIDE DEF q, k, c
      <3>6. Len(pending') = Len(pending) + 1 - k /\ free_recvframe_cnt' = free_recvframe_cnt + k
        BY <3>1, <3>3, <3>4, <3>5
      <3>7. k \in Nat /\ rframe' = NoFrame
        BY <1>0, <3>1, <3>2, <3>5
      <3> QED
        BY <1>0, <2>1, <3>6, <3>7
    <2> QED
      BY <1>4, <2>2, <2>3 DEF RxReorder
  <1>5. CASE TimerLoop
    <2>1. CASE UNCHANGED <<ctrl, free_recvframe_cnt>>
      BY <1>0, <1>5, <2>1 DEF TimerLoop, ctrl, tasklet
    <2>2. CASE pending # << >> /\ pending' = Tail(pending) /\ Indicate(<<Head(pending)>>)
      <3>1. Head(pending) \in Frames /\ Len(Tail(pending)) = Len(pending) - 1 /\ Len(pending) >= 1
        BY <1>0, <2>2
      <3> DEFINE fs == <<Head(pending)>>
                 c == Cardinality({i \in DOMAIN fs : Goes(fs[i])})
      <3>2. fs \in Seq(Frames) /\ Len(fs) = 1
        BY <3>1
      <3>3. c = 1
        <4> HIDE DEF fs
        <4> QED
          BY <3>2, GoneCount
      <3>4. free_recvframe_cnt' = free_recvframe_cnt + c /\ rframe' = rframe
        BY <1>5, <2>2 DEF Indicate, TimerLoop, tasklet
      <3> HIDE DEF c, fs
      <3> QED
        BY <1>0, <2>2, <3>1, <3>3, <3>4
    <2> QED
      BY <1>5, <2>1, <2>2 DEF TimerLoop
  <1>6. CASE FreeUnhash \/ FreeDelTimer \/ FreePending \/ AllocSta
    BY <1>0, <1>6 DEF FreeUnhash, FreeDelTimer, FreePending, AllocSta
  <1>7. CASE UNCHANGED <<free_recvframe_cnt, pending, rframe>>
    BY <1>7
  <1> QED
    BY <1>2, <1>3, <1>4, <1>5, <1>6, <1>7
       DEF Next, Tasklet, vars, ctrl, tasklet, RxDirect, RxDelTimer, OnAddba, OnDelba, TimerFire,
           TimerLock, Stop, SenderAdvances

\* At first every frame is free.
LEMMA PoolInit == Init => PoolInv
  <1> SUFFICES ASSUME Init PROVE PoolInv
    OBVIOUS
  <1>1. Len(<< >>) = 0 /\ NR_RECVFRAME \in Nat
    BY ReorderAssumption
  <1> QED
    BY <1>1 DEF Init, PoolInv, PoolEqual

\* In the same histories the frames held back are sorted, fewer than
\* wsize_b, ahead of indicate_seq, and every frame of the pool is accounted
\* for.
THEOREM HeldKept == ~ Delba /\ ~ Teardown => (Spec => []HeldSound)
  <1> SUFFICES ASSUME ~ Delba, ~ Teardown PROVE Spec => []HeldSound
    OBVIOUS
  <1>1. Init => OrderAll /\ PoolInv
    BY OrderInit, PoolInit
  <1>2. OrderAll /\ PoolInv /\ [Next]_vars => OrderAll' /\ PoolInv'
    BY OrderStep, PoolStep DEF OrderAll
  <1>3. OrderAll /\ PoolInv => HeldSound
    BY OrderWindow DEF OrderAll, TypeInv, PoolInv, PoolEqual, HeldSound, PoolConserved
  <1> QED
    BY <1>1, <1>2, <1>3, PTL DEF Spec

\* No frame of the pool is lost while the driver runs, DELBA or not
\* (rtw_recv_indicatepkt, rtw_free_recvframe on every way out).
THEOREM PoolKept == ~ Teardown => (Spec => []PoolConserved)
  <1> SUFFICES ASSUME ~ Teardown PROVE Spec => []PoolConserved
    OBVIOUS
  <1>1. Init => TypeInv /\ PoolInv
    BY TypeInit, PoolInit
  <1>2. TypeInv /\ PoolInv /\ [Next]_vars => TypeInv' /\ PoolInv'
    BY TypeStep, PoolStep
  <1>3. PoolInv => PoolConserved
    BY DEF PoolInv, PoolEqual, PoolConserved
  <1> QED
    BY <1>1, <1>2, <1>3, PTL DEF Spec

\* The control of a TID stays in range and the list and the tasklet never
\* hold more frames than the pool has, with DELBA, teardown and stop.
THEOREM Typing == Spec => [](TypeOK /\ PoolHolds)
  <1>1. Init => TypeInv
    BY TypeInit
  <1>2. TypeInv /\ [Next]_vars => TypeInv'
    BY TypeStep
  <1>3. TypeInv => TypeOK /\ PoolHolds
    BY DEF TypeInv
  <1> QED
    BY <1>1, <1>2, <1>3, PTL DEF Spec

-----------------------------------------------------------------------------
(***************************************************************************)
(* The timer of the frames that are held back.                             *)
(***************************************************************************)
\* What the proof of NoStuckFrame needs of the types.
ListType == pending \in Seq(Frames) /\ (rpc = "frame" => rframe \in Frames)

\* The tasklet only deletes the timer when it has left the list empty.
DelTimerEmpty == rpc = "del_timer" => pending = << >>

TimerInv == ListType /\ DelTimerEmpty /\ NoStuckFrame

\* An accepted frame leaves a timer behind, or an empty list.
LEMMA AcceptKeepsTimer ==
  ASSUME TimerInv, rpc = "frame", NEW ind, RxAccept(ind)
  PROVE  TimerInv'
  <1> DEFINE q == Insert(rframe)
             k == Ready(ind, q)
  <1>1. q \in Seq(Frames)
    BY InsertType DEF TimerInv, ListType
  <1>2. k \in 0 .. Len(q)
    BY <1>1, ReadyType
  <1>3. /\ pending' = SubSeq(q, k + 1, Len(q))
        /\ IF k < Len(q) THEN timer' = "armed" /\ rpc' = "idle"
                         ELSE UNCHANGED timer /\ rpc' = "del_timer"
    BY DEF RxAccept
  <1> HIDE DEF q, k
  <1>4. pending' \in Seq(Frames) /\ (k = Len(q) => pending' = << >>)
    BY <1>1, <1>2, <1>3
  <1> QED
    BY <1>2, <1>3, <1>4 DEF TimerInv, ListType, DelTimerEmpty, NoStuckFrame

\* Every step keeps the timer of the frames held back.
LEMMA StepTimer == TimerInv /\ [Next]_vars => TimerInv'
  <1> SUFFICES ASSUME TimerInv, [Next]_vars PROVE TimerInv'
    OBVIOUS
  <1> USE DEF ListType, DelTimerEmpty, NoStuckFrame, ctrl, tasklet, sender
  <1>1. ASSUME NEW n \in Frames, RxFrame(n) PROVE TimerInv'
    BY <1>1 DEF RxFrame, TimerInv
  <1>2. CASE RxBypass \/ RxDirect \/ RxDirectIndicate \/ RxDelTimer
    BY <1>2 DEF RxBypass, RxDirect, RxDirectIndicate, RxDelTimer, TimerInv
  <1>3. CASE RxReorder
    <2>1. ASSUME NEW ind, RxRefuse(ind) PROVE TimerInv'
      BY <2>1 DEF RxRefuse, TimerInv
    <2> QED
      BY <1>3, <2>1, AcceptKeepsTimer DEF RxReorder
  <1>4. CASE OnAddba \/ OnDelba
    BY <1>4 DEF OnAddba, OnDelba, TimerInv
  <1>5. CASE TimerFire
    BY <1>5 DEF TimerFire, TimerInv
  <1>6. CASE TimerLock
    BY <1>6 DEF TimerLock, TimerInv
  <1>7. CASE TimerLoop
    <2>1. pending # << >> => Tail(pending) \in Seq(Frames)
      BY DEF TimerInv
    <2> QED
      BY <1>7, <2>1 DEF TimerLoop, TimerInv
  <1>8. CASE FreeUnhash \/ FreeDelTimer \/ FreePending \/ AllocSta
    <2>1. CASE FreeUnhash \/ FreeDelTimer
      BY <2>1 DEF FreeUnhash, FreeDelTimer, TimerInv
    <2>2. CASE FreePending
      BY <2>2 DEF FreePending, TimerInv
    <2>3. CASE AllocSta
      BY <2>3 DEF AllocSta, TimerInv
    <2> QED
      BY <1>8, <2>1, <2>2, <2>3
  <1>9. CASE Stop \/ SenderAdvances \/ UNCHANGED vars
    BY <1>9 DEF Stop, SenderAdvances, vars, TimerInv
  <1> QED
    BY <1>1, <1>2, <1>3, <1>4, <1>5, <1>6, <1>7, <1>8, <1>9 DEF Next, Tasklet

\* Frames that the reordering holds back always have a timer or its handler
\* to release them, whatever the tasklet, the timer, DELBA and a teardown do
\* to each other.
THEOREM HeldFramesHaveTimer == Spec => []NoStuckFrame
  <1>1. Init => TimerInv
    BY DEF Init, TimerInv, ListType, DelTimerEmpty, NoStuckFrame
  <1>2. TimerInv => NoStuckFrame
    BY DEF TimerInv
  <1> QED
    BY <1>1, <1>2, StepTimer, PTL DEF Spec
=============================================================================
