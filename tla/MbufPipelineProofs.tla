-------------------------- MODULE MbufPipelineProofs --------------------------
(***************************************************************************)
(* Proofs about MbufPipeline for every mempool, ring, burst and descriptor *)
(* count.                                                                  *)
(***************************************************************************)
EXTENDS MbufPipeline, FiniteSetTheorems, FunctionTheorems, SequenceTheorems, TLAPS

-----------------------------------------------------------------------------
(* Counting occurrences.                                                   *)

(* The count of an mbuf in an array or queue is a natural number.          *)
LEMMA OccType ==
  ASSUME NEW S, NEW s \in Seq(S), NEW m
  PROVE  /\ IsFiniteSet({i \in DOMAIN s : s[i] = m})
         /\ Occ(s, m) \in Nat
<1>1. DOMAIN s = 1..Len(s) /\ Len(s) \in Nat
  OBVIOUS
<1>2. IsFiniteSet(DOMAIN s)
  BY <1>1, FS_Interval
<1>3. IsFiniteSet({i \in DOMAIN s : s[i] = m})
  BY <1>2, FS_Subset
<1> QED
  BY <1>3, FS_CardinalityType DEF Occ

(* Nothing occurs in the empty queue.                                      *)
LEMMA OccEmpty == ASSUME NEW m PROVE Occ(<<>>, m) = 0
<1>1. {i \in DOMAIN <<>> : <<>>[i] = m} = {}
  OBVIOUS
<1> QED
  BY <1>1, FS_EmptySet DEF Occ

(* Counting distributes over concatenation: an enqueue adds exactly the    *)
(* occurrences of the burst.                                               *)
LEMMA OccConcat ==
  ASSUME NEW S, NEW s \in Seq(S), NEW t \in Seq(S), NEW m
  PROVE  Occ(s \o t, m) = Occ(s, m) + Occ(t, m)
<1> DEFINE A  == {i \in DOMAIN s : s[i] = m}
           B  == {i \in DOMAIN t : t[i] = m}
           C  == {i \in DOMAIN (s \o t) : (s \o t)[i] = m}
           BB == {Len(s) + j : j \in B}
<1>1. Len(s) \in Nat /\ Len(t) \in Nat /\ DOMAIN s = 1..Len(s) /\ DOMAIN t = 1..Len(t)
  OBVIOUS
<1>2. DOMAIN (s \o t) = 1..(Len(s) + Len(t))
  OBVIOUS
<1>3. C = A \cup BB
  <2>1. ASSUME NEW i \in C PROVE i \in A \cup BB
    <3>1. CASE i \in 1..Len(s)
      BY <3>1, <1>1, <1>2
    <3>2. CASE i \notin 1..Len(s)
      <4>1. i - Len(s) \in 1..Len(t) /\ i = Len(s) + (i - Len(s))
        BY <3>2, <1>1, <1>2
      <4>2. t[i - Len(s)] = m
        BY <4>1, <3>2, <1>1, <1>2
      <4> QED
        BY <4>1, <4>2, <1>1
    <3> QED
      BY <3>1, <3>2
  <2>2. A \subseteq C
    BY <1>1, <1>2
  <2>3. ASSUME NEW j \in B PROVE Len(s) + j \in C
    BY <2>3, <1>1, <1>2
  <2> QED
    BY <2>1, <2>2, <2>3
<1>4. A \cap BB = {}
  BY <1>1
<1>5. IsFiniteSet(A) /\ IsFiniteSet(B)
  BY OccType
<1>6. IsFiniteSet(BB) /\ Cardinality(BB) = Cardinality(B)
  <2> DEFINE f == [j \in B |-> Len(s) + j]
  <2>1. f \in Bijection(B, BB)
    <3>1. f \in [B -> BB]
      OBVIOUS
    <3>2. \A a, b \in B : f[a] = f[b] => a = b
      BY <1>1
    <3>3. \A x \in BB : \E a \in B : f[a] = x
      OBVIOUS
    <3> HIDE DEF f, B, BB
    <3> QED
      BY <3>1, <3>2, <3>3 DEF Bijection, Injection, Surjection, IsInjective
  <2> HIDE DEF f, B, BB
  <2> QED
    BY <2>1, <1>5, FS_Bijection DEF ExistsBijection
<1>7. Cardinality(A \cap BB) = 0
  BY <1>4, FS_EmptySet
<1>8. Cardinality(A) \in Nat /\ Cardinality(BB) \in Nat
  BY <1>5, <1>6, FS_CardinalityType
<1>9. Cardinality(C) = Cardinality(A) + Cardinality(BB)
  <2> HIDE DEF A, B, BB, C
  <2>1. Cardinality(A \cup BB) = Cardinality(A) + Cardinality(BB) - Cardinality(A \cap BB)
    BY <1>5, <1>6, FS_Union
  <2> QED
    BY <2>1, <1>3, <1>7, <1>8
<1> QED
  BY <1>6, <1>9 DEF Occ

(* A sequence is the prefix of length k followed by the rest.              *)
LEMMA SplitSeq ==
  ASSUME NEW S, NEW s \in Seq(S), NEW k \in 0..Len(s)
  PROVE  /\ SubSeq(s, 1, k) \in Seq(S) /\ Len(SubSeq(s, 1, k)) = k
         /\ SubSeq(s, k + 1, Len(s)) \in Seq(S)
         /\ Len(SubSeq(s, k + 1, Len(s))) = Len(s) - k
         /\ s = SubSeq(s, 1, k) \o SubSeq(s, k + 1, Len(s))
<1> DEFINE p == SubSeq(s, 1, k)
           q == SubSeq(s, k + 1, Len(s))
<1>0. Len(s) \in Nat /\ k \in Nat /\ k <= Len(s)
  OBVIOUS
<1>1. p \in Seq(S) /\ Len(p) = k /\ \A i \in 1..k : p[i] = s[i]
  OBVIOUS
<1>2. q \in Seq(S) /\ Len(q) = Len(s) - k /\ \A i \in 1..(Len(s) - k) : q[i] = s[k + i]
  OBVIOUS
<1> HIDE DEF p, q
<1>3. p \o q \in Seq(S) /\ Len(p \o q) = Len(s)
  BY <1>0, <1>1, <1>2
<1>4. ASSUME NEW i \in 1..Len(s) PROVE (p \o q)[i] = s[i]
  <2>1. CASE i <= k
    BY <2>1, <1>0, <1>1, <1>2
  <2>2. CASE ~(i <= k)
    <3>1. i - k \in 1..(Len(s) - k) /\ k + (i - k) = i
      BY <2>2, <1>0
    <3>2. (p \o q)[i] = q[i - k]
      BY <2>2, <1>0, <1>1, <1>2
    <3> QED
      BY <3>1, <3>2, <1>2
  <2> QED
    BY <2>1, <2>2
<1>5. s = p \o q
  BY <1>3, <1>4, SeqEqual
<1> QED
  BY <1>1, <1>2, <1>5 DEF p, q

(* Taking a prefix of a queue splits its occurrences.                      *)
LEMMA OccSplit ==
  ASSUME NEW S, NEW s \in Seq(S), NEW k \in 0..Len(s), NEW m
  PROVE  Occ(s, m) = Occ(SubSeq(s, 1, k), m) + Occ(SubSeq(s, k + 1, Len(s)), m)
<1> DEFINE p == SubSeq(s, 1, k)
           q == SubSeq(s, k + 1, Len(s))
<1>1. p \in Seq(S) /\ q \in Seq(S) /\ s = p \o q
  BY SplitSeq
<1> HIDE DEF p, q
<1>2. Occ(s, m) = Occ(p, m) + Occ(q, m)
  BY <1>1, OccConcat
<1> QED
  BY <1>2 DEF p, q

(* A concatenation is a sequence, as long as both parts.                   *)
LEMMA ConcatType ==
  ASSUME NEW S, NEW s \in Seq(S), NEW t \in Seq(S)
  PROVE  s \o t \in Seq(S) /\ Len(s \o t) = Len(s) + Len(t)
OBVIOUS

(* A sequence is empty exactly when its length is zero.                    *)
LEMMA EmptyLen ==
  ASSUME NEW S, NEW s \in Seq(S) PROVE Len(s) \in Nat /\ (s = <<>> <=> Len(s) = 0)
OBVIOUS

(* The head and the tail of a queue that is not empty.                     *)
LEMMA HeadTail ==
  ASSUME NEW S, NEW s \in Seq(S), s # <<>>
  PROVE  /\ Head(s) \in S /\ Tail(s) \in Seq(S)
         /\ Len(s) \in Nat /\ Len(Tail(s)) = Len(s) - 1
         /\ Tail(s) = <<>> <=> Len(s) = 1
<1>1. Head(s) \in S /\ Tail(s) \in Seq(S) /\ Len(s) \in Nat /\ Len(Tail(s)) = Len(s) - 1
  OBVIOUS
<1>2. Tail(s) = <<>> <=> Len(Tail(s)) = 0
  BY <1>1, EmptyLen
<1> QED
  BY <1>1, <1>2

(* Removing the head of a queue removes one occurrence of that mbuf.       *)
LEMMA OccTail ==
  ASSUME NEW S, NEW s \in Seq(S), s # <<>>, NEW m
  PROVE  /\ Head(s) \in S /\ Tail(s) \in Seq(S) /\ Len(Tail(s)) = Len(s) - 1
         /\ Occ(s, m) = Occ(Tail(s), m) + (IF Head(s) = m THEN 1 ELSE 0)
<1>1. Head(s) \in S /\ Tail(s) \in Seq(S) /\ Len(Tail(s)) = Len(s) - 1
  OBVIOUS
<1>2. s = <<Head(s)>> \o Tail(s)
  OBVIOUS
<1>3. Occ(<<Head(s)>>, m) = IF Head(s) = m THEN 1 ELSE 0
  <2> DEFINE D == {i \in DOMAIN <<Head(s)>> : <<Head(s)>>[i] = m}
  <2>1. CASE Head(s) = m
    <3>1. D = {1}
      BY <2>1
    <3> QED
      BY <3>1, <2>1, FS_Singleton DEF Occ
  <2>2. CASE Head(s) # m
    <3>1. D = {}
      BY <2>2
    <3> QED
      BY <3>1, <2>2, FS_EmptySet DEF Occ
  <2> QED
    BY <2>1, <2>2
<1>4. Occ(s, m) = Occ(<<Head(s)>>, m) + Occ(Tail(s), m)
  <2> DEFINE h == <<Head(s)>>
             r == Tail(s)
  <2>1. h \in Seq(S) /\ r \in Seq(S) /\ s = h \o r
    BY <1>1, <1>2
  <2> HIDE DEF h, r
  <2>2. Occ(h \o r, m) = Occ(h, m) + Occ(r, m)
    BY <2>1, OccConcat
  <2> QED
    BY <2>1, <2>2 DEF h, r
<1>5. Occ(Tail(s), m) \in Nat
  BY <1>1, OccType
<1> QED
  BY <1>1, <1>3, <1>4, <1>5

-----------------------------------------------------------------------------
(* Type correctness.                                                       *)

(* A burst is an array of at most Burst mbufs.                             *)
LEMMA BurstType ==
  ASSUME NEW b \in Bursts PROVE b \in Seq(Mbufs) /\ Len(b) \in Nat /\ Len(b) <= Burst
<1>1. PICK n \in 0..Burst : b \in [1..n -> Mbufs]
  BY DEF Bursts
<1>2. Burst \in Nat
  BY PipelineAssumption
<1> QED
  BY <1>1, <1>2

(* Freeing keeps the mempool's reference counts natural numbers.           *)
LEMMA FreeType ==
  ASSUME NEW m \in Mbufs, Free(m), pool \in [Mbufs -> Nat]
  PROVE  pool' \in [Mbufs -> Nat]
BY DEF Free

(* Every state of fpga_rx_thread and fpga_tx_thread is well typed: the     *)
(* ring and the tx queue never exceed their capacity, and a thread is      *)
(* inside an enqueue, transmit or freeing loop exactly when it has mbufs.  *)
THEOREM PipelineTypeOK == Spec => []TypeOK
<1> USE PipelineAssumption
<1>1. Init => TypeOK
  <2> SUFFICES ASSUME Init PROVE TypeOK
    OBVIOUS
  <2>1. <<>> \in Seq(Mbufs) /\ Len(<<>>) = 0
    OBVIOUS
  <2>2. pool \in [Mbufs -> Nat]
    BY DEF Init
  <2>3. RingCap >= 0 /\ TxDescs >= 0 /\ Burst >= 0
    OBVIOUS
  <2> QED
    BY <2>1, <2>2, <2>3 DEF Init, TypeOK
<1>2. TypeOK /\ [Next]_vars => TypeOK'
  <2> SUFFICES ASSUME TypeOK, [Next]_vars PROVE TypeOK'
    OBVIOUS
  <2> USE DEF TypeOK, rxVars, txVars
  <2>1. CASE RxCheck
    BY <2>1 DEF RxCheck
  <2>2. CASE RxBurst
    <3>1. PICK b \in Bursts :
            /\ \A m \in Mbufs : Occ(b, m) <= pool[m]
            /\ pool' = [m \in Mbufs |-> pool[m] - Occ(b, m)]
            /\ rx_mbufs' = b
            /\ rx_pc' = IF b = <<>> THEN "loop" ELSE "enq"
      BY <2>2 DEF RxBurst
    <3>2. b \in Seq(Mbufs) /\ Len(b) <= Burst
      BY BurstType
    <3>3. \A m \in Mbufs : Occ(b, m) \in Nat
      BY <3>2, OccType
    <3>4. pool' \in [Mbufs -> Nat]
      BY <3>1, <3>3
    <3>5. /\ rx_mbufs' \in Seq(Mbufs) /\ Len(rx_mbufs') <= Burst
          /\ rx_pc' \in {"loop", "enq"}
          /\ rx_pc' = "enq" <=> rx_mbufs' # <<>>
      BY <3>1, <3>2
    <3>6. UNCHANGED <<ring, txVars, stop_flag>>
      BY <2>2 DEF RxBurst
    <3> QED
      BY <3>4, <3>5, <3>6
  <2>3. CASE RxEnqueue
    <3>1. ring' \in Seq(Mbufs) /\ Len(ring') <= RingCap
      BY <2>3 DEF RxEnqueue
    <3>2. \/ rx_pc' = "free" /\ rx_mbufs' = rx_mbufs
          \/ rx_pc' = "loop" /\ rx_mbufs' = <<>>
      BY <2>3 DEF RxEnqueue
    <3>3. rx_mbufs # <<>> /\ UNCHANGED <<pool, txVars, stop_flag>>
      BY <2>3 DEF RxEnqueue
    <3>4. rx_mbufs' \in Seq(Mbufs) /\ Len(rx_mbufs') <= Burst
      <4>1. <<>> \in Seq(Mbufs) /\ Len(<<>>) = 0 /\ Burst >= 0
        OBVIOUS
      <4> QED
        BY <3>2, <4>1
    <3>5. rx_pc' \in {"loop", "free"} /\ (rx_pc' = "free" <=> rx_mbufs' # <<>>)
      BY <3>2, <3>3
    <3> QED
      BY <3>1, <3>3, <3>4, <3>5
  <2>4. CASE RxFree
    <3>1. rx_mbufs # <<>>
      BY <2>4 DEF RxFree
    <3>2. /\ Head(rx_mbufs) \in Mbufs /\ Tail(rx_mbufs) \in Seq(Mbufs)
          /\ Len(rx_mbufs) \in Nat /\ Len(Tail(rx_mbufs)) = Len(rx_mbufs) - 1
          /\ Tail(rx_mbufs) = <<>> <=> Len(rx_mbufs) = 1
      <4>1. rx_mbufs \in Seq(Mbufs)
        OBVIOUS
      <4> HIDE DEF TypeOK
      <4> QED
        BY <3>1, <4>1, HeadTail
    <3>3. pool' \in [Mbufs -> Nat]
      BY <2>4, <3>2, FreeType DEF RxFree
    <3>4. rx_mbufs' = Tail(rx_mbufs) /\ (rx_mbufs' = <<>> <=> Len(rx_mbufs) = 1)
      <4>1. rx_mbufs' = Tail(rx_mbufs)
        BY <2>4 DEF RxFree
      <4> HIDE DEF TypeOK
      <4> QED
        BY <4>1, <3>2
    <3>5. rx_mbufs' \in Seq(Mbufs) /\ Len(rx_mbufs') <= Burst
      BY <3>2, <3>4
    <3>6. /\ rx_pc' \in {"loop", "free"}
          /\ rx_pc' = "free" <=> rx_mbufs' # <<>>
          /\ UNCHANGED <<ring, txVars, stop_flag>>
      BY <2>4, <3>4 DEF RxFree
    <3> QED
      BY <3>3, <3>5, <3>6
  <2>5. CASE TxCheck
    BY <2>5 DEF TxCheck
  <2>6. CASE TxDequeue
    <3> DEFINE n == IF Len(ring) < Burst THEN Len(ring) ELSE Burst
    <3>1. n \in 0..Len(ring) /\ n <= Burst
      OBVIOUS
    <3>2. /\ tx_mbufs' = SubSeq(ring, 1, n)
          /\ ring' = SubSeq(ring, n + 1, Len(ring))
          /\ tx_pc' = IF n = 0 THEN "loop" ELSE "send"
          /\ UNCHANGED <<pool, rxVars, txq, stop_flag>>
      BY <2>6 DEF TxDequeue
    <3> HIDE DEF n
    <3>3. tx_mbufs' \in Seq(Mbufs) /\ Len(tx_mbufs') = n
      BY <3>1, <3>2, SplitSeq
    <3>4. ring' \in Seq(Mbufs) /\ Len(ring') = Len(ring) - n
      <4>1. ring \in Seq(Mbufs)
        OBVIOUS
      <4> HIDE DEF TypeOK
      <4> QED
        BY <4>1, <3>1, <3>2, SplitSeq
    <3>5. tx_mbufs' = <<>> <=> n = 0
      BY <3>3
    <3>6. /\ tx_pc' \in {"loop", "send"}
          /\ tx_pc' = "send" <=> tx_mbufs' # <<>>
          /\ Len(tx_mbufs') <= Burst /\ Len(ring') <= RingCap
      <4>1. tx_pc' = IF n = 0 THEN "loop" ELSE "send"
        BY <3>2
      <4> HIDE DEF TypeOK
      <4>2. Len(ring) \in Nat /\ Len(ring) <= RingCap
        BY EmptyLen DEF TypeOK
      <4> QED
        BY <4>1, <4>2, <3>1, <3>3, <3>4, <3>5
    <3>7. UNCHANGED <<pool, rxVars, txq, stop_flag>>
      BY <3>2
    <3> QED
      BY <3>3, <3>4, <3>6, <3>7
  <2>7. CASE PmdReclaim
    <3>1. Head(txq) \in Mbufs /\ Tail(txq) \in Seq(Mbufs)
          /\ Len(Tail(txq)) = Len(txq) - 1
      BY SMTT(30), <2>7 DEF PmdReclaim
    <3>2. pool' \in [Mbufs -> Nat]
      BY <2>7, <3>1, FreeType DEF PmdReclaim
    <3>3. txq' \in Seq(Mbufs) /\ Len(txq') <= TxDescs
      BY <2>7, <3>1 DEF PmdReclaim
    <3>4. UNCHANGED <<ring, rxVars, tx_pc, tx_mbufs, stop_flag>>
      BY <2>7 DEF PmdReclaim
    <3> QED
      BY <3>2, <3>3, <3>4
  <2>8. CASE TxPost
    <3>1. PICK k \in 0..Len(tx_mbufs) :
            /\ Len(txq) + k <= TxDescs
            /\ txq' = txq \o SubSeq(tx_mbufs, 1, k)
            /\ tx_mbufs' = SubSeq(tx_mbufs, k + 1, Len(tx_mbufs))
            /\ tx_pc' = IF k < Len(tx_mbufs) THEN "free" ELSE "loop"
      BY <2>8 DEF TxPost, PostThenFree
    <3>2. /\ SubSeq(tx_mbufs, 1, k) \in Seq(Mbufs) /\ Len(SubSeq(tx_mbufs, 1, k)) = k
          /\ tx_mbufs' \in Seq(Mbufs) /\ Len(tx_mbufs') = Len(tx_mbufs) - k
      <4>1. tx_mbufs \in Seq(Mbufs)
        OBVIOUS
      <4>2. tx_mbufs' = SubSeq(tx_mbufs, k + 1, Len(tx_mbufs))
        BY <3>1
      <4> HIDE DEF TypeOK
      <4> QED
        BY <4>1, <4>2, SplitSeq
    <3>3. txq' \in Seq(Mbufs) /\ Len(txq') <= TxDescs
      <4>1. txq \in Seq(Mbufs)
        OBVIOUS
      <4>2. Len(txq) + k <= TxDescs /\ txq' = txq \o SubSeq(tx_mbufs, 1, k)
        BY <3>1
      <4> HIDE DEF TypeOK
      <4> QED
        BY <4>1, <4>2, <3>2, ConcatType
    <3>4. tx_mbufs' = <<>> <=> ~(k < Len(tx_mbufs))
      <4>1. Len(tx_mbufs) \in Nat /\ k \in Nat
        BY EmptyLen
      <4> HIDE DEF TypeOK
      <4>2. tx_mbufs' = <<>> <=> Len(tx_mbufs') = 0
        BY <3>2, EmptyLen
      <4> QED
        BY <4>1, <4>2, <3>2
    <3>5. /\ tx_pc' \in {"loop", "free"}
          /\ tx_pc' = "free" <=> tx_mbufs' # <<>>
          /\ Len(tx_mbufs') <= Burst
      <4>1. Len(tx_mbufs) \in Nat /\ Len(tx_mbufs) <= Burst /\ Burst \in Nat
        BY EmptyLen
      <4>2. tx_pc' = IF k < Len(tx_mbufs) THEN "free" ELSE "loop"
        BY <3>1
      <4> HIDE DEF TypeOK
      <4> QED
        BY <4>1, <4>2, <3>2, <3>4
    <3>6. UNCHANGED <<pool, ring, rxVars, stop_flag>>
      BY <2>8 DEF TxPost, PostThenFree
    <3> QED
      BY <3>2, <3>3, <3>5, <3>6
  <2>9. CASE TxFree
    <3>1. tx_mbufs # <<>>
      BY <2>9 DEF TxFree
    <3>2. /\ Head(tx_mbufs) \in Mbufs /\ Tail(tx_mbufs) \in Seq(Mbufs)
          /\ Len(tx_mbufs) \in Nat /\ Len(Tail(tx_mbufs)) = Len(tx_mbufs) - 1
          /\ Tail(tx_mbufs) = <<>> <=> Len(tx_mbufs) = 1
      <4>1. tx_mbufs \in Seq(Mbufs)
        OBVIOUS
      <4> HIDE DEF TypeOK
      <4> QED
        BY <3>1, <4>1, HeadTail
    <3>3. pool' \in [Mbufs -> Nat]
      BY <2>9, <3>2, FreeType DEF TxFree
    <3>4. tx_mbufs' = Tail(tx_mbufs) /\ (tx_mbufs' = <<>> <=> Len(tx_mbufs) = 1)
      <4>1. tx_mbufs' = Tail(tx_mbufs)
        BY <2>9 DEF TxFree
      <4> HIDE DEF TypeOK
      <4> QED
        BY <4>1, <3>2
    <3>5. tx_mbufs' \in Seq(Mbufs) /\ Len(tx_mbufs') <= Burst
      BY <3>2, <3>4
    <3>6. /\ tx_pc' \in {"loop", "free"}
          /\ tx_pc' = "free" <=> tx_mbufs' # <<>>
          /\ UNCHANGED <<ring, rxVars, txq, stop_flag>>
      BY <2>9, <3>4 DEF TxFree
    <3> QED
      BY <3>3, <3>5, <3>6
  <2>10. CASE SetStop
    BY <2>10 DEF SetStop
  <2>11. CASE UNCHANGED vars
    BY <2>11 DEF vars
  <2> QED
    BY <2>1, <2>2, <2>3, <2>4, <2>5, <2>6, <2>7, <2>8, <2>9, <2>10, <2>11
       DEF Next, RxStep, TxStep
<1> QED
  BY <1>1, <1>2, PTL DEF Spec

-----------------------------------------------------------------------------
(* Where references go.                                                    *)

(* A put either adds the reference to the mempool or finds it full.        *)
LEMMA FreeDelta ==
  ASSUME NEW x \in Mbufs, Free(x), pool \in [Mbufs -> Nat], NEW m \in Mbufs
  PROVE  \/ ~(PoolCount < PoolCap) /\ pool'[m] = pool[m]
         \/ pool'[m] = pool[m] + (IF x = m THEN 1 ELSE 0)
BY DEF Free

(* The number of references in the mempool is a natural number.            *)
LEMMA PoolCountType ==
  ASSUME pool \in [Mbufs -> Nat]
  PROVE  /\ IsFiniteSet(UNION {{m} \X (1..pool[m]) : m \in Mbufs})
         /\ PoolCount \in Nat
<1> DEFINE Slots(m) == {m} \X (1..pool[m])
           S == {Slots(m) : m \in Mbufs}
           f == [m \in Mbufs |-> Slots(m)]
<1>1. f \in Surjection(Mbufs, S)
  <2>1. f \in [Mbufs -> S]
    OBVIOUS
  <2>2. \A t \in S : \E m \in Mbufs : f[m] = t
    OBVIOUS
  <2> HIDE DEF f, S
  <2> QED
    BY <2>1, <2>2 DEF Surjection
<1>2. IsFiniteSet(S)
  <2> HIDE DEF f, S
  <2> QED
    BY <1>1, FS_Surjection, PipelineAssumption
<1>3. ASSUME NEW t \in S PROVE IsFiniteSet(t)
  <2>1. PICK m \in Mbufs : t = {m} \X (1..pool[m])
    OBVIOUS
  <2>2. IsFiniteSet({m}) /\ IsFiniteSet(1..pool[m])
    <3>1. pool[m] \in Int /\ 1 \in Int
      OBVIOUS
    <3> QED
      BY <3>1, FS_Singleton, FS_Interval
  <2> QED
    BY <2>1, <2>2, FS_Product
<1>4. IsFiniteSet(UNION S)
  <2> HIDE DEF S
  <2> QED
    BY <1>2, <1>3, FS_UNION
<1> QED
  BY <1>4, FS_CardinalityType DEF PoolCount

(* The parts of Refs(m) are natural numbers.                               *)
LEMMA RefsType ==
  ASSUME TypeOK, NEW m \in Mbufs
  PROVE  /\ pool[m] \in Nat /\ Occ(rx_mbufs, m) \in Nat /\ Occ(ring, m) \in Nat
         /\ Occ(tx_mbufs, m) \in Nat /\ Occ(txq, m) \in Nat
BY OccType DEF TypeOK

LEMMA RefsNat ==
  ASSUME TypeOK, NEW m \in Mbufs
  PROVE  Refs(m) \in Nat
<1> DEFINE a == IF RxOwns THEN Occ(rx_mbufs, m) ELSE 0
           b == Occ(ring, m)
           c == Occ(tx_mbufs, m)
           d == Occ(txq, m)
<1>1. pool[m] \in Nat /\ a \in Nat /\ b \in Nat /\ c \in Nat /\ d \in Nat
  BY RefsType
<1>2. Refs(m) = pool[m] + a + b + c + d
  BY DEF Refs
<1> HIDE DEF a, b, c, d
<1> QED
  BY <1>1, <1>2

(* The freeing loop is entered when the ring has taken the burst.          *)
LEMMA BulkResultTest ==
  ASSUME NEW taken \in BOOLEAN, NEW n \in Nat, n # 0
  PROVE  BulkResult(taken, n) # 0 <=> taken
BY DEF BulkResult

(* How each step changes the references to m: not at all, except for the   *)
(* freeing loop of the rx thread (one more), an enqueue that finds the     *)
(* ring full (the whole burst is forgotten), and a put into a full         *)
(* mempool.                                                                *)
LEMMA RefsStep ==
  ASSUME TypeOK, TypeOK', [Next]_vars, NEW m \in Mbufs
  PROVE  \/ Refs(m)' = Refs(m)
         \/ rx_pc = "free" /\ m = Head(rx_mbufs) /\ Refs(m)' = Refs(m) + 1
         \/ rx_pc = "enq" /\ ring' = ring /\ Refs(m)' = Refs(m) - Occ(rx_mbufs, m)
         \/ PoolCount >= PoolCap /\ Refs(m)' <= Refs(m)
<1>0. Burst \in Nat /\ PoolCap \in Nat
  BY PipelineAssumption
<1>1. /\ pool \in [Mbufs -> Nat] /\ ring \in Seq(Mbufs) /\ txq \in Seq(Mbufs)
      /\ rx_mbufs \in Seq(Mbufs) /\ tx_mbufs \in Seq(Mbufs)
      /\ (rx_pc \in {"enq", "free"} <=> rx_mbufs # <<>>)
      /\ (tx_pc \in {"send", "free"} <=> tx_mbufs # <<>>)
  BY DEF TypeOK
<1>2. /\ pool[m] \in Nat /\ Occ(rx_mbufs, m) \in Nat /\ Occ(ring, m) \in Nat
      /\ Occ(tx_mbufs, m) \in Nat /\ Occ(txq, m) \in Nat
  BY RefsType
<1>3. PoolCount < PoolCap \/ PoolCount >= PoolCap
  BY <1>0, <1>1, PoolCountType
<1>4. CASE RxCheck \/ TxCheck \/ SetStop \/ UNCHANGED vars
  BY <1>4 DEF RxCheck, TxCheck, SetStop, vars, rxVars, txVars, Refs, RxOwns
<1>5. CASE RxBurst
  <2>1. PICK b \in Bursts :
          /\ \A y \in Mbufs : Occ(b, y) <= pool[y]
          /\ pool' = [y \in Mbufs |-> pool[y] - Occ(b, y)]
          /\ rx_mbufs' = b
          /\ rx_pc' = IF b = <<>> THEN "loop" ELSE "enq"
    BY <1>5 DEF RxBurst
  <2>2. Occ(b, m) \in Nat /\ (b = <<>> => Occ(b, m) = 0)
    BY BurstType, OccType, OccEmpty
  <2>3. pool'[m] = pool[m] - Occ(b, m)
    BY <2>1
  <2>4. (IF RxOwns' THEN Occ(rx_mbufs, m)' ELSE 0) = Occ(b, m)
    BY <2>1, <2>2 DEF RxOwns
  <2>5. ~RxOwns /\ UNCHANGED <<ring, tx_mbufs, txq>>
    BY <1>5 DEF RxOwns, RxBurst, txVars
  <2> QED
    BY <1>2, <2>2, <2>3, <2>4, <2>5 DEF Refs
<1>6. CASE RxEnqueue
  <2> DEFINE taken == Len(ring) + Len(rx_mbufs) <= RingCap
  <2>1. rx_mbufs # <<>> /\ UNCHANGED <<pool, tx_mbufs, txq>> /\ RxOwns
    BY <1>1, <1>6 DEF RxEnqueue, txVars, RxOwns
  <2>2. Len(rx_mbufs) \in Nat /\ Len(rx_mbufs) # 0
    BY <1>1, <2>1, EmptyLen
  <2>3. BulkResult(taken, Len(rx_mbufs)) # 0 <=> taken
    <3>1. taken \in BOOLEAN
      OBVIOUS
    <3> HIDE DEF taken
    <3> QED
      BY <2>2, <3>1, BulkResultTest
  <2>4. CASE taken
    <3>1. ring' = ring \o rx_mbufs
      BY <1>6, <2>4 DEF RxEnqueue
    <3>2. Occ(ring, m)' = Occ(ring, m) + Occ(rx_mbufs, m)
      BY <1>1, <3>1, OccConcat
    <3>3. ~RxOwns'
      BY <1>0, <1>6, <2>3, <2>4 DEF RxEnqueue, RxOwns
    <3> QED
      BY <1>2, <2>1, <3>2, <3>3 DEF Refs
  <2>5. CASE ~taken
    <3>1. ring' = ring
      BY <1>6, <2>5 DEF RxEnqueue
    <3>2. ~RxOwns'
      BY <1>6, <2>3, <2>5 DEF RxEnqueue, RxOwns
    <3> QED
      BY SMTT(30), <1>2, <1>6, <2>1, <3>1, <3>2 DEF Refs, RxEnqueue
  <2> QED
    BY <2>4, <2>5
<1>7. CASE RxFree
  <2>1. rx_mbufs # <<>> /\ rx_pc = "free" /\ UNCHANGED <<ring, tx_mbufs, txq>>
    BY <1>1, <1>7 DEF RxFree, txVars
  <2> DEFINE x == Head(rx_mbufs)
  <2>2. x \in Mbufs /\ Occ(rx_mbufs, m) = Occ(Tail(rx_mbufs), m) + (IF x = m THEN 1 ELSE 0)
        /\ Tail(rx_mbufs) \in Seq(Mbufs)
    BY <1>1, <2>1, OccTail
  <2>3. Occ(Tail(rx_mbufs), m) \in Nat
    BY <2>2, OccType
  <2>4. \/ ~(PoolCount < PoolCap) /\ pool'[m] = pool[m]
        \/ pool'[m] = pool[m] + (IF x = m THEN 1 ELSE 0)
    BY <1>1, <1>7, <2>2, FreeDelta DEF RxFree
  <2>5. rx_mbufs' = Tail(rx_mbufs) /\ rx_pc' = IF Len(rx_mbufs) = 1 THEN "loop" ELSE "free"
    BY <1>7 DEF RxFree
  <2>6. ~RxOwns /\ ~RxOwns'
    BY <2>1, <2>5 DEF RxOwns
  <2>7. pool'[m] = pool[m] => Refs(m)' = Refs(m)
    BY <2>1, <2>6 DEF Refs
  <2>8. pool'[m] = pool[m] + 1 => Refs(m)' = Refs(m) + 1
    BY <1>2, <2>1, <2>6 DEF Refs
  <2>9. pool[m] + 0 = pool[m]
    BY <1>2
  <2> QED
    BY <2>1, <2>4, <2>7, <2>8, <2>9
<1>8. CASE TxDequeue
  <2> DEFINE n == IF Len(ring) < Burst THEN Len(ring) ELSE Burst
  <2>1. n \in 0..Len(ring)
    BY <1>0, <1>1, EmptyLen
  <2>2. /\ tx_mbufs' = SubSeq(ring, 1, n)
        /\ ring' = SubSeq(ring, n + 1, Len(ring))
        /\ UNCHANGED <<pool, rx_pc, rx_mbufs, txq>>
    BY <1>8 DEF TxDequeue, rxVars
  <2> HIDE DEF n
  <2>3. Occ(ring, m) = Occ(tx_mbufs, m)' + Occ(ring, m)'
    BY <1>1, <2>1, <2>2, OccSplit
  <2>4. tx_mbufs = <<>>
    BY <1>1, <1>8 DEF TxDequeue
  <2>5. Occ(tx_mbufs, m) = 0
    BY <2>4, OccEmpty
  <2>6. Occ(tx_mbufs, m)' \in Nat /\ Occ(ring, m)' \in Nat
    <3>1. tx_mbufs' \in Seq(Mbufs) /\ ring' \in Seq(Mbufs)
      BY DEF TypeOK
    <3> QED
      BY <3>1, OccType
  <2>7. UNCHANGED RxOwns
    BY <2>2 DEF RxOwns
  <2> QED
    BY <1>2, <2>2, <2>3, <2>5, <2>6, <2>7 DEF Refs
<1>9. CASE PmdReclaim
  <2>1. txq # <<>> /\ UNCHANGED <<ring, rx_pc, rx_mbufs, tx_mbufs>> /\ txq' = Tail(txq)
    BY <1>9 DEF PmdReclaim, rxVars
  <2> DEFINE x == Head(txq)
  <2>2. x \in Mbufs /\ Occ(txq, m) = Occ(Tail(txq), m) + (IF x = m THEN 1 ELSE 0)
        /\ Tail(txq) \in Seq(Mbufs)
    BY <1>1, <2>1, OccTail
  <2>3. Occ(Tail(txq), m) \in Nat
    BY <2>2, OccType
  <2>4. \/ ~(PoolCount < PoolCap) /\ pool'[m] = pool[m]
        \/ pool'[m] = pool[m] + (IF x = m THEN 1 ELSE 0)
    BY <1>1, <1>9, <2>2, FreeDelta DEF PmdReclaim
  <2>6. UNCHANGED RxOwns
    BY <2>1 DEF RxOwns
  <2>7. Occ(txq, m)' = Occ(Tail(txq), m)
    BY <2>1
  <2>8. CASE ~(PoolCount < PoolCap) /\ pool'[m] = pool[m]
    <3>1. Refs(m)' <= Refs(m)
      BY SMTT(30), <1>2, <2>1, <2>2, <2>3, <2>6, <2>7, <2>8 DEF Refs
    <3> QED
      BY <1>3, <2>8, <3>1
  <2>9. CASE pool'[m] = pool[m] + (IF x = m THEN 1 ELSE 0)
    <3> DEFINE e == IF x = m THEN 1 ELSE 0
    <3>1. e \in {0, 1}
      OBVIOUS
    <3>2. pool'[m] = pool[m] + e /\ Occ(txq, m) = Occ(txq, m)' + e /\ Occ(txq, m)' \in Nat
      BY <2>2, <2>3, <2>7, <2>9
    <3> HIDE DEF e, x
    <3>3. Occ(ring, m)' = Occ(ring, m) /\ Occ(rx_mbufs, m)' = Occ(rx_mbufs, m)
          /\ Occ(tx_mbufs, m)' = Occ(tx_mbufs, m)
      BY <2>1
    <3>4. Refs(m)' = Refs(m)
      BY <1>2, <2>6, <3>1, <3>2, <3>3 DEF Refs
    <3> QED
      BY <3>4
  <2> QED
    BY <2>4, <2>8, <2>9
<1>10. CASE TxPost
  <2>1. PICK k \in 0..Len(tx_mbufs) :
          /\ txq' = txq \o SubSeq(tx_mbufs, 1, k)
          /\ tx_mbufs' = SubSeq(tx_mbufs, k + 1, Len(tx_mbufs))
    BY <1>10 DEF TxPost, PostThenFree
  <2>2. /\ SubSeq(tx_mbufs, 1, k) \in Seq(Mbufs)
        /\ SubSeq(tx_mbufs, k + 1, Len(tx_mbufs)) \in Seq(Mbufs)
    BY <1>1, SplitSeq
  <2>3. Occ(tx_mbufs, m) = Occ(SubSeq(tx_mbufs, 1, k), m) + Occ(tx_mbufs, m)'
    BY <1>1, <2>1, OccSplit
  <2>4. Occ(txq, m)' = Occ(txq, m) + Occ(SubSeq(tx_mbufs, 1, k), m)
    BY ZenonT(30), <1>1, <2>1, <2>2, OccConcat
  <2>5. Occ(SubSeq(tx_mbufs, 1, k), m) \in Nat /\ Occ(tx_mbufs, m)' \in Nat
    BY <2>1, <2>2, OccType
  <2>6. UNCHANGED <<pool, ring, rx_mbufs, RxOwns>>
    BY <1>10 DEF TxPost, PostThenFree, rxVars, RxOwns
  <2> QED
    BY SMTT(30), <1>2, <2>3, <2>4, <2>5, <2>6 DEF Refs
<1>11. CASE TxFree
  <2>1. tx_mbufs # <<>> /\ UNCHANGED <<ring, rx_pc, rx_mbufs, txq>> /\ tx_mbufs' = Tail(tx_mbufs)
    BY <1>1, <1>11 DEF TxFree, rxVars
  <2> DEFINE x == Head(tx_mbufs)
  <2>2. x \in Mbufs /\ Occ(tx_mbufs, m) = Occ(Tail(tx_mbufs), m) + (IF x = m THEN 1 ELSE 0)
        /\ Tail(tx_mbufs) \in Seq(Mbufs)
    BY <1>1, <2>1, OccTail
  <2>3. Occ(Tail(tx_mbufs), m) \in Nat
    BY <2>2, OccType
  <2>4. \/ ~(PoolCount < PoolCap) /\ pool'[m] = pool[m]
        \/ pool'[m] = pool[m] + (IF x = m THEN 1 ELSE 0)
    BY <1>1, <1>11, <2>2, FreeDelta DEF TxFree
  <2>6. UNCHANGED RxOwns
    BY <2>1 DEF RxOwns
  <2>7. Occ(tx_mbufs, m)' = Occ(Tail(tx_mbufs), m)
    BY <2>1
  <2>8. CASE ~(PoolCount < PoolCap) /\ pool'[m] = pool[m]
    <3>1. Refs(m)' <= Refs(m)
      BY SMTT(30), <1>2, <2>1, <2>2, <2>3, <2>6, <2>7, <2>8 DEF Refs
    <3> QED
      BY <1>3, <2>8, <3>1
  <2>9. CASE pool'[m] = pool[m] + (IF x = m THEN 1 ELSE 0)
    <3> DEFINE e == IF x = m THEN 1 ELSE 0
    <3>1. e \in {0, 1}
      OBVIOUS
    <3>2. pool'[m] = pool[m] + e /\ Occ(tx_mbufs, m) = Occ(tx_mbufs, m)' + e /\ Occ(tx_mbufs, m)' \in Nat
      BY <2>2, <2>3, <2>7, <2>9
    <3> HIDE DEF e, x
    <3>3. Occ(ring, m)' = Occ(ring, m) /\ Occ(rx_mbufs, m)' = Occ(rx_mbufs, m)
          /\ Occ(txq, m)' = Occ(txq, m)
      BY <2>1
    <3>4. Refs(m)' = Refs(m)
      BY <1>2, <2>6, <3>1, <3>2, <3>3 DEF Refs
    <3> QED
      BY <3>4
  <2> QED
    BY <2>4, <2>8, <2>9
<1> QED
  BY <1>4, <1>5, <1>6, <1>7, <1>8, <1>9, <1>10, <1>11 DEF Next, RxStep, TxStep

(* The action property MbufConserved of the forwarding threads, for every  *)
(* size of ring, burst, tx queue and mempool: only the rx thread's freeing *)
(* loop can make a second reference to an mbuf, and only a full ring or a  *)
(* full mempool can make one disappear.                                    *)
THEOREM PipelineConserved == Spec => MbufConserved
<1>1. ASSUME TypeOK, TypeOK', [Next]_vars
      PROVE  [ConservingStep]_vars
  <2> SUFFICES ASSUME NEW m \in Mbufs
               PROVE  /\ Refs(m)' > Refs(m) => rx_pc = "free" /\ m = Head(rx_mbufs)
                      /\ Refs(m)' < Refs(m) => \/ rx_pc = "enq" /\ ring' = ring
                                               \/ PoolCount >= PoolCap
    BY DEF ConservingStep
  <2>1. Refs(m) \in Nat
    BY <1>1, RefsNat
  <2>2. Refs(m)' \in Nat
    <3>1. /\ pool' \in [Mbufs -> Nat] /\ ring' \in Seq(Mbufs) /\ txq' \in Seq(Mbufs)
          /\ rx_mbufs' \in Seq(Mbufs) /\ tx_mbufs' \in Seq(Mbufs)
      BY <1>1 DEF TypeOK
    <3>2. /\ pool'[m] \in Nat /\ Occ(ring', m) \in Nat /\ Occ(txq', m) \in Nat
          /\ Occ(rx_mbufs', m) \in Nat /\ Occ(tx_mbufs', m) \in Nat
      BY <3>1, OccType
    <3> QED
      BY <3>2 DEF Refs
  <2>3. Occ(rx_mbufs, m) \in Nat
    BY <1>1, RefsType
  <2> QED
    BY <1>1, <2>1, <2>2, <2>3, RefsStep
<1> QED
  BY <1>1, PipelineTypeOK, PTL DEF MbufConserved, Spec

-----------------------------------------------------------------------------
(* The two threads implement the FIFO channel.                             *)

(* Cutting a concatenation inside its first part.                          *)
LEMMA CutConcat ==
  ASSUME NEW S, NEW s \in Seq(S), NEW t \in Seq(S), NEW k \in 0..Len(s)
  PROVE  /\ SubSeq(s \o t, 1, k) = SubSeq(s, 1, k)
         /\ SubSeq(s \o t, k + 1, Len(s \o t)) = SubSeq(s, k + 1, Len(s)) \o t
<1> DEFINE p == SubSeq(s, 1, k)
           q == SubSeq(s, k + 1, Len(s))
           u == SubSeq(s \o t, 1, k)
           v == SubSeq(s \o t, k + 1, Len(s \o t))
<1>0. /\ Len(s) \in Nat /\ Len(t) \in Nat /\ k \in Nat /\ k <= Len(s)
      /\ s \o t \in Seq(S) /\ Len(s \o t) = Len(s) + Len(t)
  OBVIOUS
<1>1. p \in Seq(S) /\ Len(p) = k /\ \A i \in 1..k : p[i] = s[i]
  OBVIOUS
<1>2. q \in Seq(S) /\ Len(q) = Len(s) - k /\ \A i \in 1..(Len(s) - k) : q[i] = s[k + i]
  OBVIOUS
<1>3. u \in Seq(S) /\ Len(u) = k /\ \A i \in 1..k : u[i] = s[i]
  <2>1. u \in Seq(S) /\ Len(u) = k /\ \A i \in 1..k : u[i] = (s \o t)[i]
    BY <1>0
  <2>2. \A i \in 1..k : (s \o t)[i] = s[i]
    BY <1>0
  <2> QED
    BY <2>1, <2>2
<1>4. v \in Seq(S) /\ Len(v) = Len(s) + Len(t) - k
      /\ \A i \in 1..(Len(s) + Len(t) - k) : v[i] = (s \o t)[k + i]
  <2> DEFINE w == s \o t
  <2>1. w \in Seq(S) /\ Len(w) = Len(s) + Len(t)
    BY <1>0
  <2> HIDE DEF w
  <2>2. /\ SubSeq(w, k + 1, Len(w)) \in Seq(S)
        /\ Len(SubSeq(w, k + 1, Len(w))) = Len(w) - k
        /\ \A i \in 1..(Len(w) - k) : SubSeq(w, k + 1, Len(w))[i] = w[k + i]
    BY <1>0, <2>1
  <2> QED
    BY SMTT(30), <2>1, <2>2 DEF w
<1> HIDE DEF p, q, u, v
<1>5. u = p
  BY <1>1, <1>3, SeqEqual
<1>6. v = q \o t
  <2>1. q \o t \in Seq(S) /\ Len(q \o t) = Len(s) - k + Len(t)
    BY <1>2, ConcatType
  <2>2. ASSUME NEW i \in 1..(Len(s) + Len(t) - k) PROVE v[i] = (q \o t)[i]
    <3>1. CASE i <= Len(s) - k
      BY <1>0, <1>2, <1>4, <3>1
    <3>2. CASE ~(i <= Len(s) - k)
      <4>1. k + i > Len(s) /\ k + i - Len(s) = i - (Len(s) - k)
        BY <1>0, <3>2
      <4>2. (q \o t)[i] = t[i - (Len(s) - k)]
        BY SMTT(30), <1>0, <1>2, <3>2
      <4>3. (s \o t)[k + i] = t[k + i - Len(s)]
        BY SMTT(30), <1>0, <4>1
      <4> QED
        BY <1>4, <4>1, <4>2, <4>3
    <3> QED
      BY <1>0, <3>1, <3>2
  <2>3. Len(v) = Len(q \o t)
    BY <1>0, <1>4, <2>1
  <2> QED
    BY <1>0, <1>4, <2>1, <2>2, <2>3, SeqEqual
<1> QED
  BY <1>5, <1>6 DEF p, q, u, v

(* Concatenation is associative and the empty sequence is its unit.        *)
LEMMA ConcatLaws ==
  ASSUME NEW S, NEW s \in Seq(S), NEW t \in Seq(S), NEW u \in Seq(S)
  PROVE  /\ s \o (t \o u) = (s \o t) \o u
         /\ <<>> \o s = s /\ s \o <<>> = s
OBVIOUS

(* fpga_rx_thread and fpga_tx_thread hand mbufs over in order, each burst  *)
(* whole or not at all, and drop only the oldest waiting ones: they        *)
(* implement ForwardChannel, whatever the ring's return convention.        *)
THEOREM PipelineImplementsChannel == Spec => ImplementsChannel
<1>1. Init => Channel!Init
  BY DEF Init, Channel!Init
<1>2. ASSUME TypeOK, [Next]_vars PROVE [Channel!Next]_(Channel!vars)
  <2> DEFINE waiting == tx_mbufs \o ring
  <2> SUFFICES Channel!Next \/ (waiting' = waiting /\ txq' = txq)
    BY DEF Channel!vars
  <2>0. /\ ring \in Seq(Mbufs) /\ tx_mbufs \in Seq(Mbufs) /\ rx_mbufs \in Seq(Mbufs)
        /\ txq \in Seq(Mbufs) /\ Len(ring) \in Nat /\ Len(tx_mbufs) \in Nat
        /\ Len(tx_mbufs) <= Burst /\ Burst \in Nat /\ RingCap \in Nat
        /\ waiting \in Seq(Mbufs) /\ Len(waiting) = Len(tx_mbufs) + Len(ring)
    BY <1>2, PipelineAssumption DEF TypeOK
  <2>1. CASE RxCheck \/ RxBurst \/ RxFree \/ TxCheck \/ SetStop \/ UNCHANGED vars
    BY <2>1 DEF RxCheck, RxBurst, RxFree, TxCheck, SetStop, vars, txVars
  <2>2. CASE RxEnqueue
    <3>1. UNCHANGED <<tx_mbufs, txq>>
      BY <2>2 DEF RxEnqueue, txVars
    <3>2. CASE Len(ring) + Len(rx_mbufs) <= RingCap
      <4>1. ring' = ring \o rx_mbufs
        BY <2>2, <3>2 DEF RxEnqueue
      <4>2. waiting' = waiting \o rx_mbufs
        <5>1. tx_mbufs \o (ring \o rx_mbufs) = (tx_mbufs \o ring) \o rx_mbufs
          BY SMTT(30), <2>0, ConcatLaws
        <5> QED
          BY <3>1, <4>1, <5>1
      <4>3. rx_mbufs # <<>> /\ Len(rx_mbufs) <= Burst
        BY <1>2, <2>2 DEF TypeOK, RxEnqueue
      <4>4. Len(rx_mbufs) \in 1..Burst /\ rx_mbufs \in [1..Len(rx_mbufs) -> Mbufs]
        BY <2>0, <4>3, EmptyLen
      <4>5. rx_mbufs \in Channel!Batches
        BY <4>4 DEF Channel!Batches
      <4>6. Len(waiting) + Len(rx_mbufs) <= RingCap + Burst
        BY <2>0, <3>2, <4>4
      <4>7. Channel!Accept
        BY <3>1, <4>2, <4>5, <4>6 DEF Channel!Accept
      <4> QED
        BY <4>7 DEF Channel!Next
    <3>3. CASE ~(Len(ring) + Len(rx_mbufs) <= RingCap)
      BY <2>2, <3>1, <3>3 DEF RxEnqueue
    <3> QED
      BY <3>2, <3>3
  <2>3. CASE TxDequeue
    <3> DEFINE n == IF Len(ring) < Burst THEN Len(ring) ELSE Burst
    <3>1. n \in 0..Len(ring)
      BY <2>0
    <3>2. tx_mbufs' = SubSeq(ring, 1, n) /\ ring' = SubSeq(ring, n + 1, Len(ring)) /\ txq' = txq
      BY <2>3 DEF TxDequeue
    <3>3. tx_mbufs = <<>>
      BY <1>2, <2>3 DEF TypeOK, TxDequeue
    <3> HIDE DEF n
    <3>4. tx_mbufs' \o ring' = ring
      <4>1. ring = SubSeq(ring, 1, n) \o SubSeq(ring, n + 1, Len(ring))
        BY <2>0, <3>1, SplitSeq
      <4> QED
        BY <3>2, <4>1
    <3>5. waiting = ring
      BY <2>0, <3>3, ConcatLaws
    <3> QED
      BY <3>2, <3>4, <3>5
  <2>4. CASE PmdReclaim
    <3>1. Channel!Complete
      BY <2>4 DEF PmdReclaim, Channel!Complete
    <3> QED
      BY <3>1 DEF Channel!Next
  <2>5. CASE TxPost
    <3>1. PICK k \in 0..Len(tx_mbufs) :
            /\ Len(txq) + k <= TxDescs
            /\ txq' = txq \o SubSeq(tx_mbufs, 1, k)
            /\ tx_mbufs' = SubSeq(tx_mbufs, k + 1, Len(tx_mbufs))
      BY <2>5 DEF TxPost, PostThenFree
    <3>2. ring' = ring
      BY <2>5 DEF TxPost, PostThenFree
    <3>3. /\ SubSeq(waiting, 1, k) = SubSeq(tx_mbufs, 1, k)
          /\ SubSeq(waiting, k + 1, Len(waiting)) = SubSeq(tx_mbufs, k + 1, Len(tx_mbufs)) \o ring
      BY <2>0, CutConcat
    <3>4. waiting' = SubSeq(waiting, k + 1, Len(waiting))
      BY <3>1, <3>2, <3>3
    <3>5. CASE k = 0
      <4>1. SubSeq(tx_mbufs, 1, k) = <<>>
        BY <2>0, <3>5, SplitSeq, EmptyLen
      <4>2. txq' = txq
        BY <2>0, <3>1, <4>1, ConcatLaws
      <4>3. SubSeq(tx_mbufs, k + 1, Len(tx_mbufs)) = tx_mbufs
        <5>1. SubSeq(tx_mbufs, k + 1, Len(tx_mbufs)) \in Seq(Mbufs)
          BY <2>0, SplitSeq
        <5>2. tx_mbufs = <<>> \o SubSeq(tx_mbufs, k + 1, Len(tx_mbufs))
          BY <2>0, <4>1, SplitSeq
        <5> QED
          BY <5>1, <5>2, ConcatLaws
      <4> QED
        BY <3>1, <3>2, <4>2, <4>3
    <3>6. CASE k # 0
      <4>1. k \in 1..Len(waiting)
        BY <2>0, <3>6
      <4>2. txq' = txq \o SubSeq(waiting, 1, k)
        BY <3>1, <3>3
      <4>3. Channel!Post
        BY <3>1, <3>4, <4>1, <4>2 DEF Channel!Post
      <4> QED
        BY <4>3 DEF Channel!Next
    <3> QED
      BY <3>5, <3>6
  <2>6. CASE TxFree
    <3>1. tx_mbufs # <<>> /\ tx_mbufs' = Tail(tx_mbufs) /\ UNCHANGED <<ring, txq>>
      BY <1>2, <2>6 DEF TypeOK, TxFree
    <3>2. Len(tx_mbufs) # 0 /\ 1 \in 0..Len(tx_mbufs)
      BY <2>0, <3>1, EmptyLen
    <3>3. SubSeq(waiting, 2, Len(waiting)) = SubSeq(tx_mbufs, 2, Len(tx_mbufs)) \o ring
      <4>1. SubSeq(waiting, 1 + 1, Len(waiting)) = SubSeq(tx_mbufs, 1 + 1, Len(tx_mbufs)) \o ring
        BY <2>0, <3>2, CutConcat
      <4> QED
        BY <4>1
    <3>4. Tail(tx_mbufs) = SubSeq(tx_mbufs, 2, Len(tx_mbufs))
      BY <2>0, <3>2, TailIsSubSeq
    <3>5. waiting # <<>> /\ Tail(waiting) = SubSeq(waiting, 2, Len(waiting))
      <4>1. waiting # <<>>
        BY <2>0, <3>2, EmptyLen
      <4> HIDE DEF waiting
      <4> QED
        BY <2>0, <4>1, TailIsSubSeq
    <3>6. Channel!Discard
      BY <3>1, <3>3, <3>4, <3>5 DEF Channel!Discard
    <3> QED
      BY <3>6 DEF Channel!Next
  <2> QED
    BY <1>2, <2>1, <2>2, <2>3, <2>4, <2>5, <2>6 DEF Next, RxStep, TxStep
<1> QED
  BY <1>1, <1>2, PipelineTypeOK, PTL DEF Spec, ImplementsChannel, Channel!Spec

-----------------------------------------------------------------------------
(* The steps that a thread takes at most until it is done, once the stop   *)
(* flag is set: the rest of its iteration, with every mbuf of the burst    *)
(* freed one by one, and the test of the flag.                             *)
StepsLeft(pc, mbufs) ==
  CASE pc = "done"             -> 0
    [] pc = "loop"             -> 1
    [] pc = "free"             -> 1 + Len(mbufs)
    [] pc \in {"enq", "send"}  -> 2 + Len(mbufs)
    [] pc = "poll"             -> 3 + Burst

RxLeft == StepsLeft(rx_pc, rx_mbufs)
TxLeft == StepsLeft(tx_pc, tx_mbufs)

(* After SIGINT no thread can go round its loop once more: each of its     *)
(* steps, whatever the ring, the mempool and the device do, brings it      *)
(* nearer to its end, which is BURST_SIZE + 3 steps away at most.          *)
StopDescends ==
  [][stop_flag =>
       /\ RxLeft <= Burst + 3 /\ TxLeft <= Burst + 3
       /\ IF RxStep THEN RxLeft' < RxLeft ELSE RxLeft' = RxLeft
       /\ IF TxStep THEN TxLeft' < TxLeft ELSE TxLeft' = TxLeft]_vars

LEMMA LeftType ==
  ASSUME TypeOK
  PROVE  RxLeft \in 0..(Burst + 3) /\ TxLeft \in 0..(Burst + 3)
<1>1. Burst \in Nat /\ Len(rx_mbufs) \in 0..Burst /\ Len(tx_mbufs) \in 0..Burst
  BY PipelineAssumption DEF TypeOK
<1> QED
  BY SMTT(30), <1>1 DEF TypeOK, RxLeft, TxLeft, StepsLeft

(* The rx thread.                                                          *)
LEMMA RxDescends ==
  ASSUME TypeOK, TypeOK', stop_flag, RxStep
  PROVE  RxLeft' < RxLeft /\ TxLeft' = TxLeft
<1>1. /\ Burst \in Nat /\ Len(rx_mbufs) \in Nat /\ Len(rx_mbufs)' \in 0..Burst
      /\ rx_mbufs \in Seq(Mbufs)
  BY PipelineAssumption DEF TypeOK
<1>2. CASE RxCheck
  BY <1>2 DEF RxCheck, RxLeft, TxLeft, StepsLeft, txVars
<1>3. CASE RxBurst
  <2>1. rx_pc = "poll" /\ rx_pc' \in {"loop", "enq"} /\ UNCHANGED <<tx_pc, tx_mbufs>>
    BY <1>3 DEF RxBurst, txVars
  <2> QED
    BY <1>1, <2>1 DEF RxLeft, TxLeft, StepsLeft
<1>4. CASE RxEnqueue
  <2>1. /\ rx_pc = "enq" /\ UNCHANGED <<tx_pc, tx_mbufs>>
        /\ rx_pc' = "loop" \/ (rx_pc' = "free" /\ rx_mbufs' = rx_mbufs)
    BY <1>4 DEF RxEnqueue, txVars
  <2> QED
    BY <1>1, <2>1 DEF RxLeft, TxLeft, StepsLeft
<1>5. CASE RxFree
  <2>1. /\ rx_pc = "free" /\ UNCHANGED <<tx_pc, tx_mbufs>>
        /\ rx_mbufs' = Tail(rx_mbufs) /\ rx_pc' \in {"loop", "free"} /\ rx_mbufs # <<>>
    BY <1>5 DEF RxFree, txVars, TypeOK
  <2>2. Len(rx_mbufs') = Len(rx_mbufs) - 1 /\ Len(rx_mbufs) > 0
    BY <1>1, <2>1, EmptyLen, HeadTail
  <2> QED
    BY <1>1, <2>1, <2>2 DEF RxLeft, TxLeft, StepsLeft
<1> QED
  BY <1>2, <1>3, <1>4, <1>5 DEF RxStep

(* The tx thread.                                                          *)
LEMMA TxDescends ==
  ASSUME TypeOK, TypeOK', stop_flag, TxStep
  PROVE  TxLeft' < TxLeft /\ RxLeft' = RxLeft
<1>1. /\ Burst \in Nat /\ Len(tx_mbufs) \in Nat /\ Len(tx_mbufs)' \in 0..Burst
      /\ tx_mbufs \in Seq(Mbufs)
  BY PipelineAssumption DEF TypeOK
<1>2. CASE TxCheck
  BY <1>2 DEF TxCheck, RxLeft, TxLeft, StepsLeft, rxVars
<1>3. CASE TxDequeue
  <2>1. tx_pc = "poll" /\ tx_pc' \in {"loop", "send"} /\ UNCHANGED <<rx_pc, rx_mbufs>>
    BY <1>3 DEF TxDequeue, rxVars
  <2> QED
    BY <1>1, <2>1 DEF RxLeft, TxLeft, StepsLeft
<1>4. CASE TxPost
  <2>1. PICK k \in 0..Len(tx_mbufs) :
           /\ tx_mbufs' = SubSeq(tx_mbufs, k + 1, Len(tx_mbufs))
           /\ tx_pc = "send" /\ tx_pc' \in {"loop", "free"}
           /\ UNCHANGED <<rx_pc, rx_mbufs>>
    BY <1>4 DEF TxPost, PostThenFree, rxVars
  <2>2. Len(tx_mbufs') = Len(tx_mbufs) - k
    BY <1>1, <2>1, SplitSeq
  <2>3. Len(tx_mbufs') \in Nat /\ Len(tx_mbufs') <= Len(tx_mbufs)
    BY <1>1, <2>2
  <2>4. TxLeft = 2 + Len(tx_mbufs) /\ RxLeft' = RxLeft
    BY <2>1 DEF RxLeft, TxLeft, StepsLeft
  <2>5. TxLeft' = 1 \/ TxLeft' = 1 + Len(tx_mbufs')
    BY <2>1 DEF TxLeft, StepsLeft
  <2> QED
    BY <1>1, <2>3, <2>4, <2>5
<1>5. CASE TxFree
  <2>1. /\ tx_pc = "free" /\ UNCHANGED <<rx_pc, rx_mbufs>>
        /\ tx_mbufs' = Tail(tx_mbufs) /\ tx_pc' \in {"loop", "free"} /\ tx_mbufs # <<>>
    BY <1>5 DEF TxFree, rxVars, TypeOK
  <2>2. Len(tx_mbufs') = Len(tx_mbufs) - 1 /\ Len(tx_mbufs) > 0
    BY <1>1, <2>1, EmptyLen, HeadTail
  <2> QED
    BY <1>1, <2>1, <2>2 DEF RxLeft, TxLeft, StepsLeft
<1> QED
  BY <1>2, <1>3, <1>4, <1>5 DEF TxStep

(* The part of StopTerminates that needs no fairness.                      *)
THEOREM PipelineStopDescends == Spec => StopDescends
<1> DEFINE Step == stop_flag =>
             /\ RxLeft <= Burst + 3 /\ TxLeft <= Burst + 3
             /\ IF RxStep THEN RxLeft' < RxLeft ELSE RxLeft' = RxLeft
             /\ IF TxStep THEN TxLeft' < TxLeft ELSE TxLeft' = TxLeft
<1>1. ASSUME TypeOK, TypeOK', [Next]_vars, stop_flag PROVE Step
  <2>0. RxLeft \in 0..(Burst + 3) /\ TxLeft \in 0..(Burst + 3)
    BY <1>1, LeftType
  <2>1. CASE RxStep
    <3>1. RxLeft' < RxLeft /\ TxLeft' = TxLeft
      BY <1>1, <2>1, RxDescends
    <3>2. ~TxStep
      <4>1. TxStep => TxLeft' < TxLeft
        BY <1>1, TxDescends
      <4> QED
        BY <2>0, <3>1, <4>1
    <3> QED
      BY <2>0, <2>1, <3>1, <3>2
  <2>2. CASE TxStep
    <3>1. TxLeft' < TxLeft /\ RxLeft' = RxLeft
      BY <1>1, <2>2, TxDescends
    <3>2. ~RxStep
      <4>1. RxStep => RxLeft' < RxLeft
        BY <1>1, RxDescends
      <4> QED
        BY <2>0, <3>1, <4>1
    <3> QED
      BY <2>0, <2>2, <3>1, <3>2
  <2>3. CASE ~RxStep /\ ~TxStep
    <3>1. UNCHANGED <<rx_pc, rx_mbufs, tx_pc, tx_mbufs>>
      BY <1>1, <2>3 DEF Next, PmdReclaim, SetStop, rxVars, txVars, vars
    <3>2. RxLeft' = RxLeft /\ TxLeft' = TxLeft
      BY <3>1 DEF RxLeft, TxLeft, StepsLeft
    <3> QED
      BY <2>0, <2>3, <3>2
  <2> QED
    BY <2>1, <2>2, <2>3
<1>2. TypeOK /\ TypeOK' /\ [Next]_vars => [Step]_vars
  BY <1>1
<1> QED
  BY <1>2, PipelineTypeOK, PTL DEF Spec, StopDescends

-----------------------------------------------------------------------------
(* The steps of the tx thread before it comes to the ring again.           *)
TxWay ==
  CASE tx_pc = "poll" -> 0
    [] tx_pc = "loop" -> 1
    [] tx_pc = "free" -> 1 + Len(tx_mbufs)
    [] tx_pc = "send" -> 2 + Len(tx_mbufs)

(* Place i of the ring in a step: either it keeps its mbuf while the tx    *)
(* thread, whoever moves, is not set back on its way to the ring, or the   *)
(* thread dequeues n >= 1 mbufs and this one is among them or n places     *)
(* nearer to the front.                                                    *)
PlaceServed(i) ==
  \/ /\ i <= Len(ring') /\ ring'[i] = ring[i]
     /\ IF TxStep THEN TxWay' < TxWay ELSE TxWay' = TxWay
  \/ /\ tx_pc = "poll"
     /\ \/ i <= Len(tx_mbufs') /\ tx_mbufs'[i] = ring[i]
        \/ \E n \in 1..Burst : i > n /\ i - n <= Len(ring') /\ ring'[i - n] = ring[i]

(* No mbuf is passed over or overtaken in the ring, and the tx thread is   *)
(* back at the ring within BURST_SIZE + 2 of its own steps, whatever the   *)
(* device, the mempool and the rx thread do, until the flag is set.        *)
RingDescends ==
  [][~stop_flag => /\ tx_pc # "done" /\ TxWay \in 0..(Burst + 2)
                   /\ \A i \in 1..Len(ring) : PlaceServed(i)]_vars

(* The elements of the two parts of a sequence, and of a longer one.       *)
LEMMA Elements ==
  ASSUME NEW S, NEW s \in Seq(S), NEW t \in Seq(S), NEW k \in 0..Len(s)
  PROVE  /\ \A i \in 1..k : SubSeq(s, 1, k)[i] = s[i]
         /\ \A i \in (k + 1)..Len(s) : SubSeq(s, k + 1, Len(s))[i - k] = s[i]
         /\ \A i \in 1..Len(s) : (s \o t)[i] = s[i]
<1>1. Len(s) \in Nat /\ k \in Nat
  OBVIOUS
<1>2. \A i \in 1..k : SubSeq(s, 1, k)[i] = s[i]
  BY <1>1
<1>3. ASSUME NEW i \in (k + 1)..Len(s) PROVE SubSeq(s, k + 1, Len(s))[i - k] = s[i]
  <2>1. i - k \in 1..(Len(s) - k) /\ (k + 1) + (i - k) - 1 = i
    BY <1>1, <1>3
  <2> QED
    BY <1>1, <2>1
<1>4. \A i \in 1..Len(s) : (s \o t)[i] = s[i]
  OBVIOUS
<1> QED
  BY <1>2, <1>3, <1>4

(* Only the stop flag ends the tx thread.                                  *)
DoneStopped == tx_pc = "done" => stop_flag

LEMMA PipelineDoneStopped == Spec => []DoneStopped
<1>1. Init => DoneStopped
  BY DEF Init, DoneStopped
<1>2. TypeOK /\ DoneStopped /\ [Next]_vars => DoneStopped'
  <2> SUFFICES ASSUME TypeOK, DoneStopped, [Next]_vars PROVE DoneStopped'
    OBVIOUS
  <2> QED
    BY DEF TypeOK, DoneStopped, Next, RxStep, RxCheck, RxBurst, RxEnqueue, RxFree, TxStep,
           TxCheck, TxDequeue, TxPost, PostThenFree, TxFree, PmdReclaim, SetStop, txVars, vars
<1> QED
  BY <1>1, <1>2, PipelineTypeOK, PTL DEF Spec

LEMMA WayType ==
  ASSUME TypeOK, tx_pc # "done" PROVE TxWay \in 0..(Burst + 2)
<1>1. Burst \in Nat /\ Len(tx_mbufs) \in 0..Burst
  BY PipelineAssumption DEF TypeOK
<1> QED
  BY <1>1 DEF TypeOK, TxWay

(* Between two visits to the ring each step of the tx thread is one less.  *)
LEMMA WayDescends ==
  ASSUME TypeOK, TypeOK', ~stop_flag, TxStep, tx_pc # "poll"
  PROVE  TxWay' < TxWay /\ ring' = ring
<1>1. /\ Len(tx_mbufs) \in Nat /\ Len(tx_mbufs)' \in Nat /\ tx_mbufs \in Seq(Mbufs)
  BY PipelineAssumption DEF TypeOK
<1>2. CASE TxCheck
  BY <1>2 DEF TxCheck, TxWay
<1>3. CASE TxPost
  <2>1. PICK k \in 0..Len(tx_mbufs) :
           /\ tx_mbufs' = SubSeq(tx_mbufs, k + 1, Len(tx_mbufs))
           /\ tx_pc = "send" /\ tx_pc' \in {"loop", "free"} /\ ring' = ring
    BY <1>3 DEF TxPost, PostThenFree
  <2>2. Len(tx_mbufs') = Len(tx_mbufs) - k
    BY <1>1, <2>1, SplitSeq
  <2>3. TxWay = 2 + Len(tx_mbufs)
    BY <2>1 DEF TxWay
  <2>4. TxWay' = 1 \/ TxWay' = 1 + Len(tx_mbufs')
    BY <2>1 DEF TxWay
  <2> QED
    BY <1>1, <2>1, <2>2, <2>3, <2>4
<1>4. CASE TxFree
  <2>1. /\ tx_pc = "free" /\ ring' = ring
        /\ tx_mbufs' = Tail(tx_mbufs) /\ tx_pc' \in {"loop", "free"} /\ tx_mbufs # <<>>
    BY <1>4 DEF TxFree, TypeOK
  <2>2. Len(tx_mbufs') = Len(tx_mbufs) - 1 /\ Len(tx_mbufs) > 0
    BY <1>1, <2>1, EmptyLen, HeadTail
  <2>3. TxWay = 1 + Len(tx_mbufs) /\ (TxWay' = 1 \/ TxWay' = 1 + Len(tx_mbufs'))
    BY <2>1 DEF TxWay
  <2> QED
    BY <1>1, <2>1, <2>2, <2>3
<1> QED
  BY <1>2, <1>3, <1>4 DEF TxStep, TxDequeue

(* The part of RingServed that needs no fairness: the pair of a place in   *)
(* the ring and the tx thread's way to it falls until the mbuf is in the   *)
(* burst that rte_ring_dequeue_burst returns.                              *)
THEOREM PipelineRingDescends == Spec => RingDescends
<1> DEFINE Step == ~stop_flag => /\ tx_pc # "done" /\ TxWay \in 0..(Burst + 2)
                                 /\ \A i \in 1..Len(ring) : PlaceServed(i)
<1>1. ASSUME TypeOK, TypeOK', DoneStopped, [Next]_vars, ~stop_flag PROVE Step
  <2>1. tx_pc # "done" /\ TxWay \in 0..(Burst + 2)
    BY <1>1, WayType DEF DoneStopped
  <2>2. ASSUME NEW i \in 1..Len(ring) PROVE PlaceServed(i)
    <3>0. /\ ring \in Seq(Mbufs) /\ rx_mbufs \in Seq(Mbufs) /\ Len(ring) \in Nat
          /\ Burst \in Nat \ {0}
      BY <1>1, PipelineAssumption DEF TypeOK
    <3>1. CASE TxStep /\ tx_pc # "poll"
      BY <1>1, <2>2, <3>1, WayDescends DEF PlaceServed
    <3>2. CASE TxStep /\ tx_pc = "poll"
      <4> DEFINE n == IF Len(ring) < Burst THEN Len(ring) ELSE Burst
      <4>1. /\ tx_mbufs' = SubSeq(ring, 1, n)
            /\ ring' = SubSeq(ring, n + 1, Len(ring))
        BY <3>2 DEF TxStep, TxCheck, TxDequeue, TxPost, TxFree
      <4>2. n \in 0..Len(ring) /\ n \in 1..Burst
        BY <2>2, <3>0
      <4> HIDE DEF n
      <4>3. Len(tx_mbufs') = n /\ Len(ring') = Len(ring) - n
        BY <3>0, <4>1, <4>2, SplitSeq
      <4>4. CASE i <= n
        <5>1. tx_mbufs'[i] = ring[i]
          BY <2>2, <3>0, <4>1, <4>2, <4>4, Elements
        <5> QED
          BY <3>2, <4>3, <4>4, <5>1 DEF PlaceServed
      <4>5. CASE i > n
        <5>1. ring'[i - n] = ring[i]
          <6>1. i \in (n + 1)..Len(ring)
            BY <2>2, <3>0, <4>2, <4>5
          <6> QED
            BY <3>0, <4>1, <4>2, <6>1, Elements
        <5>2. i - n <= Len(ring')
          BY <2>2, <3>0, <4>2, <4>3
        <5> QED
          BY <3>2, <4>2, <4>5, <5>1, <5>2 DEF PlaceServed
      <4> QED
        BY <2>2, <3>0, <4>2, <4>4, <4>5
    <3>3. CASE ~TxStep
      <4>1. UNCHANGED <<tx_pc, tx_mbufs>> /\ (ring' = ring \/ ring' = ring \o rx_mbufs)
        BY <1>1, <3>3 DEF Next, RxStep, RxCheck, RxBurst, RxEnqueue, RxFree, PmdReclaim, SetStop,
                          rxVars, txVars, vars
      <4>2. TxWay' = TxWay
        BY <4>1 DEF TxWay
      <4>3. i <= Len(ring') /\ ring'[i] = ring[i]
        BY <2>2, <3>0, <4>1, Elements
      <4> QED
        BY <3>3, <4>2, <4>3 DEF PlaceServed
    <3> QED
      BY <3>1, <3>2, <3>3
  <2> QED
    BY <2>1, <2>2
<1>2. TypeOK /\ TypeOK' /\ DoneStopped /\ [Next]_vars => [Step]_vars
  BY <1>1
<1> QED
  BY <1>2, PipelineTypeOK, PipelineDoneStopped, PTL DEF Spec, RingDescends
=============================================================================
