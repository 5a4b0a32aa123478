-------------------------- MODULE StatsPathProofs --------------------------
(***************************************************************************)
(* The intervals of the statistics producer tile the time, for every clock *)
(* and every width of the arithmetic; and the receiver of timestamps keeps *)
(* its burst and stats_ring within their sizes, whatever becomes of the    *)
(* port.  The assumptions on the constants stand in each theorem.          *)
(***************************************************************************)
EXTENDS StatsPath, FiniteSetTheorems, SequenceTheorems, TLAPS

(* Any part of a finite set of mbufs is finite.                            *)
LEMMA PlaceFinite ==
  ASSUME StatsAssumption, NEW place
  PROVE  IsFiniteSet(In(place))
BY FS_Subset DEF StatsAssumption, In

(* What is left of a burst is no larger.                                   *)
LEMMA LookedBurst ==
  ASSUME StatsAssumption, TypeOK, NEW m \in Mbufs, Look(m)
  PROVE  /\ burst' \in [Mbufs -> Kinds \cup {"none"}]
         /\ Cardinality(In(burst)') <= BURST_SIZE
         /\ rx' \in {"check", "packets"}
         /\ (rx' = "packets") <=> (In(burst)' # {})
<1>1. /\ burst \in [Mbufs -> Kinds \cup {"none"}] /\ m \in In(burst)
      /\ burst' = [burst EXCEPT ![m] = "none"]
      /\ rx' = IF In(burst) = {m} THEN "check" ELSE "packets"
  BY DEF Look, TypeOK
<1>2. burst' \in [Mbufs -> Kinds \cup {"none"}] /\ In(burst)' = In(burst) \ {m}
  BY <1>1 DEF In
<1>3. IsFiniteSet(In(burst)) /\ In(burst)' \subseteq In(burst)
  BY <1>2, PlaceFinite
<1>4. IsFiniteSet(In(burst)') /\ Cardinality(In(burst)') <= Cardinality(In(burst))
  BY <1>3, FS_Subset
<1>5. /\ Cardinality(In(burst)) \in Nat /\ Cardinality(In(burst)') \in Nat
      /\ BURST_SIZE \in Nat /\ Cardinality(In(burst)) <= BURST_SIZE
  BY <1>3, <1>4, FS_CardinalityType DEF StatsAssumption, TypeOK
<1>6. Cardinality(In(burst)') <= BURST_SIZE
  BY <1>4, <1>5
<1> QED
  BY <1>1, <1>2, <1>6

(* get_tsc_delta_ns: a natural number, and the quotient by hz when nothing *)
(* overflows.                                                              *)
LEMMA DeltaBounds ==
  ASSUME StatsAssumption, NEW old \in Nat, NEW curr \in Nat, old <= curr
  PROVE  /\ DeltaNs(old, curr) \in Nat
         /\ (curr - old) * Giga < W =>
              /\ DeltaNs(old, curr) * Hz <= (curr - old) * Giga
              /\ curr = old => DeltaNs(old, curr) = 0
              /\ (curr - old) * Giga <= (DeltaNs(old, curr) + 1) * Hz
<1> DEFINE x == (curr - old) * Giga
<1>1. /\ curr - old \in Nat /\ x \in Nat /\ W \in Nat \ {0} /\ Hz \in Nat \ {0}
      /\ curr = old => x = 0
  <2>1. curr - old \in Nat /\ Giga \in Nat /\ W \in Nat \ {0} /\ Hz \in Nat \ {0}
    BY DEF StatsAssumption
  <2>2. curr = old => (curr - old) * Giga = 0
    BY <2>1
  <2> QED
    BY <2>1, <2>2
<1>2. DeltaNs(old, curr) = (x % W) \div Hz
  BY DEF DeltaNs
<1> HIDE DEF x
<1>3. x % W \in Nat
  BY <1>1
<1>4. DeltaNs(old, curr) \in Nat
  BY <1>1, <1>2, <1>3
<1>5. ASSUME x < W
      PROVE  /\ DeltaNs(old, curr) * Hz <= x
             /\ curr = old => DeltaNs(old, curr) = 0
             /\ x <= (DeltaNs(old, curr) + 1) * Hz
  <2>1. x % W = x
    BY <1>1, <1>5
  <2>2. DeltaNs(old, curr) = x \div Hz
    BY <1>2, <2>1
  <2>3. /\ x = Hz * (x \div Hz) + (x % Hz) /\ x % Hz \in 0..(Hz - 1)
        /\ x \div Hz \in Nat
    BY <1>1
  <2>4. (x \div Hz) * Hz = Hz * (x \div Hz) /\ (x \div Hz + 1) * Hz = Hz * (x \div Hz) + Hz
    BY <1>1, <2>3
  <2>5. Hz * (x \div Hz) \in Nat
    BY <1>1, <2>3
  <2>6. x = 0 => x \div Hz = 0
    BY <1>1
  <2> QED
    BY <1>1, <2>2, <2>3, <2>4, <2>5, <2>6
<1> QED
  BY <1>4, <1>5 DEF x

-----------------------------------------------------------------------------
(* The two times are the same between messages, are never ahead of the     *)
(* clock, and nothing is reported before the first message.                *)
Times ==
  /\ times.old = times.curr /\ times.curr <= cycles
  /\ first # -1 => first <= times.curr
  /\ first = -1 => reported = [ns |-> 0, n |-> 0, late |-> FALSE]

SInv == TypeOK /\ Times /\ DeltaTiles

(* The receiver's steps, and the copies' destructors, which take its port  *)
(* away.                                                                   *)
LEMMA ReceiverKeeps ==
  ASSUME StatsAssumption, SInv,
         \/ Receiver \/ DestroyCopies
         \/ \E m \in Mbufs, kind \in Kinds : Arrive(m, kind)
  PROVE  SInv'
<1> USE DEF SInv
<1>0. /\ pool \subseteq Mbufs /\ nic \in [Mbufs -> Kinds \cup {"none"}]
      /\ burst \in [Mbufs -> Kinds \cup {"none"}]
      /\ ring \in Seq(Mbufs) /\ Len(ring) <= StatsRoom
      /\ (rx = "packets") <=> (In(burst) # {})
  BY DEF TypeOK
<1>1. ASSUME NEW m \in Mbufs, NEW kind \in Kinds, Arrive(m, kind) PROVE SInv'
  <2>1. /\ pool' = pool \ {m} /\ nic' = [nic EXCEPT ![m] = kind]
        /\ UNCHANGED <<stop, aborted, live, rx, burst, ring, prod, timeVars, cycles>>
    BY <1>1 DEF Arrive
  <2>2. pool' \subseteq Mbufs /\ nic' \in [Mbufs -> Kinds \cup {"none"}]
    BY <1>0, <2>1
  <2>3. In(burst)' = In(burst)
    BY <2>1 DEF In
  <2> QED
    BY <2>1, <2>2, <2>3 DEF TypeOK, Times, DeltaTiles, timeVars
<1>2. CASE RxCheck
  <2>1. /\ rx = "check" /\ rx' \in {"stopped", "receive"}
        /\ UNCHANGED <<stop, aborted, live, pool, nic, burst, ring, prod, timeVars, cycles>>
    BY <1>2 DEF RxCheck
  <2>2. In(burst)' = In(burst)
    BY <2>1 DEF In
  <2> QED
    BY <2>1, <2>2 DEF TypeOK, Times, DeltaTiles, timeVars
<1>3. CASE RxBurst
  <2>1. PICK ms \in SUBSET In(nic) :
           /\ Cardinality(ms) <= BURST_SIZE
           /\ burst' = [m \in Mbufs |-> IF m \in ms THEN nic[m] ELSE "none"]
           /\ nic' = [m \in Mbufs |-> IF m \in ms THEN "none" ELSE nic[m]]
           /\ rx' = IF ms = {} THEN "check" ELSE "packets"
    BY <1>3 DEF RxBurst
  <2>2. UNCHANGED <<stop, aborted, live, pool, ring, prod, timeVars, cycles>>
    BY <1>3 DEF RxBurst
  <2>3. In(burst)' = ms
    BY <1>0, <2>1 DEF In
  <2>4. burst' \in [Mbufs -> Kinds \cup {"none"}] /\ nic' \in [Mbufs -> Kinds \cup {"none"}]
    BY <1>0, <2>1
  <2> QED
    BY <2>1, <2>2, <2>3, <2>4 DEF TypeOK, Times, DeltaTiles, timeVars
<1>4. ASSUME NEW m \in Mbufs, Look(m) PROVE SInv'
  <2>1. /\ burst' \in [Mbufs -> Kinds \cup {"none"}]
        /\ Cardinality(In(burst)') <= BURST_SIZE
        /\ rx' \in {"check", "packets"}
        /\ (rx' = "packets") <=> (In(burst)' # {})
    BY <1>4, LookedBurst
  <2>2. /\ pool' = pool \cup {m}
        /\ UNCHANGED <<stop, aborted, live, nic, prod, timeVars, cycles>>
    BY <1>4 DEF Look
  <2>3. ring' \in Seq(Mbufs) /\ Len(ring') <= StatsRoom
    <3>1. CASE ring' = ring
      BY <1>0, <3>1
    <3>2. CASE ring' = Append(ring, m) /\ Len(ring) < StatsRoom
      <4>1. ring' \in Seq(Mbufs) /\ Len(ring') = Len(ring) + 1 /\ Len(ring) \in Nat
        BY <1>0, <3>2, AppendProperties, LenProperties
      <4> QED
        BY <3>2, <4>1 DEF StatsAssumption
    <3> QED
      BY <1>4, <3>1, <3>2 DEF Look
  <2> QED
    BY <1>0, <2>1, <2>2, <2>3 DEF TypeOK, Times, DeltaTiles, timeVars
<1>5. CASE DestroyCopies
  <2>1. /\ prod' = "ended" /\ live' \in BOOLEAN /\ pool' \subseteq Mbufs
        /\ nic' \in [Mbufs -> Kinds \cup {"none"}]
        /\ UNCHANGED <<stop, aborted, rx, burst, ring, timeVars, cycles>>
    BY <1>0, <1>5 DEF DestroyCopies, Goto, Nothing, In, TypeOK
  <2>2. In(burst)' = In(burst)
    BY <2>1 DEF In
  <2> QED
    BY <2>1, <2>2 DEF TypeOK, Times, DeltaTiles, timeVars
<1> QED
  BY <1>1, <1>2, <1>3, <1>4, <1>5 DEF Receiver

(* A message: its interval joins on to the ones before.                    *)
LEMMA ProduceStatsKeeps == ASSUME StatsAssumption, SInv, ProduceStats PROVE SInv'
<1> DEFINE t == times.curr
           d == DeltaNs(t, cycles)
<1> USE DEF SInv
<1>1. /\ times' = [old |-> cycles, curr |-> cycles] /\ prod' = "extract"
      /\ Report(t, cycles) /\ UNCHANGED <<stop, aborted, rxVars, cycles>>
  BY DEF ProduceStats, Times, Goto
<1>2. /\ t \in Nat /\ cycles \in Nat /\ t <= cycles /\ cycles \in Boot..End
      /\ first \in Nat \cup {-1} /\ reported \in [ns : Nat, n : Nat, late : BOOLEAN]
      /\ reported.ns \in Nat /\ reported.n \in Nat /\ reported.late \in BOOLEAN
      /\ Giga \in Nat /\ Hz \in Nat /\ W \in Nat
  BY DEF StatsAssumption, TypeOK, Times
<1>3. /\ d \in Nat
      /\ (cycles - t) * Giga < W =>
           /\ d * Hz <= (cycles - t) * Giga
           /\ cycles = t => d = 0
           /\ (cycles - t) * Giga <= (d + 1) * Hz
  BY <1>2, DeltaBounds
<1>4. CASE first = -1
  <2>1. first' = cycles /\ reported' = reported
    BY <1>1, <1>4 DEF Report
  <2>2. reported = [ns |-> 0, n |-> 0, late |-> FALSE]
    BY <1>4 DEF Times
  <2>3. TypeOK'
    BY <1>1, <1>2, <2>1 DEF TypeOK, rxVars, In
  <2>4. Times'
    BY <1>1, <1>2, <2>1 DEF Times
  <2>5. DeltaTiles'
    <3>1. times'.curr - first' = 0 /\ reported'.ns = 0 /\ reported'.n = 0
      BY <1>1, <1>2, <2>1, <2>2
    <3>2. 0 * Hz = 0 /\ 0 * Giga = 0 /\ (0 + 0) * Hz = 0
      BY <1>2
    <3> QED
      BY <1>1, <1>2, <3>1, <3>2 DEF DeltaTiles
  <2> QED
    BY <2>3, <2>4, <2>5
<1>5. CASE first # -1
  <2> DEFINE e == IF cycles > t THEN 1 ELSE 0
  <2>1. /\ first' = first /\ first \in Nat /\ first <= t
        /\ reported' = [ns |-> reported.ns + d, n |-> reported.n + e,
                        late |-> reported.late \/ (cycles - t) * Giga >= W]
    BY <1>1, <1>2, <1>5 DEF Report, Times
  <2>2. TypeOK'
    <3>1. reported' \in [ns : Nat, n : Nat, late : BOOLEAN]
      BY <1>2, <1>3, <2>1
    <3> QED
      BY <1>1, <1>2, <2>1, <3>1 DEF TypeOK, rxVars, In
  <2>3. Times'
    BY <1>1, <1>2, <2>1 DEF Times
  <2>4. ASSUME ~reported'.late
        PROVE  /\ reported'.ns * Hz <= (cycles - first) * Giga
               /\ (cycles - first) * Giga <= (reported'.ns + reported'.n) * Hz
    <3> DEFINE A == (t - first) * Giga
               X == (cycles - t) * Giga
               S == reported.ns * Hz
               N == (reported.ns + reported.n) * Hz
    <3>1. ~reported.late /\ X < W /\ e \in {0, 1}
      <4>1. ~reported.late /\ ~(X >= W)
        BY <2>1, <2>4
      <4>2. cycles - t \in Int /\ X \in Int
        BY <1>2
      <4> HIDE DEF X
      <4> QED
        BY <1>2, <4>1, <4>2
    <3>2. S <= A /\ A <= N
      BY <1>5, <3>1 DEF DeltaTiles
    <3>3. (cycles - first) * Giga = A + X
      BY <1>2, <2>1
    <3>4. reported'.ns * Hz = S + d * Hz
      BY <1>2, <1>3, <2>1
    <3>5. (reported'.ns + reported'.n) * Hz = N + (d + e) * Hz
      BY <1>2, <1>3, <2>1, <3>1
    <3>6. d * Hz <= X /\ X <= (d + e) * Hz
      <4>1. CASE cycles = t
        <5>1. X = 0 /\ d = 0 /\ e = 0
          <6>1. cycles - t = 0 /\ 0 * Giga = 0 /\ ~(cycles > t)
            BY <1>2, <4>1
          <6>2. X = 0 /\ e = 0
            BY <6>1
          <6> HIDE DEF e, d, X
          <6>3. d = 0
            BY <1>3, <3>1, <4>1 DEF X
          <6> QED
            BY <6>2, <6>3
        <5> QED
          BY <1>2, <5>1
      <4>2. CASE cycles # t
        <5>1. e = 1
          BY <1>2, <4>2
        <5> QED
          BY <1>3, <3>1, <5>1
      <4> QED
        BY <4>1, <4>2
    <3>7. /\ A \in Int /\ X \in Int /\ S \in Int /\ N \in Int
          /\ d * Hz \in Int /\ (d + e) * Hz \in Int
      BY SMTT(30), <1>2, <1>3, <2>1, <3>1
    <3> HIDE DEF A, X, S, N, e, d
    <3> QED
      BY <3>2, <3>3, <3>4, <3>5, <3>6, <3>7
  <2>5. DeltaTiles'
    BY <1>1, <2>1, <2>4 DEF DeltaTiles
  <2> QED
    BY <2>2, <2>3, <2>5
<1> QED
  BY <1>4, <1>5

LEMMA StatsInit == ASSUME StatsAssumption, Init PROVE SInv
<1>1. In(burst) = {}
  BY DEF Init, In, Nothing
<1>2. Cardinality(In(burst)) <= BURST_SIZE
  BY <1>1, FS_EmptySet DEF StatsAssumption
<1>3. /\ 0 <= StatsRoom /\ Boot \in Boot..End /\ -1 \in Nat \cup {-1}
      /\ ring \in Seq(Mbufs) /\ Len(ring) = 0
  BY EmptySeq DEF Init, StatsAssumption
<1>4. Nothing \in [Mbufs -> Kinds \cup {"none"}]
  BY DEF Nothing
<1>5. TypeOK
  BY <1>1, <1>2, <1>3, <1>4 DEF Init, TypeOK
<1> QED
  BY <1>5 DEF Init, SInv, Times, DeltaTiles, StatsAssumption

LEMMA StatsStep == ASSUME StatsAssumption, SInv, [Next]_vars PROVE SInv'
<1>1. CASE UNCHANGED <<rxVars, timeVars, cycles>> /\ stop' \in BOOLEAN /\ aborted' \in BOOLEAN
           /\ prod' \in {"check", "rx_stats", "tx_stats", "time", "extract", "delay",
                         "return", "ended"}
  BY <1>1 DEF rxVars, timeVars, SInv, TypeOK, Times, DeltaTiles, In
<1>2. CASE \/ Receiver \/ DestroyCopies
           \/ \E m \in Mbufs, kind \in Kinds : Arrive(m, kind)
  BY <1>2, ReceiverKeeps
<1>3. CASE ProduceStats
  BY <1>3, ProduceStatsKeeps
<1>4. CASE ProdCheck \/ GetStats \/ Extract \/ Delay \/ Stop \/ UNCHANGED vars
  <2>1. stop \in BOOLEAN /\ aborted \in BOOLEAN
        /\ prod \in {"check", "rx_stats", "tx_stats", "time", "extract", "delay",
                     "return", "ended"}
    BY DEF SInv, TypeOK
  <2> QED
    BY <1>1, <1>4, <2>1 DEF ProdCheck, GetStats, Extract, Delay, Stop, Goto, vars
<1>5. CASE Tick
  <2>1. cycles \in Boot..End /\ cycles' = cycles + 1 /\ cycles < End
        /\ Boot \in Nat /\ End \in Nat /\ times.curr \in Nat
        /\ UNCHANGED <<stop, aborted, rxVars, prod, timeVars>>
    BY <1>5 DEF StatsAssumption, Tick, SInv, TypeOK
  <2>2. cycles' \in Boot..End /\ (times.curr <= cycles => times.curr <= cycles')
    BY <2>1
  <2> QED
    BY <2>1, <2>2 DEF rxVars, timeVars, SInv, TypeOK, Times, DeltaTiles, In
<1> QED
  BY <1>2, <1>3, <1>4, <1>5 DEF Next, Producer

(* A burst and stats_ring never exceed their sizes, even when the port is  *)
(* taken from under the receiver.                                          *)
THEOREM StatsTypeOK == ASSUME StatsAssumption PROVE Spec => []TypeOK
<1>1. Init => SInv
  BY StatsInit
<1>2. SInv /\ [Next]_vars => SInv'
  BY StatsStep
<1>3. SInv => TypeOK
  BY DEF SInv
<1> QED
  BY <1>1, <1>2, <1>3, PTL DEF Spec

(* The DELTA_NS of the messages tile the time, whatever hz and the clock.  *)
THEOREM StatsDeltaTiles == ASSUME StatsAssumption PROVE Spec => []DeltaTiles
<1>1. Init => SInv
  BY StatsInit
<1>2. SInv /\ [Next]_vars => SInv'
  BY StatsStep
<1>3. SInv => DeltaTiles
  BY DEF SInv
<1> QED
  BY <1>1, <1>2, <1>3, PTL DEF Spec
=============================================================================
