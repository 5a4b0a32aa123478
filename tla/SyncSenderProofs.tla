-------------------------- MODULE SyncSenderProofs --------------------------
(***************************************************************************)
(* Theorems about SyncSender for any period, queue, pool and horizon.      *)
(*                                                                         *)
(* NeverEarly needs OnGrid: next_tsc moves by whole periods from where it  *)
(* was first read, so that passing the comparison once bounds every later  *)
(* packet.  The count of mbufs needs what they are before the loop.        *)
(***************************************************************************)
EXTENDS SyncSender, TLAPS

OnGrid ==
  /\ next_tsc = start + tries * Period
  /\ ~Looping => tries = 0
  /\ tries > 0 => now >= next_tsc - Period

Unused == ~Looping => free = size /\ ring = 0

IInv == TypeOK /\ OnGrid /\ Unused /\ MbufsAccounted

LEMMA InitIInv == Init => IInv
  BY SenderAssumption
     DEF Init, IInv, TypeOK, OnGrid, Unused, MbufsAccounted, Looping, SetUps

(* The next period begins one period later.                                *)
LEMMA NextPeriod ==
  ASSUME NEW t \in Nat
  PROVE  /\ t * Period \in Nat
         /\ (t + 1) * Period = t * Period + Period
         /\ ((t + 1) - 1) * Period = t * Period
  BY SenderAssumption

LEMMA BurstStep ==
  ASSUME IInv, Burst
  PROVE  IInv'
  <1>1. /\ pc = "burst" /\ pc' = "poll" /\ count' = count + 1
        /\ UNCHANGED <<now, next_tsc, size, start, tries>>
        /\ free \in Nat /\ ring \in 0..TxDescs /\ refs \in Nat /\ size \in Nat
        /\ count \in Nat /\ TxDescs \in Nat
        /\ free + ring + 2 = size /\ refs = ring + 2
    BY SenderAssumption DEF Burst, IInv, TypeOK, MbufsAccounted, Looping
  <1>2. /\ free' \in Nat /\ ring' \in 0..TxDescs /\ refs' \in Nat
        /\ free' + ring' + 1 = size /\ refs' = ring' + 1
    <2>1. PICK done \in 0..ring :
             IF ring - done < TxDescs
             THEN /\ ring' = ring - done + 1
                  /\ free' = free + done /\ refs' = refs - done
             ELSE /\ ring' = ring - done
                  /\ free' = free + done + 1 /\ refs' = refs - done - 1
      BY DEF Burst
    <2> QED BY <1>1, <2>1
  <1>3. TypeOK'
    <2>1. /\ now \in 0..Horizon /\ next_tsc \in Nat /\ size \in PoolSizes
          /\ start \in 0..Horizon /\ tries \in Nat
      BY DEF IInv, TypeOK
    <2>2. count' \in Nat /\ pc' = "poll"
      BY <1>1
    <2> QED BY <1>1, <1>2, <2>1, <2>2 DEF TypeOK
  <1>4. MbufsAccounted'
    <2> DEFINE hand == IF pc' = "burst" THEN 1 ELSE 0
    <2>1. free' \in Nat /\ ring' \in Nat /\ size' = size /\ hand = 0
      BY <1>1, <1>2
    <2>2. free' + ring' + 1 = size /\ refs' = ring' + 1
      BY <1>2
    <2> HIDE DEF hand
    <2>3. free' + ring' + hand + 1 = size' /\ refs' = ring' + hand + 1
      BY <2>1, <2>2
    <2> QED BY <2>3 DEF MbufsAccounted, hand
  <1>5. OnGrid' /\ Unused'
    BY <1>1 DEF IInv, OnGrid, Unused, Looping
  <1> QED BY <1>3, <1>4, <1>5 DEF IInv

LEMMA NextIInv == IInv /\ [Next]_vars => IInv'
  <1> SUFFICES ASSUME IInv, [Next]_vars PROVE IInv'
    OBVIOUS
  <1>1. CASE SetUp
    <2>1. /\ pc \in SetUps /\ pc' \in SetUps \cup {"build", "exit"}
          /\ UNCHANGED <<now, count, size, free, ring, refs, tries>>
      BY <1>1 DEF SetUp, SetUps, After
    <2>2. ~Looping /\ ~Looping'
      BY <2>1 DEF Looping, SetUps
    <2>3. /\ \/ UNCHANGED <<next_tsc, start>>
             \/ next_tsc' = now /\ start' = now
      BY <1>1 DEF SetUp
    <2>4. tries = 0 /\ 0 * Period = 0
      BY <2>2, SenderAssumption DEF IInv, OnGrid
    <2>5. TypeOK' /\ Unused' /\ MbufsAccounted'
      BY <2>1, <2>2, <2>3, SenderAssumption DEF IInv, TypeOK, Unused, MbufsAccounted
    <2>6. OnGrid'
      BY <2>1, <2>3, <2>4 DEF IInv, TypeOK, OnGrid
    <2> QED BY <2>5, <2>6 DEF IInv
  <1>2. CASE Build
    <2>1. size \in Nat \ {0}
      BY SenderAssumption DEF IInv, TypeOK
    <2> QED BY <1>2, <2>1
            DEF Build, IInv, TypeOK, OnGrid, Unused, MbufsAccounted, Looping, SetUps
  <1>3. CASE Poll
    <2>1. /\ tries \in Nat /\ next_tsc \in Nat /\ now \in Nat /\ start \in Nat
          /\ Period \in Nat /\ next_tsc = start + tries * Period
          /\ pc = "poll" /\ pc' = "clone" /\ now >= next_tsc
          /\ next_tsc' = next_tsc + Period /\ tries' = tries + 1
          /\ UNCHANGED <<now, count, size, free, ring, refs, start>>
      BY <1>3, SenderAssumption DEF Poll, IInv, TypeOK, OnGrid
    <2>2. /\ tries * Period \in Nat
          /\ (tries + 1) * Period = tries * Period + Period
      BY <2>1, NextPeriod
    <2>3. OnGrid'
      <3> DEFINE a == tries * Period
                 b == (tries + 1) * Period
      <3>1. a \in Nat /\ b = a + Period /\ next_tsc = start + a /\ tries' * Period = b
        BY <2>1, <2>2
      <3> HIDE DEF a, b
      <3> QED BY <2>1, <3>1 DEF OnGrid, Looping
    <2>4. TypeOK' /\ Unused' /\ MbufsAccounted'
      BY <2>1 DEF IInv, TypeOK, Unused, MbufsAccounted, Looping
    <2> QED BY <2>3, <2>4 DEF IInv
  <1>4. CASE Clone
    BY <1>4 DEF Clone, IInv, TypeOK, OnGrid, Unused, MbufsAccounted, Looping
  <1>5. CASE CloneFails
    BY <1>5 DEF CloneFails, IInv, TypeOK, OnGrid, Unused, MbufsAccounted, Looping
  <1>6. CASE Tick
    BY <1>6, SenderAssumption
       DEF Tick, IInv, TypeOK, OnGrid, Unused, MbufsAccounted, Looping
  <1>7. CASE BuildFails
    BY <1>7 DEF BuildFails, IInv, TypeOK, OnGrid, Unused, MbufsAccounted, Looping
  <1>8. CASE UNCHANGED vars
    BY <1>8 DEF vars, IInv, TypeOK, OnGrid, Unused, MbufsAccounted, Looping
  <1> QED BY <1>1, <1>2, <1>3, <1>4, <1>5, <1>6, <1>7, <1>8, BurstStep DEF Next, Loop

LEMMA SenderInvariant == Spec => []IInv
  BY InitIInv, NextIInv, PTL DEF Spec

-----------------------------------------------------------------------------
(* The pool never runs into the negative, the queue never over its size.   *)
THEOREM SenderTypeOK == Spec => []TypeOK
  <1>1. IInv => TypeOK
    BY DEF IInv
  <1> QED BY <1>1, SenderInvariant, PTL

(* The k-th packet is not sent before the k-th period.                     *)
THEOREM SenderNeverEarly == Spec => []NeverEarly
  <1>1. IInv => NeverEarly
    <2> SUFFICES ASSUME IInv, tries > 0
                 PROVE  now >= start + (tries - 1) * Period
      BY DEF NeverEarly
    <2>1. /\ tries - 1 \in Nat /\ tries = (tries - 1) + 1 /\ start \in Nat /\ now \in Nat
          /\ next_tsc \in Nat /\ Period \in Nat
      BY SenderAssumption DEF IInv, TypeOK
    <2>2. tries * Period = (tries - 1) * Period + Period
      BY <2>1, NextPeriod
    <2> QED BY <2>1, <2>2, NextPeriod DEF IInv, OnGrid
  <1> QED BY <1>1, SenderInvariant, PTL

(* No mbuf is lost, and the packet outlives its clones.                    *)
THEOREM SenderMbufsAccounted == Spec => []MbufsAccounted
  <1>1. IInv => MbufsAccounted
    BY DEF IInv
  <1> QED BY <1>1, SenderInvariant, PTL

(* With two mbufs more than descriptors a clone can always be taken.       *)
THEOREM SenderCloneSucceeds == Spec => []CloneSucceeds
  <1>1. IInv => CloneSucceeds
    BY SenderAssumption DEF IInv, TypeOK, MbufsAccounted, Looping, CloneSucceeds
  <1> QED BY <1>1, SenderInvariant, PTL

-----------------------------------------------------------------------------
(* What of the iterations that were due has come to its count++.           *)
Counted ==
  /\ start <= now
  /\ ~Looping => count = 0
  /\ Looping /\ size >= TxDescs + 2 =>
        tries = count + IF pc = "poll" THEN 0 ELSE 1

LEMMA SenderCounted == Spec => []Counted
  <1>1. Init => Counted
    BY DEF Init, Counted, Looping
  <1>2. ASSUME IInv, Counted, [Next]_vars PROVE Counted'
    <2>1. now \in Nat /\ start \in Nat /\ count \in Nat /\ tries \in Nat /\ size \in Nat /\ TxDescs \in Nat
      BY <1>2, SenderAssumption DEF IInv, TypeOK
    <2>2. CASE SetUp
      <3>1. ~Looping /\ ~Looping' /\ count' = count
        BY <2>2 DEF SetUp, SetUps, After, Looping
      <3>2. start' <= now'
        BY <1>2, <2>1, <2>2 DEF SetUp, Counted
      <3> QED BY <1>2, <3>1, <3>2 DEF Counted
    <2>3. CASE Build
      BY <1>2, <2>3 DEF Build, Counted, Looping, IInv, OnGrid
    <2>4. CASE Poll
      BY <1>2, <2>1, <2>4 DEF Poll, Counted, Looping
    <2>5. CASE Clone
      BY <1>2, <2>5 DEF Clone, Counted, Looping
    <2>6. CASE CloneFails
      <3>1. size < TxDescs + 2
        BY <1>2, <2>6, SenderAssumption
           DEF CloneFails, IInv, TypeOK, MbufsAccounted, Looping
      <3> QED BY <1>2, <2>1, <2>6, <3>1 DEF CloneFails, Counted, Looping
    <2>7. CASE Burst
      BY <1>2, <2>1, <2>7 DEF Burst, Counted, Looping
    <2>8. CASE Tick \/ UNCHANGED vars
      BY <1>2, <2>1, <2>8 DEF Tick, vars, Counted, Looping
    <2>9. CASE BuildFails
      BY <1>2, <2>9 DEF BuildFails, Counted, Looping
    <2> QED BY <1>2, <2>2, <2>3, <2>4, <2>5, <2>6, <2>7, <2>8, <2>9 DEF Next, Loop
  <1> QED BY <1>1, <1>2, SenderInvariant, PTL DEF Spec

(* The quotient is the number of whole periods.                            *)
LEMMA WholePeriods ==
  ASSUME NEW k \in Nat, NEW r \in Nat, r < Period
  PROVE  (k * Period + r) \div Period = k
  BY SenderAssumption

(* The part of EveryPeriod that needs no fairness: the loop waits only     *)
(* when every period that has begun has been due, the last one included,   *)
(* whatever the size of the pool; so it cannot rest before Due holds.      *)
DueWhenWaiting ==
  pc = "poll" /\ now < next_tsc => tries = (now - start) \div Period + 1

LEMMA SenderStartPast == Spec => [](start <= now)
  <1>1. Counted => start <= now
    BY DEF Counted
  <1> QED BY <1>1, SenderCounted, PTL

(* No period is skipped, in any schedule and whatever the queue drops.     *)
THEOREM SenderDueWhenWaiting == Spec => []DueWhenWaiting
  <1>1. IInv /\ start <= now => DueWhenWaiting
    <2> SUFFICES ASSUME IInv, start <= now, pc = "poll", now < next_tsc
                 PROVE  tries = (now - start) \div Period + 1
      BY DEF DueWhenWaiting
    <2>1. /\ tries \in Nat /\ next_tsc \in Nat /\ now \in Nat /\ start \in Nat
          /\ Period \in Nat /\ next_tsc = start + tries * Period /\ now >= start
      BY SenderAssumption DEF IInv, TypeOK, OnGrid
    <2>2. tries > 0
      <3>1. tries = 0 => tries * Period = 0
        BY SenderAssumption
      <3> QED BY <2>1, <3>1
    <2>3. /\ tries - 1 \in Nat /\ tries = (tries - 1) + 1
          /\ now >= next_tsc - Period
      BY <2>1, <2>2 DEF IInv, OnGrid
    <2> DEFINE a == (tries - 1) * Period
               r == now - start - a
    <2>4. a \in Nat /\ tries * Period = a + Period
      BY <2>3, NextPeriod
    <2> HIDE DEF a
    <2>5. r \in Nat /\ r < Period /\ now - start = a + r
      BY <2>1, <2>3, <2>4
    <2> HIDE DEF r
    <2>6. (now - start) \div Period = tries - 1
      BY <2>3, <2>5, WholePeriods DEF a
    <2> QED BY <2>1, <2>3, <2>6
  <1> QED BY <1>1, SenderInvariant, SenderStartPast, PTL

(* A pool that suffices has had a packet for each of these periods.        *)
THEOREM SenderNoneSkipped == Spec => []NoneSkipped
  <1>1. IInv /\ Counted /\ DueWhenWaiting => NoneSkipped
    <2> SUFFICES ASSUME IInv, Counted, DueWhenWaiting,
                        pc = "poll", now < next_tsc, size >= TxDescs + 2
                 PROVE  count = (now - start) \div Period + 1
      BY DEF NoneSkipped
    <2>1. tries = count + 0 /\ count \in Nat
      BY DEF Counted, Looping, IInv, TypeOK
    <2> QED BY <2>1 DEF DueWhenWaiting
  <1> QED BY <1>1, SenderInvariant, SenderCounted, SenderDueWhenWaiting, PTL
=============================================================================
