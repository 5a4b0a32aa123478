----------------------------- MODULE SyncSender -----------------------------
(***************************************************************************)
(* The sync packet generator (server/src_clk_sync/main.cpp): it sets a     *)
(* port up, builds one packet and then sends a clone of it once a period,  *)
(* pacing itself with the timer of the processor.                          *)
(*                                                                         *)
(* The timer, the mempool and the transmit queue of DPDK are modelled from *)
(* how the program uses them: a clone takes an mbuf of the pool and a      *)
(* reference to the packet, a mbuf that the queue has taken returns to the *)
(* pool when a later burst finds it sent.                                  *)
(***************************************************************************)
EXTENDS Integers

CONSTANTS
  Period,     (* cycles per period                                         *)
  TxDescs,    (* descriptors of the transmit queue                         *)
  PoolSizes,  (* sizes the pool may have (NUM_MBUFS times the ports found) *)
  Horizon     (* bound on the timer                                        *)

ASSUME SenderAssumption ==
  /\ Period \in Nat \ {0} /\ TxDescs \in Nat \ {0} /\ Horizon \in Nat
  /\ PoolSizes \subseteq Nat \ {0}

VARIABLES
  pc,        (* the statement of main                                      *)
  now,       (* the timer                                                  *)
  next_tsc,
  count,
  size,      (* mbufs of the pool                                          *)
  free,      (* those that are free                                        *)
  ring,      (* those that the transmit queue holds                        *)
  refs,      (* references to the packet's data: m's own and the clones'   *)
  start,     (* ghost: when next_tsc was first read                        *)
  tries      (* ghost: iterations that were due                            *)

vars == <<pc, now, next_tsc, count, size, free, ring, refs, start, tries>>

SetUps == {"eal", "ports", "pool", "configure", "queue", "start"}

After(s) ==
  CASE s = "eal"       -> "ports"
    [] s = "ports"     -> "pool"
    [] s = "pool"      -> "configure"
    [] s = "configure" -> "queue"
    [] s = "queue"     -> "start"
    [] s = "start"     -> "build"

-----------------------------------------------------------------------------
(* Each of the calls that set DPDK and the port up may fail, which ends    *)
(* the program; next_tsc is read after the last one.                       *)
SetUp ==
  /\ pc \in SetUps
  /\ pc' \in {After(pc), "exit"}
  /\ IF pc = "start" THEN next_tsc' = now /\ start' = now
                    ELSE UNCHANGED <<next_tsc, start>>
  /\ UNCHANGED <<now, count, size, free, ring, refs, tries>>

(* The packet is allocated and filled in.                                  *)
Build ==
  /\ pc = "build"
  /\ pc' = "poll"
  /\ free' = free - 1 /\ refs' = 1
  /\ UNCHANGED <<now, next_tsc, count, size, ring, start, tries>>

(* A packet that does not fit into an mbuf, or an allocation that fails,   *)
(* gives NULL, which nothing checks: writing the packet ends the process.  *)
BuildFails ==
  /\ pc = "build"
  /\ pc' = "exit"
  /\ UNCHANGED <<now, next_tsc, count, size, free, ring, refs, start, tries>>

(* Fault: the packet is sent a period early.                               *)
Poll_Early ==
  /\ pc = "poll" /\ now + Period >= next_tsc
  /\ pc' = "clone"
  /\ next_tsc' = next_tsc + Period /\ tries' = tries + 1
  /\ UNCHANGED <<now, count, size, free, ring, refs, start>>

(* Fault: the next period is counted from now.                             *)
Poll_FromNow ==
  /\ pc = "poll" /\ now >= next_tsc
  /\ pc' = "clone"
  /\ next_tsc' = now + Period /\ tries' = tries + 1
  /\ UNCHANGED <<now, count, size, free, ring, refs, start>>

(* The timer is read and a packet is due; when it is not the loop pauses.  *)
Poll ==
  /\ pc = "poll" /\ now >= next_tsc
  /\ pc' = "clone"
  /\ next_tsc' = next_tsc + Period /\ tries' = tries + 1
  /\ UNCHANGED <<now, count, size, free, ring, refs, start>>

Clone ==
  /\ pc = "clone" /\ free > 0
  /\ pc' = "burst"
  /\ free' = free - 1 /\ refs' = refs + 1
  /\ UNCHANGED <<now, next_tsc, count, size, ring, start, tries>>

(* The pool is empty: the period goes by without a packet.                 *)
CloneFails ==
  /\ pc = "clone" /\ free = 0
  /\ pc' = "poll"
  /\ UNCHANGED <<now, next_tsc, count, size, free, ring, refs, start, tries>>

(* Fault: a packet that was not sent is not freed.                         *)
Burst_Leaks ==
  /\ pc = "burst"
  /\ \E done \in 0..ring :
        IF ring - done < TxDescs
        THEN /\ ring' = ring - done + 1
             /\ free' = free + done /\ refs' = refs - done
        ELSE UNCHANGED <<ring, free, refs>>
  /\ pc' = "poll" /\ count' = count + 1
  /\ UNCHANGED <<now, next_tsc, size, start, tries>>

(* The burst first returns the mbufs that have been sent to the pool.  A   *)
(* packet that finds no descriptor is freed, and counts like one that was  *)
(* sent.                                                                   *)
Burst ==
  /\ pc = "burst"
  /\ \E done \in 0..ring :
        IF ring - done < TxDescs
        THEN /\ ring' = ring - done + 1
             /\ free' = free + done /\ refs' = refs - done
        ELSE /\ ring' = ring - done
             /\ free' = free + done + 1 /\ refs' = refs - done - 1
  /\ pc' = "poll" /\ count' = count + 1
  /\ UNCHANGED <<now, next_tsc, size, start, tries>>

(* The timer runs on whatever the program does.                            *)
Tick ==
  /\ now < Horizon
  /\ now' = now + 1
  /\ UNCHANGED <<pc, next_tsc, count, size, free, ring, refs, start, tries>>

Init ==
  /\ pc = "eal" /\ now = 0 /\ next_tsc = 0 /\ count = 0
  /\ size \in PoolSizes /\ free = size /\ ring = 0 /\ refs = 0
  /\ start = 0 /\ tries = 0

Loop == Poll \/ Clone \/ CloneFails \/ Burst

Next == SetUp \/ Build \/ BuildFails \/ Loop \/ Tick

Spec == Init /\ [][Next]_vars

(* The program has a core of its own, and the timer runs.                  *)
FairSpec == Spec /\ WF_vars(SetUp \/ Build \/ BuildFails \/ Loop) /\ WF_vars(Tick)

-----------------------------------------------------------------------------
Looping == pc \in {"poll", "clone", "burst"}

TypeOK ==
  /\ pc \in SetUps \cup {"build", "poll", "clone", "burst", "exit"}
  /\ now \in 0..Horizon /\ next_tsc \in Nat /\ count \in Nat
  /\ size \in PoolSizes /\ free \in Nat /\ ring \in 0..TxDescs
  /\ refs \in Nat /\ start \in 0..Horizon /\ tries \in Nat

(* The k-th packet is not sent before the start of the k-th period, however *)
(* far a stall had put the loop behind and however fast it catches up.     *)
NeverEarly == tries > 0 => now >= start + (tries - 1) * Period

(* Every mbuf is free, in the queue, the packet or the clone in hand, and  *)
(* the packet has a reference for each clone: none is lost when packets    *)
(* are dropped, and the packet itself is never freed under the queue.      *)
MbufsAccounted ==
  Looping => LET hand == IF pc = "burst" THEN 1 ELSE 0
             IN  /\ free + ring + hand + 1 = size
                 /\ refs = ring + hand + 1

(* A pool that exceeds the queue by two is never empty when a clone is     *)
(* taken: with 4096 mbufs for a port and 512 descriptors no period goes by *)
(* without a packet.                                                       *)
CloneSucceeds == pc = "clone" /\ size >= TxDescs + 2 => free > 0

(* Stalls leave no gap: a loop that waits has caught up with every period  *)
(* that has begun since the set-up, and has handed a packet to the queue   *)
(* for each of them if the pool suffices.                                  *)
NoneSkipped ==
  pc = "poll" /\ now < next_tsc /\ size >= TxDescs + 2
    => count = (now - start) \div Period + 1

(* "Sending one packet every period cycles": a stall delays packets but    *)
(* skips none, so that by the end of the time as many have been due as     *)
(* there were periods since the set-up.                                    *)
Due == tries > (Horizon - start) \div Period

EveryPeriod == <>(pc = "exit" \/ (Looping /\ Due))
=============================================================================
