---------------------------- MODULE MbufPipeline ----------------------------
(***************************************************************************)
(* The forwarding pipeline of one ForwardingContext                        *)
(* (server/src/pipeline.cpp): fpga_rx_thread takes bursts of mbufs from an *)
(* rx port and hands them through Onic::mbuf_ring to fpga_tx_thread, which *)
(* posts them on a tx port.  The two threads run on lcores of their own    *)
(* and share the ring, the mempool of the rx port and the stop flag.       *)
(*                                                                         *)
(* An mbuf is a model value.  The state records where REFERENCES to it     *)
(* are: the mempool holds pool[m] of them (a well behaved program keeps    *)
(* that at 0 or 1), each thread has its local array, the ring and the tx   *)
(* device hold sequences of pointers.                                      *)
(***************************************************************************)
EXTENDS Integers, Sequences, FiniteSets

CONSTANTS
  Mbufs,       (* the mbufs of the rx port's mempool                       *)
  RingCap,     (* usable slots of mbuf_ring (RING_SIZE - 1 in the source)  *)
  Burst,       (* BURST_SIZE                                               *)
  TxDescs,     (* descriptors of the tx queue                              *)
  PoolCap      (* slots of the mempool; a put beyond them is lost          *)

ASSUME PipelineAssumption ==
  /\ IsFiniteSet(Mbufs)
  /\ RingCap \in Nat
  /\ Burst \in Nat \ {0}
  /\ TxDescs \in Nat
  /\ PoolCap \in Nat /\ PoolCap >= Cardinality(Mbufs)

VARIABLES
  pool,       (* references to each mbuf held by the mempool               *)
  ring,       (* mbuf_ring                                                 *)
  txq,        (* mbufs posted on the tx queue, oldest first                *)
  rx_pc,      (* where fpga_rx_thread is                                   *)
  rx_mbufs,   (* its array mbufs[0..nb_rx-1], less those already freed     *)
  tx_pc,      (* where fpga_tx_thread is                                   *)
  tx_mbufs,   (* its array mbufs, less those posted or already freed       *)
  stop_flag   (* ctx->stop_flag                                            *)

rxVars == <<rx_pc, rx_mbufs>>
txVars == <<tx_pc, tx_mbufs, txq>>
vars   == <<pool, ring, txq, rx_pc, rx_mbufs, tx_pc, tx_mbufs, stop_flag>>

(* How often m occurs in the array or queue s.                             *)
Occ(s, m) == Cardinality({i \in DOMAIN s : s[i] = m})

(* Faulty variants, named ..._<fault>, stand before the definitions they   *)
(* vary; the specification does not use them.                              *)
Bursts_TooLong == UNION {[1..n -> Mbufs] : n \in 0..(Burst + 1)}

(* What rte_eth_rx_burst can fill the array with.                          *)
Bursts == UNION {[1..n -> Mbufs] : n \in 0..Burst}

PoolCount == Cardinality(UNION {{m} \X (1..pool[m]) : m \in Mbufs})

(* rte_pktmbuf_free: the reference goes back to the mempool, and is lost   *)
(* when the mempool has no slot left.                                      *)
Free(m) ==
  pool' = IF PoolCount < PoolCap THEN [pool EXCEPT ![m] = @ + 1] ELSE pool

-----------------------------------------------------------------------------
(* The value of the four-argument rte_ring_enqueue_bulk, with which the    *)
(* code is compiled, for n > 0 objects: how many were enqueued, all or     *)
(* none.  The comment in fpga_rx_thread takes it for a status.             *)
BulkResult(taken, n) == IF taken THEN n ELSE 0

(* while (!rte_atomic32_read(&ctx->stop_flag))                             *)
RxCheck ==
  /\ rx_pc = "loop"
  /\ rx_pc' = IF stop_flag THEN "done" ELSE "poll"
  /\ UNCHANGED <<pool, ring, txVars, rx_mbufs, stop_flag>>

(* rte_eth_rx_burst: any burst the mempool has mbufs for, the empty one    *)
(* included, in which case the thread goes back to the flag.               *)
RxBurst ==
  /\ rx_pc = "poll"
  /\ \E b \in Bursts :
        /\ \A m \in Mbufs : Occ(b, m) <= pool[m]
        /\ pool' = [m \in Mbufs |-> pool[m] - Occ(b, m)]
        /\ rx_mbufs' = b
        /\ rx_pc' = IF b = <<>> THEN "loop" ELSE "enq"
  /\ UNCHANGED <<ring, txVars, stop_flag>>

(* Fault: keeps trying while the ring is full.                             *)
RxEnqueue_Retries ==
  /\ rx_pc = "enq" /\ Len(ring) + Len(rx_mbufs) <= RingCap
  /\ ring' = ring \o rx_mbufs
  /\ rx_pc' = "loop" /\ rx_mbufs' = <<>>
  /\ UNCHANGED <<pool, txVars, stop_flag>>

(* rte_ring_enqueue_bulk and the test of its result: the burst is taken    *)
(* whole or not at all, and a non-zero result leads to the freeing loop.   *)
RxEnqueue ==
  /\ rx_pc = "enq"
  /\ LET taken == Len(ring) + Len(rx_mbufs) <= RingCap
         ret   == BulkResult(taken, Len(rx_mbufs))
     IN  /\ ring' = IF taken THEN ring \o rx_mbufs ELSE ring
         /\ rx_pc' = IF ret # 0 THEN "free" ELSE "loop"
         /\ rx_mbufs' = IF ret # 0 THEN rx_mbufs ELSE <<>>
  /\ UNCHANGED <<pool, txVars, stop_flag>>

(* One iteration of the loop that frees mbufs[0..nb_rx-1].                 *)
RxFree ==
  /\ rx_pc = "free"
  /\ Free(Head(rx_mbufs))
  /\ rx_mbufs' = Tail(rx_mbufs)
  /\ rx_pc' = IF Len(rx_mbufs) = 1 THEN "loop" ELSE "free"
  /\ UNCHANGED <<ring, txVars, stop_flag>>

RxStep == RxCheck \/ RxBurst \/ RxEnqueue \/ RxFree

-----------------------------------------------------------------------------
TxCheck ==
  /\ tx_pc = "loop"
  /\ tx_pc' = IF stop_flag THEN "done" ELSE "poll"
  /\ UNCHANGED <<pool, ring, rxVars, tx_mbufs, txq, stop_flag>>

(* Fault: a bulk dequeue, which takes BURST_SIZE mbufs or none.            *)
TxDequeue_Bulk ==
  /\ tx_pc = "poll"
  /\ LET n == IF Len(ring) < Burst THEN 0 ELSE Burst
     IN  /\ tx_mbufs' = SubSeq(ring, 1, n)
         /\ ring' = SubSeq(ring, n + 1, Len(ring))
         /\ tx_pc' = IF n = 0 THEN "loop" ELSE "send"
  /\ UNCHANGED <<pool, rxVars, txq, stop_flag>>

(* rte_ring_dequeue_burst: up to BURST_SIZE mbufs, as many as there are.   *)
TxDequeue ==
  /\ tx_pc = "poll"
  /\ LET n == IF Len(ring) < Burst THEN Len(ring) ELSE Burst
     IN  /\ tx_mbufs' = SubSeq(ring, 1, n)
         /\ ring' = SubSeq(ring, n + 1, Len(ring))
         /\ tx_pc' = IF n = 0 THEN "loop" ELSE "send"
  /\ UNCHANGED <<pool, rxVars, txq, stop_flag>>

(* Inside rte_eth_tx_burst: the driver frees the oldest mbuf whose         *)
(* transmission has completed.                                             *)
PmdReclaim ==
  /\ tx_pc = "send"
  /\ txq # <<>>
  /\ Free(Head(txq))
  /\ txq' = Tail(txq)
  /\ UNCHANGED <<ring, rxVars, tx_pc, tx_mbufs, stop_flag>>

(* Posting k mbufs and going on to free the array from index `from` + 1.   *)
PostThenFree(k, from) ==
  /\ Len(txq) + k <= TxDescs
  /\ txq' = txq \o SubSeq(tx_mbufs, 1, k)
  /\ tx_mbufs' = SubSeq(tx_mbufs, from + 1, Len(tx_mbufs))
  /\ tx_pc' = IF from < Len(tx_mbufs) THEN "free" ELSE "loop"

(* Fault: the freeing loop starts one past nb_tx.                          *)
TxPost_SkipsOne ==
  /\ tx_pc = "send"
  /\ \E k \in 0..Len(tx_mbufs) : PostThenFree(k, k + 1)
  /\ UNCHANGED <<pool, ring, rxVars, stop_flag>>

(* Fault: the freeing loop starts at 0 when some mbuf was not sent.        *)
TxPost_FreesAll ==
  /\ tx_pc = "send"
  /\ \E k \in 0..Len(tx_mbufs) :
        PostThenFree(k, IF k < Len(tx_mbufs) THEN 0 ELSE k)
  /\ UNCHANGED <<pool, ring, rxVars, stop_flag>>

(* rte_eth_tx_burst returns nb_tx = k: the first k mbufs are posted, and   *)
(* the thread goes on to free the others, if there are any.                *)
TxPost ==
  /\ tx_pc = "send"
  /\ \E k \in 0..Len(tx_mbufs) : PostThenFree(k, k)
  /\ UNCHANGED <<pool, ring, rxVars, stop_flag>>

(* One iteration of the loop that frees mbufs[nb_tx..nb_rx-1].             *)
TxFree ==
  /\ tx_pc = "free"
  /\ Free(Head(tx_mbufs))
  /\ tx_mbufs' = Tail(tx_mbufs)
  /\ tx_pc' = IF Len(tx_mbufs) = 1 THEN "loop" ELSE "free"
  /\ UNCHANGED <<ring, rxVars, txq, stop_flag>>

TxStep == TxCheck \/ TxDequeue \/ TxPost \/ TxFree

-----------------------------------------------------------------------------
(* main sets the flag of every context when SIGINT has been seen.          *)
SetStop ==
  /\ ~stop_flag
  /\ stop_flag' = TRUE
  /\ UNCHANGED <<pool, ring, rxVars, txVars>>

Init ==
  /\ pool = [m \in Mbufs |-> 1]
  /\ ring = <<>> /\ txq = <<>>
  /\ rx_pc = "loop" /\ rx_mbufs = <<>>
  /\ tx_pc = "loop" /\ tx_mbufs = <<>>
  /\ stop_flag = FALSE

Next == RxStep \/ TxStep \/ PmdReclaim \/ SetStop

(* Each thread is alone on its lcore (rte_eal_remote_launch): it keeps     *)
(* running.  The device owes nothing: it may never complete a packet.      *)
Fairness == WF_vars(RxStep) /\ WF_vars(TxStep)

Spec     == Init /\ [][Next]_vars
FairSpec == Spec /\ Fairness

-----------------------------------------------------------------------------
TypeOK ==
  /\ pool \in [Mbufs -> Nat]
  /\ ring \in Seq(Mbufs) /\ Len(ring) <= RingCap
  /\ txq \in Seq(Mbufs) /\ Len(txq) <= TxDescs
  /\ rx_pc \in {"loop", "poll", "enq", "free", "done"}
  /\ rx_mbufs \in Seq(Mbufs) /\ Len(rx_mbufs) <= Burst
  /\ rx_pc \in {"enq", "free"} <=> rx_mbufs # <<>>
  /\ tx_pc \in {"loop", "poll", "send", "free", "done"}
  /\ tx_mbufs \in Seq(Mbufs) /\ Len(tx_mbufs) <= Burst
  /\ tx_pc \in {"send", "free"} <=> tx_mbufs # <<>>
  /\ stop_flag \in BOOLEAN

(* The burst in rx_mbufs is the rx thread's own until the ring has taken   *)
(* it, which it has when the freeing loop is entered.                      *)
RxOwns == rx_pc = "enq"

(* Every reference to m: in the mempool, in a thread's hands, in the ring  *)
(* and in the device.                                                      *)
Refs(m) ==
  pool[m] + (IF RxOwns THEN Occ(rx_mbufs, m) ELSE 0)
          + Occ(ring, m) + Occ(tx_mbufs, m) + Occ(txq, m)

(* No step but two disturbs the number of references to an mbuf: the rx    *)
(* thread's freeing loop may add one (to an mbuf of its array), and one    *)
(* disappears only where an enqueue finds the ring full or a put finds the *)
(* mempool full.  All the other calls of pipeline.cpp move references.     *)
ConservingStep ==
  \A m \in Mbufs :
     /\ Refs(m)' > Refs(m) => rx_pc = "free" /\ m = Head(rx_mbufs)
     /\ Refs(m)' < Refs(m) => \/ rx_pc = "enq" /\ ring' = ring
                              \/ PoolCount >= PoolCap
MbufConserved == [][ConservingStep]_vars

(* Every mbuf has exactly one owner at all times: fpga_rx_thread frees the *)
(* bursts the ring has no room for, so none of them leaks, and frees none  *)
(* that the ring, fpga_tx_thread or the device still holds.                *)
SingleOwner == \A m \in Mbufs : Refs(m) = 1

(* fpga_rx_thread and fpga_tx_thread together are a FIFO channel whose     *)
(* waiting line is the tx thread's array followed by the ring.             *)
Channel == INSTANCE ForwardChannel
             WITH Waiting <- RingCap + Burst,
                  waiting <- tx_mbufs \o ring, posted <- txq
ImplementsChannel == Channel!Spec

(* Once the stop flag is set both threads leave their loops, whatever      *)
(* the ring holds and even if the device never completes a packet.         *)
StopTerminates == stop_flag ~> (rx_pc = "done" /\ tx_pc = "done")

(* An mbuf waiting in the ring reaches the tx thread's transmit call,      *)
(* unless the forwarder is being stopped.                                  *)
RingServed ==
  \A m \in Mbufs : Occ(ring, m) > 0 ~> (Occ(tx_mbufs, m) > 0 \/ stop_flag)
=============================================================================
