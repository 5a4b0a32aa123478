----------------------------- MODULE StatsPath -----------------------------
(***************************************************************************)
(* The way of the timestamps and of the port statistics of a context: the  *)
(* receiver at the end of a chain (fpga_rx_final_thread of pipeline.cpp)   *)
(* hands timestamp packets to stats_ring, and a producer (run_stats_       *)
(* producer of stats.cpp) hands statistics and latencies to Kafka.  Both   *)
(* are written but not launched by main.                                   *)
(*                                                                         *)
(* The producer does not read stats_ring: it dequeues from the mbuf_ring   *)
(* of the card, which the forwarder of the context uses, and its first     *)
(* mbuf ends the process.  The order of received packets is left out.      *)
(***************************************************************************)
EXTENDS Integers, Sequences, FiniteSets

CONSTANTS
  Mbufs,       (* mbufs of the receiving port's mempool                    *)
  BURST_SIZE,
  StatsRoom,   (* entries that stats_ring takes                            *)
  Boot,        (* the cycle counter when the producer starts               *)
  End,         (* bound on the cycle counter                               *)
  Hz,          (* cycles per second                                        *)
  Giga,        (* nanoseconds per second: 1e9                              *)
  W            (* uint64_t has W values: 2^64                              *)

(* What the theorems assume of them.                                       *)
StatsAssumption ==
  /\ IsFiniteSet(Mbufs) /\ BURST_SIZE \in Nat \ {0}
  /\ StatsRoom \in Nat
  /\ Boot \in Nat /\ End \in Nat /\ Boot <= End
  /\ Hz \in Nat \ {0} /\ Giga \in Nat /\ W \in Nat \ {0}

VARIABLES
  stop,      (* stop_flag of the context                                   *)
  aborted,   (* an assertion has ended the process                         *)
  live,      (* the port is there and started                              *)
  pool,      (* the mbufs that its mempool may give out                    *)
  nic,       (* the packet each mbuf has received, or "none"               *)
  rx,        (* the receiver's statement                                   *)
  burst,     (* the packet of each mbuf it still has to look at            *)
  ring,      (* the mbufs that stats_ring points to                        *)
  prod,      (* the producer's statement                                   *)
  cycles,    (* the cycle counter                                          *)
  times,     (* the producer's old_time and curr_time                      *)
  first,     (* ghost: the time of the first message                       *)
  reported   (* ghost: what the messages after it add up to, how many of   *)
             (* their intervals are not empty, and whether one was too     *)
             (* long for uint64_t                                          *)

rxVars   == <<live, pool, nic, rx, burst, ring>>
timeVars == <<times, first, reported>>
vars     == <<stop, aborted, rxVars, prod, timeVars, cycles>>

Kinds == {"vlan", "other"}

Nothing == [m \in Mbufs |-> "none"]
In(place) == {m \in Mbufs : place[m] # "none"}

-----------------------------------------------------------------------------
(* The receiver.                                                           *)

(* A packet arrives in an mbuf of the pool.                                *)
Arrive(m, kind) ==
  /\ live /\ m \in pool /\ nic[m] = "none"
  /\ pool' = pool \ {m}
  /\ nic' = [nic EXCEPT ![m] = kind]
  /\ UNCHANGED <<stop, aborted, live, rx, burst, ring, prod, timeVars, cycles>>

RxCheck ==
  /\ rx = "check"
  /\ rx' = IF stop THEN "stopped" ELSE "receive"
  /\ UNCHANGED <<stop, aborted, live, pool, nic, burst, ring, prod, timeVars, cycles>>

(* rte_eth_rx_burst: up to BURST_SIZE of the packets there are; an empty   *)
(* burst goes back to the loop's condition.                                *)
RxBurst ==
  /\ rx = "receive"
  /\ \E ms \in SUBSET In(nic) :
        /\ Cardinality(ms) <= BURST_SIZE /\ (ms = {} => In(nic) = {})
        /\ burst' = [m \in Mbufs |-> IF m \in ms THEN nic[m] ELSE "none"]
        /\ nic' = [m \in Mbufs |-> IF m \in ms THEN "none" ELSE nic[m]]
        /\ rx' = IF ms = {} THEN "check" ELSE "packets"
  /\ UNCHANGED <<stop, aborted, live, pool, ring, prod, timeVars, cycles>>

is_vlan_packet(kind) == kind = "vlan"

(* A packet of the burst: a VLAN packet is enqueued if there is room.      *)
(* Then it is freed, enqueued or not; any other packet is just freed.      *)
Look(m) ==
  /\ rx = "packets" /\ m \in In(burst)
  /\ ring' = IF is_vlan_packet(burst[m]) /\ Len(ring) < StatsRoom
             THEN Append(ring, m) ELSE ring
  /\ pool' = pool \cup {m}
  /\ burst' = [burst EXCEPT ![m] = "none"]
  /\ rx' = IF In(burst) = {m} THEN "check" ELSE "packets"
  /\ UNCHANGED <<stop, aborted, live, nic, prod, timeVars, cycles>>

Receiver == RxCheck \/ RxBurst \/ \E m \in Mbufs : Look(m)

-----------------------------------------------------------------------------
(* The producer.                                                           *)
Goto(s) == prod' = s

ProdCheck ==
  /\ prod = "check"
  /\ Goto(IF stop THEN "return" ELSE "rx_stats")
  /\ UNCHANGED <<stop, aborted, rxVars, timeVars, cycles>>

(* rte_eth_stats_get of the two ports: a failure ends the thread.          *)
GetStats ==
  /\ prod \in {"rx_stats", "tx_stats"}
  /\ \/ Goto(IF prod = "rx_stats" THEN "tx_stats" ELSE "time")
     \/ Goto("return")
  /\ UNCHANGED <<stop, aborted, rxVars, timeVars, cycles>>

(* get_tsc_delta_ns, in uint64_t.                                          *)
DeltaNs(old, curr) == (((curr - old) * Giga) % W) \div Hz

Report(old, curr) ==
  IF first = -1
  THEN first' = curr /\ UNCHANGED reported
  ELSE /\ UNCHANGED first
       /\ reported' = [ns   |-> reported.ns + DeltaNs(old, curr),
                       n    |-> reported.n + (IF curr > times.curr THEN 1 ELSE 0),
                       late |-> reported.late \/ (curr - times.curr) * Giga >= W]

(* The time since the last message, and the message; the first one counts  *)
(* from old_time = 0.  A message that the Kafka client has no room for is  *)
(* dropped, and nobody is told.                                            *)
ProduceStats ==
  /\ prod = "time"
  /\ times' = [old |-> cycles, curr |-> cycles]
  /\ Report(times.old, cycles)
  /\ Goto("extract")
  /\ UNCHANGED <<stop, aborted, rxVars, cycles>>

(* extract_then_produce_latency_packets: a burst of what the forwarder has *)
(* in the card's mbuf_ring.  The constructor of Timestamps asserts that    *)
(* 0x8100 and 0x0ABC are their own big-endian forms, which no x86 host     *)
(* grants: the first mbuf of a burst ends the process.                     *)
Extract ==
  /\ prod = "extract"
  /\ \/ Goto("delay") /\ UNCHANGED aborted          (* an empty burst     *)
     \/ aborted' = TRUE /\ UNCHANGED prod
  /\ UNCHANGED <<stop, rxVars, timeVars, cycles>>

(* rte_delay_ms, of any length.                                            *)
Delay ==
  /\ prod = "delay"
  /\ Goto("check")
  /\ UNCHANGED <<stop, aborted, rxVars, timeVars, cycles>>

(* run_stats_producer returns, and its local copies of the two OnicPorts   *)
(* are destroyed: each closes the port it is a copy of and removes the     *)
(* device, while the receiver and the forwarder may still be polling it.   *)
(* Closing frees the mempool too; either call may fail.                    *)
DestroyCopies ==
  /\ prod = "return"
  /\ \E closed, removed \in BOOLEAN :
        LET down == closed \/ removed
        IN  /\ live' = (live /\ ~down)
            /\ nic' = IF down THEN Nothing ELSE nic
            /\ pool' = IF closed THEN {} ELSE IF removed THEN pool \cup In(nic) ELSE pool
  /\ Goto("ended")
  /\ UNCHANGED <<stop, aborted, rx, burst, ring, timeVars, cycles>>

Producer ==
  \/ ProdCheck \/ GetStats \/ ProduceStats \/ Extract \/ Delay \/ DestroyCopies

-----------------------------------------------------------------------------
(* main sets stop_flag; time goes by.                                      *)
Stop ==
  /\ ~stop /\ stop' = TRUE
  /\ UNCHANGED <<aborted, rxVars, prod, timeVars, cycles>>

Tick ==
  /\ cycles < End /\ cycles' = cycles + 1
  /\ UNCHANGED <<stop, aborted, rxVars, prod, timeVars>>

Init ==
  /\ stop = FALSE /\ aborted = FALSE /\ live = TRUE
  /\ pool = Mbufs /\ nic = Nothing /\ rx = "check" /\ burst = Nothing /\ ring = <<>>
  /\ prod = "check" /\ cycles = Boot /\ times = [old |-> 0, curr |-> 0]
  /\ first = -1 /\ reported = [ns |-> 0, n |-> 0, late |-> FALSE]

Next ==
  /\ ~aborted
  /\ \/ \E m \in Mbufs, kind \in Kinds : Arrive(m, kind)
     \/ Receiver \/ Producer
     \/ Stop \/ Tick

Spec == Init /\ [][Next]_vars

-----------------------------------------------------------------------------
(* Types; stats_ring keeps within its room, a burst within its size, and   *)
(* the receiver holds a burst exactly while it looks at packets.           *)
TypeOK ==
  /\ stop \in BOOLEAN /\ aborted \in BOOLEAN /\ live \in BOOLEAN
  /\ pool \subseteq Mbufs
  /\ nic \in [Mbufs -> Kinds \cup {"none"}]
  /\ rx \in {"check", "receive", "packets", "stopped"}
  /\ burst \in [Mbufs -> Kinds \cup {"none"}]
  /\ Cardinality(In(burst)) <= BURST_SIZE
  /\ (rx = "packets") <=> (In(burst) # {})
  /\ ring \in Seq(Mbufs) /\ Len(ring) <= StatsRoom
  /\ prod \in {"check", "rx_stats", "tx_stats", "time", "extract", "delay", "return", "ended"}
  /\ cycles \in Boot..End
  /\ times \in [old : Nat, curr : Nat]
  /\ first \in Nat \cup {-1}
  /\ reported \in [ns : Nat, n : Nat, late : BOOLEAN]

(* pipeline.cpp says of a timestamp packet "Pass stats packet to stats     *)
(* core" and of the free after it "stats_ring is full, must manually free":*)
(* an mbuf that stats_ring points to is the stats core's, so that the      *)
(* mempool neither has it to give out nor has given it to the NIC again.   *)
StatsRingOwns ==
  \A i \in DOMAIN ring : ring[i] \notin pool /\ nic[ring[i]] = "none"

(* The DELTA_NS of run_stats_producer tile the time: summed over the       *)
(* messages after the first they give the time from the first message to   *)
(* the last, less a truncation below one nanosecond per interval that is   *)
(* not empty.  Only the first message counts from old_time = 0.  The claim *)
(* ends with an interval that overflows uint64_t before the division by hz.*)
DeltaTiles ==
  (first # -1 /\ ~reported.late) =>
     /\ reported.ns * Hz <= (times.curr - first) * Giga
     /\ (times.curr - first) * Giga <= (reported.ns + reported.n) * Hz
=============================================================================
