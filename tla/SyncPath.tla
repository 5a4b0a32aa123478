------------------------------ MODULE SyncPath ------------------------------
(***************************************************************************)
(* From a packet to the sync count of a card                               *)
(* (fpga/hw/plugins/inject_timestamp/p2p_322mhz.sv): packet_detect watches *)
(* the tx and the rx stream of each CMAC port, the detections are ORed,    *)
(* pass two registers and drive sync_pulse_i of clk_sync_pulse, whose      *)
(* registers are those of ClkSyncPulse.  The registers and the streams of  *)
(* port 0 are clocked by cmac_clk[0].                                      *)
(*                                                                         *)
(* build_onic.sh builds two ports.  The detections of port 1 belong to     *)
(* cmac_clk[1]: whatever its packets are, an edge of cmac_clk[0] finds     *)
(* their OR up or down, and `far` is what it finds.                        *)
(*                                                                         *)
(* A packet is a sequence of beats.  Of a beat only tlast and the bytes 12 *)
(* to 15 matter.  packet_detect's reset is left unconnected                *)
(* (timestamp_inject is instantiated without axil_aresetn), an open input  *)
(* that synthesis ties to 0: in_packet is held in reset.                   *)
(***************************************************************************)
EXTENDS ClkSyncPulse, Sequences

CONSTANT
  Headers     (* the bytes 12..15 that beats may carry                     *)

VARIABLES
  in_packet,  (* packet_detect's register, per stream of port 0            *)
  meta,       (* sync_detected_combined_meta                               *)
  combined,   (* sync_detected_combined_r: sync_pulse_i                    *)
  offer,      (* the beat a stream holds out (tvalid), or None             *)
  mid,        (* the source of a stream is inside a packet                 *)
  syncs,      (* ghost: edges since the reset in which a sync packet of    *)
              (* port 0 began                                              *)
  extra       (* ghost: edges in which none began, but a later beat looked *)
              (* like one or port 1 was up, and what a reset left behind   *)

clkVars == <<default_master, axis_aresetn, rst_edges, modeVars, periodVars,
             nb_sync, curr_tick, detect_r>>
srcVars == <<offer, mid>>
ghosts  == <<syncs, extra>>
pathVars == <<clkVars, in_packet, meta, combined, srcVars, ghosts>>

Streams == {"tx", "rx"}
None    == [bytes |-> <<>>, last |-> FALSE]
Beats   == [bytes : Headers, last : BOOLEAN]

(* Byte k of a packet is tdata[8k+7:8k], so that a slice reads its bytes   *)
(* last one first: ETH_TYPE is bytes 13, 12; VLAN_ID starts at bit 116 and *)
(* is byte 15 followed by the upper half of byte 14.                       *)
eth_type(bytes) == bytes[2] * 256 + bytes[1]
vlan_id(bytes)  == bytes[4] * 16 + bytes[3] \div 16
is_sync(bytes)  == eth_type(bytes) = 33024 (* h8100 *) /\ vlan_id(bytes) = 2748 (* hABC *)

(* What the sync application writes there, in network byte order.          *)
AppHeader == <<129, 0, 10, 188>>

(* tvalid /\ tready                                                        *)
Taken(s, ready) == offer[s] # None /\ ready[s]

sync_detected(s, ready) ==
  Taken(s, ready) /\ ~in_packet[s] /\ is_sync(offer[s].bytes)

(* Faulty variants, named ..._<fault>, stand before the definitions they   *)
(* vary; the specification does not use them.                              *)
(* Fault: the reset input is high for ever, so that a packet cut in two by *)
(* a reset of the streams leaves in_packet set.                            *)
InPacketEdge_NeverReset(ready) ==
  in_packet' = [s \in Streams |->
    IF Taken(s, ready) THEN ~offer[s].last ELSE in_packet[s]]
InPacketEdge(ready) == in_packet' = [s \in Streams |-> FALSE]

(* The two registers behind the OR have no reset.                          *)
CombineEdge(ready, far) ==
  /\ meta' = (far \/ \E s \in Streams : sync_detected(s, ready))
  /\ combined' = meta

(* The pulses on their way to clk_sync_pulse.                              *)
InFlight == (IF meta THEN 1 ELSE 0) + (IF combined THEN 1 ELSE 0)

(* The sources: a beat is held out until it is taken, and the beats of a   *)
(* packet follow each other with any pauses.                               *)
SourceEdge(ready) ==
  /\ offer' \in [Streams -> Beats \cup {None}]
  /\ \A s \in Streams : offer[s] # None /\ ~ready[s] => offer'[s] = offer[s]
  /\ mid' = [s \in Streams |-> IF Taken(s, ready) THEN ~offer[s].last ELSE mid[s]]

(* What packet_detect is to count are packets; what a beat inside a packet *)
(* carries there is data.                                                  *)
Begins(ready) ==
  \E s \in Streams : Taken(s, ready) /\ ~mid[s] /\ is_sync(offer[s].bytes)
Mimics(ready) ==
  \E s \in Streams : Taken(s, ready) /\ mid[s] /\ is_sync(offer[s].bytes)

Count(n, event) == IF event THEN (n + 1) % WordMod ELSE n

(* The tx stream may be held up; the rx stream's tready is constant 1.     *)
Readiness == {ready \in [Streams -> BOOLEAN] : ready["rx"]}

PathRun ==
  \E ready \in Readiness, far \in BOOLEAN :
     /\ RunEdge(combined)
     /\ InPacketEdge(ready) /\ CombineEdge(ready, far) /\ SourceEdge(ready)
     /\ syncs' = Count(syncs, Begins(ready))
     /\ extra' = Count(extra, ~Begins(ready) /\ (Mimics(ready) \/ far))

(* In a reset the register slices in front of port 0's streams hold tvalid *)
(* down; port 1 leaves and enters its reset at another time.  What it has  *)
(* put into the two registers when the reset ends will be counted.         *)
PathReset ==
  /\ ResetEdge(combined)
  /\ \E ready \in Readiness, far \in BOOLEAN :
        InPacketEdge(ready) /\ CombineEdge(ready, far)
  /\ extra' = InFlight' % WordMod
  /\ UNCHANGED <<srcVars, syncs>>

PathRelease ==
  /\ ReleaseReset
  /\ UNCHANGED <<in_packet, meta, combined, srcVars, ghosts>>

(* ... and what they held is gone.                                         *)
PathAssert ==
  /\ AssertReset
  /\ offer' = [s \in Streams |-> None]
  /\ mid' = [s \in Streams |-> FALSE]
  /\ syncs' = 0 /\ extra' = 0
  /\ UNCHANGED <<in_packet, meta, combined>>

PathInit ==
  /\ Init
  /\ in_packet = [s \in Streams |-> FALSE]
  /\ meta \in BOOLEAN /\ combined \in BOOLEAN
  /\ offer = [s \in Streams |-> None] /\ mid = [s \in Streams |-> FALSE]
  /\ syncs = 0 /\ extra = 0

PathNext == PathRun \/ PathReset \/ PathRelease \/ PathAssert

PathSpec == PathInit /\ [][PathNext]_pathVars

(* The clock keeps running and generic_reset ends the resets it begins.    *)
PathFairSpec ==
  PathSpec /\ WF_pathVars(PathRun) /\ WF_pathVars(PathRelease) /\ WF_pathVars(PathReset)

-----------------------------------------------------------------------------
PathTypeOK ==
  /\ TypeOK
  /\ in_packet \in [Streams -> BOOLEAN]
  /\ meta \in BOOLEAN /\ combined \in BOOLEAN
  /\ offer \in [Streams -> Beats \cup {None}]
  /\ mid \in [Streams -> BOOLEAN]
  /\ syncs \in Word /\ extra \in Word

(* A slave counts each sync packet of port 0 exactly once, two edges after *)
(* its first beat is taken: however long the beat waits, however packets   *)
(* of the two directions interleave (two that begin in the same cycle      *)
(* count once) and however many packets resets have cut in two.  What it   *)
(* counts besides is accounted for: a later beat that looks like the first *)
(* of a sync packet (packet_detect.sv means to look at the first beat      *)
(* only), and every edge at which port 1 is found up, be that none or      *)
(* several of them for a packet there.                                     *)
SyncsCounted ==
  axis_aresetn /\ ~default_master =>
    (nb_sync + InFlight) % WordMod = (syncs + extra) % WordMod

(* A packet of the sync application (src_clk_sync/main.cpp) is one the     *)
(* detector is looking for (packet_detect.sv: "the VLAN we are looking     *)
(* for").                                                                  *)
AppPacketsDetected ==
  \A s \in Streams :
     ~in_packet[s] /\ offer[s] # None /\ offer[s].bytes = AppHeader
       => sync_detected(s, [r \in Streams |-> TRUE])
=============================================================================
