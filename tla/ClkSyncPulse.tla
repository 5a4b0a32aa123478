---------------------------- MODULE ClkSyncPulse ----------------------------
(***************************************************************************)
(* The FPGA block that counts clock-synchronisation pulses                 *)
(* (fpga/hw/IPs/clk_sync_pulse: clk_sync_pulse.sv and                      *)
(* clk_sync_pulse_regs.sv), edge by edge of axis_aclk.  The AXI-Lite side  *)
(* is commented out in the source, so mode and period only ever take their *)
(* default values, but they still pass through the two synchroniser        *)
(* registers, and the comparison with the period is registered once more:  *)
(* the delays are what the properties are about.                           *)
(***************************************************************************)
EXTENDS Integers

CONSTANTS
  DefaultPeriod,  (* DEFAULT_PERIOD                                        *)
  WordMod,        (* 2^32 in the source                                    *)
  PowerUp,        (* values a register may hold before its first reset     *)
  ResetEdges      (* clock edges for which generic_reset holds axis_aresetn *)

Word   == 0..(WordMod - 1)
Period == DefaultPeriod - 1      (* reset value of reg_sync_period         *)

ASSUME ClkSyncAssumption ==
  /\ WordMod \in Nat
  /\ DefaultPeriod \in 1..(WordMod - 1)
  /\ PowerUp \subseteq Word
  /\ ResetEdges \in Nat /\ ResetEdges >= 4

VARIABLES
  default_master,   (* DEFAULT_MODE = MASTER: chosen by the build, fixed   *)
  axis_aresetn,
  rst_edges,        (* edges seen since axis_aresetn fell, up to ResetEdges *)
  master_mode,      (* reg_master_mode and its two synchroniser registers  *)
  master_meta,
  master_sync,
  sync_period,      (* reg_sync_period and its two synchroniser registers  *)
  period_meta,
  period_sync,
  nb_sync,          (* reg_nb_sync                                         *)
  curr_tick,        (* reg_curr_tick                                       *)
  detect_r          (* master_sync_period_detect_r                         *)

modeVars   == <<master_mode, master_meta, master_sync>>
periodVars == <<sync_period, period_meta, period_sync>>
vars == <<default_master, axis_aresetn, rst_edges, modeVars, periodVars, nb_sync, curr_tick, detect_r>>

-----------------------------------------------------------------------------
(* The combinational wires; pulse is sync_pulse_i.                         *)
incr_nb_sync(pulse)   == ~master_sync /\ pulse
incr_curr_tick(pulse) == master_sync \/ incr_nb_sync(pulse)
period_detect(pulse)  == detect_r /\ incr_curr_tick(pulse)

(* Faulty variants, named ..._<fault>, stand before the definitions they   *)
(* vary; the specification does not use them.                              *)
(* Fault: the increment of a slave in place of the one of a master.        *)
sync_pulse_o_WrongIncrement(pulse) == master_sync /\ incr_nb_sync(pulse) /\ detect_r

sync_pulse_o(pulse)   == master_sync /\ period_detect(pulse)

(* Mode and period registers: written by the reset only.                   *)
ConfigEdge ==
  IF axis_aresetn THEN UNCHANGED <<master_mode, sync_period>>
  ELSE master_mode' = default_master /\ sync_period' = Period

NbSyncEdge(pulse) ==
  nb_sync' = IF ~axis_aresetn THEN 0
             ELSE IF incr_nb_sync(pulse) \/ period_detect(pulse)
                  THEN (nb_sync + 1) % WordMod
             ELSE nb_sync

(* Fault: the pulse does not clear the tick count.                         *)
CurrTickEdge_NoClear(pulse) ==
  curr_tick' = IF ~axis_aresetn THEN 0
               ELSE IF incr_curr_tick(pulse)
                    THEN IF detect_r THEN 0 ELSE (curr_tick + 1) % WordMod
               ELSE curr_tick

CurrTickEdge(pulse) ==
  curr_tick' = IF ~axis_aresetn \/ incr_nb_sync(pulse) THEN 0
               ELSE IF incr_curr_tick(pulse)
                    THEN IF detect_r THEN 0 ELSE (curr_tick + 1) % WordMod
               ELSE curr_tick

(* Fault: the comparison with the period is >= instead of =.               *)
SyncEdge_AtLeast ==
  /\ period_meta' = sync_period /\ period_sync' = period_meta
  /\ master_meta' = master_mode /\ master_sync' = master_meta
  /\ detect_r' = (master_sync /\ curr_tick >= period_sync)

(* The registers without a reset: synchronisers and period comparison.     *)
SyncEdge ==
  /\ period_meta' = sync_period /\ period_sync' = period_meta
  /\ master_meta' = master_mode /\ master_sync' = master_meta
  /\ detect_r' = (master_sync /\ curr_tick = period_sync)

(* Every always_ff block at one rising edge of axis_aclk.                  *)
Edge(pulse) == ConfigEdge /\ NbSyncEdge(pulse) /\ CurrTickEdge(pulse) /\ SyncEdge

-----------------------------------------------------------------------------
ResetEdge(pulse) ==
  /\ ~axis_aresetn
  /\ Edge(pulse)
  /\ rst_edges' = IF rst_edges < ResetEdges THEN rst_edges + 1 ELSE rst_edges
  /\ UNCHANGED <<default_master, axis_aresetn>>

RunEdge(pulse) ==
  /\ axis_aresetn
  /\ Edge(pulse)
  /\ UNCHANGED <<default_master, axis_aresetn, rst_edges>>

(* generic_reset releases the block once it has held the reset long enough *)
ReleaseReset ==
  /\ ~axis_aresetn /\ rst_edges = ResetEdges
  /\ axis_aresetn' = TRUE
  /\ UNCHANGED <<default_master, rst_edges, modeVars, periodVars, nb_sync, curr_tick, detect_r>>

(* ... and takes it again when the shell asks for a module reset.          *)
AssertReset ==
  /\ axis_aresetn
  /\ axis_aresetn' = FALSE /\ rst_edges' = 0
  /\ UNCHANGED <<default_master, modeVars, periodVars, nb_sync, curr_tick, detect_r>>

Init ==
  /\ default_master \in BOOLEAN
  /\ axis_aresetn = FALSE /\ rst_edges = 0
  /\ master_mode \in BOOLEAN /\ master_meta \in BOOLEAN /\ master_sync \in BOOLEAN
  /\ sync_period \in PowerUp /\ period_meta \in PowerUp /\ period_sync \in PowerUp
  /\ nb_sync \in PowerUp /\ curr_tick \in PowerUp
  /\ detect_r \in BOOLEAN

Run  == \E pulse \in BOOLEAN : RunEdge(pulse)
Next == Run \/ (\E pulse \in BOOLEAN : ResetEdge(pulse)) \/ ReleaseReset \/ AssertReset

Spec == Init /\ [][Next]_vars

(* The clock keeps running and generic_reset ends the resets it begins.    *)
FairSpec == Spec /\ WF_vars(Run) /\ WF_vars(ReleaseReset)
                 /\ WF_vars(\E pulse \in BOOLEAN : ResetEdge(pulse))

-----------------------------------------------------------------------------
TypeOK ==
  /\ default_master \in BOOLEAN
  /\ axis_aresetn \in BOOLEAN
  /\ rst_edges \in 0..ResetEdges
  /\ master_mode \in BOOLEAN /\ master_meta \in BOOLEAN /\ master_sync \in BOOLEAN
  /\ sync_period \in Word /\ period_meta \in Word /\ period_sync \in Word
  /\ nb_sync \in Word /\ curr_tick \in Word
  /\ detect_r \in BOOLEAN

(* The tick count at which the built circuit begins a master's next        *)
(* period: the comparison is registered, so that the count runs one tick   *)
(* past reg_sync_period, except when that is 0.                            *)
LastTick == IF Period = 0 THEN 0 ELSE Period + 1

(* What k reset edges have settled: the defaults reach the comparison one  *)
(* register per edge.                                                      *)
Settled(k) ==
  /\ k >= 1 => master_mode = default_master /\ sync_period = Period
  /\ k >= 2 => master_meta = default_master /\ period_meta = Period
  /\ k >= 3 => master_sync = default_master /\ period_sync = Period
ResetSettles == ~axis_aresetn =>
  /\ Settled(rst_edges)
  /\ rst_edges >= 1 => curr_tick = 0 /\ nb_sync = 0
  /\ rst_edges >= 4 => (detect_r <=> default_master /\ Period = 0)

(* After a reset no power-up value survives anywhere.  A part of the       *)
(* inductive invariant.                                                    *)
RunsOnDefaults == axis_aresetn =>
  /\ Settled(3)
  /\ detect_r <=> default_master /\ curr_tick = LastTick
  /\ curr_tick <= LastTick

(* A slave's tick count never leaves zero, pulses or not: test_slave_mode  *)
(* says "check that it doesnt auto increment curr_tick or nb_sync".        *)
SlaveTickStill == axis_aresetn /\ ~default_master => curr_tick = 0

IInv == TypeOK /\ ResetSettles /\ RunsOnDefaults /\ SlaveTickStill

(* The block is a SyncCounter: seen through its two outputs, resets clear  *)
(* both counts, a slave counts the cycles in which the pulse is up and all *)
(* periods of a master have the same length, whatever the registers powered*)
(* up with, whenever the resets come and whatever the pulses do.  It does  *)
(* not say that the length is the documented one: see DocumentedPeriod.    *)
Counter == INSTANCE SyncCounter WITH master <- default_master, period <- LastTick + 1
ImplementsCounter == Counter!Spec

(* clk_sync_pulse_regs.sv says of DEFAULT_PERIOD "Nb ticks per period", and*)
(* testbench.cpp that "nb_sync_o should increment every" DEFAULT_PERIOD    *)
(* "ticks": the tick in which a master's count moves is the                *)
(* DEFAULT_PERIOD-th since the tick count was 0.                           *)
DocumentedPeriod ==
  [][default_master /\ axis_aresetn /\ axis_aresetn' /\ nb_sync' # nb_sync
       => curr_tick + 1 = DefaultPeriod]_vars

(* A master that is not reset again keeps sending pulses: the equality     *)
(* test of its comparison is never jumped over.                            *)
MasterPulses ==
  <>[]axis_aresetn => (default_master => []<>(axis_aresetn /\ sync_pulse_o(FALSE)))
=============================================================================
