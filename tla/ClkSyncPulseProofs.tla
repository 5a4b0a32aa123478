------------------------- MODULE ClkSyncPulseProofs -------------------------
(***************************************************************************)
(* Proofs about ClkSyncPulse, for every word width, period and mode, and   *)
(* about SyncPath, in which its pulse input is driven by packet_detect.    *)
(***************************************************************************)
EXTENDS SyncPath, TLAPS

(* Values of the constants that the proofs use.                            *)
LEMMA Constants ==
  /\ WordMod \in Nat /\ WordMod >= 2
  /\ DefaultPeriod \in Nat /\ DefaultPeriod >= 1 /\ DefaultPeriod < WordMod
  /\ Period \in Word /\ Period + 1 = DefaultPeriod
  /\ LastTick \in Word /\ (LastTick = 0 <=> Period = 0) /\ (Period # 0 => LastTick = Period + 1)
  /\ 0 \in Word /\ PowerUp \subseteq Word
  /\ ResetEdges \in Nat /\ ResetEdges >= 4
BY ClkSyncAssumption DEF Period, Word, LastTick

(* Counting modulo the word size stays in the word and is exact below it.  *)
LEMMA WordStep ==
  ASSUME NEW w \in Word
  PROVE  /\ (w + 1) % WordMod \in Word
         /\ w < WordMod - 1 => (w + 1) % WordMod = w + 1
<1>1. WordMod \in Nat /\ WordMod >= 2 /\ w \in Nat /\ w <= WordMod - 1
  BY Constants DEF Word
<1>2. CASE w = WordMod - 1
  <2>1. (w + 1) % WordMod = 0
    BY <1>1, <1>2
  <2> QED
    BY <1>1, <1>2, <2>1 DEF Word
<1>3. CASE w < WordMod - 1
  <2>1. (w + 1) % WordMod = w + 1
    BY <1>1, <1>3
  <2> QED
    BY <1>1, <1>3, <2>1 DEF Word
<1> QED
  BY <1>1, <1>2, <1>3

(* One clock edge keeps the registers in range.                            *)
LEMMA EdgeType ==
  ASSUME TypeOK, NEW pulse \in BOOLEAN, Edge(pulse)
  PROVE  /\ master_mode' \in BOOLEAN /\ master_meta' \in BOOLEAN /\ master_sync' \in BOOLEAN
         /\ sync_period' \in Word /\ period_meta' \in Word /\ period_sync' \in Word
         /\ nb_sync' \in Word /\ curr_tick' \in Word /\ detect_r' \in BOOLEAN
<1>1. /\ master_mode' \in BOOLEAN /\ master_meta' \in BOOLEAN /\ master_sync' \in BOOLEAN
      /\ sync_period' \in Word /\ period_meta' \in Word /\ period_sync' \in Word
      /\ detect_r' \in BOOLEAN
  BY Constants DEF TypeOK, Edge, ConfigEdge, SyncEdge
<1>2. nb_sync' \in Word
  BY Constants, WordStep DEF TypeOK, Edge, NbSyncEdge
<1>3. curr_tick' \in Word
  BY Constants, WordStep DEF TypeOK, Edge, CurrTickEdge
<1> QED
  BY <1>1, <1>2, <1>3

(* What power-up and the first reset values give.                          *)
LEMMA ClkSyncInit == ASSUME Init PROVE IInv
<1>1. TypeOK
  <2>1. rst_edges \in 0..ResetEdges
    BY Constants DEF Init
  <2>2. /\ sync_period \in Word /\ period_meta \in Word /\ period_sync \in Word
        /\ nb_sync \in Word /\ curr_tick \in Word
    BY Constants DEF Init
  <2> QED
    BY <2>1, <2>2 DEF Init, TypeOK
<1>2. axis_aresetn = FALSE /\ rst_edges = 0
  BY DEF Init
<1>3. ResetSettles
  BY <1>2 DEF ResetSettles, Settled
<1> QED
  BY <1>1, <1>2, <1>3 DEF IInv, RunsOnDefaults, SlaveTickStill

(* The mode is a parameter.                                                *)
LEMMA ModeFixed ==
  ASSUME TypeOK, [Next]_vars
  PROVE  default_master \in BOOLEAN /\ default_master' = default_master
BY DEF TypeOK, Next, Run, RunEdge, ResetEdge, ReleaseReset, AssertReset, vars

(* Every edge, and the two ends of a reset, keep the invariant.            *)
LEMMA ClkSyncStep == ASSUME IInv, [Next]_vars PROVE IInv'
<1>0. TypeOK /\ ResetSettles /\ RunsOnDefaults /\ SlaveTickStill
  BY DEF IInv
<1>m. default_master \in BOOLEAN /\ default_master' = default_master
  BY <1>0, ModeFixed
<1>1. CASE \E pulse \in BOOLEAN : ResetEdge(pulse)
  <2>1. PICK pulse \in BOOLEAN : ResetEdge(pulse)
    BY <1>1
  <2>2. ~axis_aresetn /\ ~axis_aresetn' /\ Edge(pulse) /\ rst_edges \in 0..ResetEdges
    BY <1>0, <2>1 DEF ResetEdge, TypeOK
  <2>3. /\ rst_edges' \in 0..ResetEdges
        /\ rst_edges' >= 2 => rst_edges >= 1
        /\ rst_edges' >= 3 => rst_edges >= 2
        /\ rst_edges' >= 4 => rst_edges >= 3
    BY <2>1, <2>2, Constants DEF ResetEdge
  <2>4. TypeOK'
    <3>1. axis_aresetn' \in BOOLEAN
      BY <1>0, <2>1 DEF ResetEdge, TypeOK
    <3> QED
      BY <1>m, <1>0, <2>2, <2>3, <3>1, EdgeType DEF TypeOK
  <2>5. curr_tick' = 0 /\ nb_sync' = 0
    BY <2>2 DEF Edge, CurrTickEdge, NbSyncEdge
  <2>6. Settled(rst_edges)'
    BY <1>m, <1>0, <2>2, <2>3 DEF ResetSettles, Settled, Edge, ConfigEdge, SyncEdge
  <2>7. rst_edges' >= 4 => (detect_r' <=> default_master /\ Period = 0)
    <3>1. rst_edges' >= 4 => master_sync = default_master /\ period_sync = Period /\ curr_tick = 0
      BY <1>0, <2>2, <2>3 DEF ResetSettles, Settled
    <3>2. detect_r' = (master_sync /\ curr_tick = period_sync)
      BY <2>2 DEF Edge, SyncEdge
    <3> QED
      BY <3>1, <3>2, Constants
  <2> QED
    BY <1>m, <2>2, <2>4, <2>5, <2>6, <2>7
       DEF IInv, ResetSettles, RunsOnDefaults, SlaveTickStill
<1>2. CASE Run
  <2>1. PICK pulse \in BOOLEAN : RunEdge(pulse)
    BY <1>2 DEF Run
  <2>2. axis_aresetn /\ axis_aresetn' /\ Edge(pulse) /\ rst_edges' = rst_edges
    BY <2>1 DEF RunEdge
  <2>3. TypeOK'
    BY <1>m, <1>0, <2>2, EdgeType DEF TypeOK
  <2>4. Settled(3) /\ (detect_r <=> default_master /\ curr_tick = LastTick) /\ curr_tick <= LastTick
    BY <1>0, <2>2 DEF RunsOnDefaults
  <2>5. Settled(3)'
    BY <1>m, <2>2, <2>4 DEF Settled, Edge, ConfigEdge, SyncEdge
  <2>6. detect_r' <=> default_master /\ curr_tick = Period
    <3>1. detect_r' = (master_sync /\ curr_tick = period_sync)
      BY <2>2 DEF Edge, SyncEdge
    <3>2. master_sync = default_master /\ period_sync = Period
      BY <2>4 DEF Settled
    <3> QED
      BY <3>1, <3>2
  <2>7. CASE default_master
    <3>1. master_sync = TRUE
      BY <2>4, <2>7 DEF Settled
    <3>2. curr_tick' = IF detect_r THEN 0 ELSE (curr_tick + 1) % WordMod
      BY <2>2, <3>1 DEF Edge, CurrTickEdge, incr_nb_sync, incr_curr_tick
    <3>3. curr_tick \in Word
      BY <1>0 DEF TypeOK
    <3>4. CASE curr_tick = LastTick
      BY <1>m, <2>2, <2>3, <2>4, <2>5, <2>6, <2>7, <3>2, <3>4, Constants
         DEF IInv, ResetSettles, RunsOnDefaults, SlaveTickStill, Word
    <3>5. CASE curr_tick < LastTick
      <4>1. curr_tick' = curr_tick + 1
        BY <2>4, <3>2, <3>3, <3>5, Constants, WordStep DEF Word
      <4>2. detect_r' <=> curr_tick' = LastTick
        BY <2>6, <2>7, <3>3, <3>5, <4>1, Constants DEF Word
      <4>3. curr_tick' <= LastTick
        BY <3>3, <3>5, <4>1, Constants DEF Word
      <4> QED
        BY <1>m, <2>2, <2>3, <2>5, <2>7, <4>2, <4>3
           DEF IInv, ResetSettles, RunsOnDefaults, SlaveTickStill
    <3> QED
      BY <2>4, <3>3, <3>4, <3>5, Constants DEF Word
  <2>8. CASE ~default_master
    <3>1. master_sync = FALSE /\ curr_tick = 0
      BY <1>0, <2>2, <2>4, <2>8, Constants DEF Settled, SlaveTickStill
    <3>2. curr_tick' = 0
      BY <2>2, <2>4, <2>8, <3>1 DEF Edge, CurrTickEdge, incr_nb_sync, incr_curr_tick
    <3> QED
      BY <1>m, <2>2, <2>3, <2>5, <2>6, <2>8, <3>2, Constants
         DEF IInv, ResetSettles, RunsOnDefaults, SlaveTickStill, Word
  <2> QED
    BY <2>7, <2>8
<1>3. CASE ReleaseReset
  <2>1. Settled(3) /\ curr_tick = 0 /\ (detect_r <=> default_master /\ Period = 0)
    BY <1>0, <1>3, Constants DEF ReleaseReset, ResetSettles, Settled
  <2>2. UNCHANGED <<rst_edges, modeVars, periodVars, nb_sync, curr_tick, detect_r>> /\ axis_aresetn'
    BY <1>3 DEF ReleaseReset
  <2>3. Settled(3)'
    BY <1>m, <2>1, <2>2 DEF Settled, modeVars, periodVars
  <2>4. TypeOK'
    BY <1>0, <1>3 DEF TypeOK, ReleaseReset, modeVars, periodVars
  <2>5. curr_tick' = 0 /\ curr_tick' <= LastTick
    BY <2>1, <2>2, Constants DEF Word
  <2>6. detect_r' <=> default_master /\ curr_tick' = LastTick
    <3>1. 0 = LastTick <=> Period = 0
      BY Constants
    <3> QED
      BY <2>1, <2>2, <2>5, <3>1
  <2> QED
    BY <1>m, <2>2, <2>3, <2>4, <2>5, <2>6 DEF IInv, ResetSettles, RunsOnDefaults, SlaveTickStill
<1>4. CASE AssertReset
  <2>1. axis_aresetn' = FALSE /\ rst_edges' = 0 /\ 0 \in 0..ResetEdges
    BY <1>4, Constants DEF AssertReset
  <2>2. TypeOK'
    BY <1>0, <1>4, <2>1 DEF AssertReset, TypeOK, modeVars, periodVars
  <2>3. ResetSettles'
    BY <2>1 DEF ResetSettles, Settled
  <2> QED
    BY <2>1, <2>2, <2>3 DEF IInv, RunsOnDefaults, SlaveTickStill
<1>5. CASE UNCHANGED vars
  <2>1. TypeOK'
    BY <1>0, <1>5 DEF TypeOK, vars, modeVars, periodVars
  <2>2. ResetSettles' /\ RunsOnDefaults' /\ SlaveTickStill'
    BY <1>0, <1>5
       DEF vars, ResetSettles, RunsOnDefaults, SlaveTickStill, Settled, modeVars, periodVars
  <2> QED
    BY <2>1, <2>2 DEF IInv
<1> QED
  BY <1>1, <1>2, <1>3, <1>4, <1>5 DEF Next

(* The whole invariant of the block: type correctness, what each reset     *)
(* edge has settled, the running state on the defaults, and the slave's    *)
(* still tick count.                                                       *)
THEOREM ClkSyncInvariant == Spec => []IInv
BY ClkSyncInit, ClkSyncStep, PTL DEF Spec

(* Every register keeps its width, whenever the reset comes and however    *)
(* long it lasts.                                                          *)
THEOREM ClkSyncTypeOK == Spec => []TypeOK
BY ClkSyncInvariant, PTL DEF IInv

(* The defaults travel one register further with every reset edge, and the *)
(* counters are clear from the first.                                      *)
THEOREM ClkSyncResetSettles == Spec => []ResetSettles
BY ClkSyncInvariant, PTL DEF IInv

(* In slave mode, the mode the design instantiates, the tick count that    *)
(* timestamps carry is the constant 0.                                     *)
THEOREM ClkSyncSlaveTickStill == Spec => []SlaveTickStill
BY ClkSyncInvariant, PTL DEF IInv

(* The registered, pipelined block implements the two-register counter,    *)
(* with a period of LastTick + 1 ticks as a master.                        *)
THEOREM ClkSyncImplementsCounter == Spec => ImplementsCounter
<1>1. Init => Counter!Init
  <2>1. LastTick + 1 \in 1..WordMod
    BY Constants DEF Word
  <2> QED
    BY <2>1, Constants DEF Init, Counter!Init, Counter!Word, Word
<1>2. ASSUME IInv, [Next]_vars PROVE [Counter!Next]_(Counter!vars)
  <2>0. TypeOK /\ ResetSettles /\ RunsOnDefaults /\ SlaveTickStill
    BY <1>2 DEF IInv
  <2>m. UNCHANGED Counter!params
    BY <1>2, <2>0, ModeFixed DEF Counter!params, LastTick, Period
  <2>p. LastTick \in Int /\ (LastTick + 1) - 1 = LastTick
    BY Constants DEF Word
  <2>1. CASE \E pulse \in BOOLEAN : ResetEdge(pulse)
    <3>1. Counter!Reset
      BY <2>1 DEF ResetEdge, Edge, NbSyncEdge, CurrTickEdge, Counter!Reset
    <3> QED
      BY <2>m, <3>1 DEF Counter!Next
  <2>2. CASE Run
    <3>1. PICK pulse \in BOOLEAN : RunEdge(pulse)
      BY <2>2 DEF Run
    <3>2. axis_aresetn /\ Edge(pulse)
      BY <3>1 DEF RunEdge
    <3>3. /\ master_sync = default_master
          /\ detect_r <=> default_master /\ curr_tick = LastTick
          /\ curr_tick <= LastTick /\ curr_tick \in Word
      BY <2>0, <3>2 DEF RunsOnDefaults, Settled, TypeOK
    <3>4. CASE default_master /\ curr_tick = LastTick
      <4>1. curr_tick' = 0 /\ nb_sync' = (nb_sync + 1) % WordMod
        BY <3>2, <3>3, <3>4
           DEF Edge, NbSyncEdge, CurrTickEdge, incr_nb_sync, incr_curr_tick, period_detect
      <4>2. Counter!MasterTick
        BY <2>p, <3>4, <4>1 DEF Counter!MasterTick, Counter!NewPeriod
      <4> QED
        BY <2>m, <4>2 DEF Counter!Next
    <3>5. CASE default_master /\ curr_tick < LastTick
      <4>1. ~detect_r
        BY <3>3, <3>5, Constants DEF Word
      <4>2. curr_tick' = (curr_tick + 1) % WordMod /\ nb_sync' = nb_sync
        BY <3>2, <3>3, <3>5, <4>1
           DEF Edge, NbSyncEdge, CurrTickEdge, incr_nb_sync, incr_curr_tick, period_detect
      <4>3. curr_tick' = curr_tick + 1
        BY <3>3, <3>5, <4>2, Constants, WordStep DEF Word
      <4>4. Counter!MasterTick
        BY <2>p, <3>5, <4>2, <4>3 DEF Counter!MasterTick
      <4> QED
        BY <2>m, <4>4 DEF Counter!Next
    <3>6. CASE ~default_master /\ pulse
      <4>1. curr_tick' = 0 /\ nb_sync' = (nb_sync + 1) % WordMod
        BY <3>2, <3>3, <3>6
           DEF Edge, NbSyncEdge, CurrTickEdge, incr_nb_sync
      <4> QED
        BY <2>m, <3>6, <4>1 DEF Counter!Next, Counter!SlavePulse, Counter!NewPeriod
    <3>7. CASE ~default_master /\ ~pulse
      <4>1. UNCHANGED <<nb_sync, curr_tick>>
        BY <3>2, <3>3, <3>7
           DEF Edge, NbSyncEdge, CurrTickEdge, incr_nb_sync, incr_curr_tick, period_detect
      <4> QED
        BY <2>m, <4>1 DEF Counter!vars
    <3> QED
      BY <3>3, <3>4, <3>5, <3>6, <3>7, Constants DEF Word
  <2>3. CASE ReleaseReset \/ AssertReset \/ UNCHANGED vars
    <3>1. UNCHANGED <<nb_sync, curr_tick>>
      BY <2>3 DEF ReleaseReset, AssertReset, vars
    <3> QED
      BY <2>m, <3>1 DEF Counter!vars
  <2> QED
    BY <1>2, <2>1, <2>2, <2>3 DEF Next
<1> QED
  BY <1>1, <1>2, ClkSyncInvariant, PTL DEF Spec, ImplementsCounter, Counter!Spec

(* The part of MasterPulses that is safety: while no reset is asked for,   *)
(* every step of a master is a clock edge, and an edge without a pulse     *)
(* brings it one tick nearer to the next one, which comes at LastTick.     *)
TicksLeft == LastTick - curr_tick
MasterTicks ==
  [][default_master /\ axis_aresetn /\ axis_aresetn' =>
       /\ TicksLeft \in 0..LastTick
       /\ IF sync_pulse_o(FALSE) THEN TicksLeft' = LastTick ELSE TicksLeft' = TicksLeft - 1]_vars

(* The equality test of the comparison is never jumped over, for any       *)
(* period and any width, whatever pulses come in and whenever the last     *)
(* reset was: two pulses of a master are exactly LastTick + 1 edges apart, *)
(* one more than the documentation says (DocumentedPeriod).                *)
THEOREM ClkSyncMasterTicks == Spec => MasterTicks
<1>1. ASSUME IInv, Next, default_master, axis_aresetn, axis_aresetn'
      PROVE  /\ TicksLeft \in 0..LastTick
             /\ IF sync_pulse_o(FALSE) THEN TicksLeft' = LastTick ELSE TicksLeft' = TicksLeft - 1
  <2>1. /\ master_sync
        /\ detect_r <=> curr_tick = LastTick
        /\ curr_tick <= LastTick /\ curr_tick \in Word
    <3>1. RunsOnDefaults /\ TypeOK
      BY <1>1 DEF IInv
    <3> QED
      BY <1>1, <3>1 DEF RunsOnDefaults, Settled, TypeOK
  <2>2. LastTick \in Nat /\ LastTick < WordMod /\ WordMod \in Nat
    BY Constants DEF LastTick
  <2>3. TicksLeft \in 0..LastTick
    BY <2>1, <2>2 DEF TicksLeft, Word
  <2>4. PICK pulse \in BOOLEAN : Edge(pulse)
    BY <1>1 DEF Next, Run, RunEdge, ResetEdge, ReleaseReset, AssertReset
  <2>5. sync_pulse_o(FALSE) <=> curr_tick = LastTick
    BY <2>1 DEF sync_pulse_o, period_detect, incr_curr_tick, incr_nb_sync
  <2>6. curr_tick' = IF curr_tick = LastTick THEN 0 ELSE (curr_tick + 1) % WordMod
    BY <1>1, <2>1, <2>4 DEF Edge, CurrTickEdge, incr_curr_tick, incr_nb_sync
  <2>7. LastTick' = LastTick
    BY DEF LastTick
  <2>8. curr_tick # LastTick => curr_tick' = curr_tick + 1
    <3>1. SUFFICES ASSUME curr_tick # LastTick PROVE curr_tick' = curr_tick + 1
      OBVIOUS
    <3>2. curr_tick < WordMod - 1
      BY <2>1, <2>2, <3>1 DEF Word
    <3>3. (curr_tick + 1) % WordMod = curr_tick + 1
      BY <2>1, <3>2, WordStep
    <3> QED
      BY <2>6, <3>1, <3>3
  <2>9. curr_tick \in Nat
    BY <2>1 DEF Word
  <2>10. CASE curr_tick = LastTick
    <3>1. TicksLeft' = LastTick - 0
      BY <2>6, <2>7, <2>10 DEF TicksLeft
    <3> QED
      BY <2>2, <2>3, <2>5, <2>10, <3>1
  <2>11. CASE curr_tick # LastTick
    <3>1. TicksLeft' = LastTick - (curr_tick + 1) /\ TicksLeft = LastTick - curr_tick
      BY <2>7, <2>8, <2>11 DEF TicksLeft
    <3>2. LastTick - (curr_tick + 1) = (LastTick - curr_tick) - 1
      BY <2>2, <2>9
    <3>3. ~sync_pulse_o(FALSE) /\ TicksLeft' = TicksLeft - 1
      BY <2>5, <2>11, <3>1, <3>2
    <3> QED
      BY <2>3, <3>3
  <2> QED
    BY <2>10, <2>11
<1>2. IInv /\ [Next]_vars =>
        [default_master /\ axis_aresetn /\ axis_aresetn' =>
           /\ TicksLeft \in 0..LastTick
           /\ IF sync_pulse_o(FALSE) THEN TicksLeft' = LastTick ELSE TicksLeft' = TicksLeft - 1]_vars
  BY <1>1
<1> QED
  BY <1>2, ClkSyncInvariant, PTL DEF Spec, MasterTicks

-----------------------------------------------------------------------------
(* SyncPath: the block driven by the packets of both CMAC ports.           *)

(* A step of the whole path is a step of the block, or none of its         *)
(* business, with the value of `combined` as the pulse.                    *)
LEMMA PathStepIsClkStep ==
  ASSUME combined \in BOOLEAN, [PathNext]_pathVars
  PROVE  [Next]_vars
BY DEF PathNext, PathRun, PathReset, PathRelease, PathAssert, pathVars, clkVars,
       Next, Run, vars

(* What the sources and packet_detect keep, whatever the block does.       *)
StreamsOK ==
  /\ in_packet = [s \in Streams |-> FALSE]
  /\ meta \in BOOLEAN /\ combined \in BOOLEAN
  /\ offer \in [Streams -> Beats \cup {None}]
  /\ mid \in [Streams -> BOOLEAN]
  /\ syncs \in Word /\ extra \in Word

(* In a reset no packet of port 0 is counted, and what port 1 has put into *)
(* the two registers is known.                                             *)
Flushed == ~axis_aresetn =>
  /\ syncs = 0
  /\ rst_edges >= 1 => extra = InFlight % WordMod

PInv == IInv /\ StreamsOK /\ Flushed /\ SyncsCounted

LEMMA PathInitInv == ASSUME PathInit PROVE PInv
<1>1. IInv
  BY ClkSyncInit DEF PathInit
<1>2. StreamsOK
  BY Constants DEF PathInit, StreamsOK
<1>3. axis_aresetn = FALSE /\ rst_edges = 0
  BY DEF PathInit, Init
<1>4. Flushed /\ SyncsCounted
  BY <1>3 DEF PathInit, Flushed, SyncsCounted
<1> QED
  BY <1>1, <1>2, <1>4 DEF PInv

(* An edge of the two registers behind the detectors keeps their types.    *)
LEMMA DetectorsType ==
  ASSUME StreamsOK, NEW ready \in Readiness, NEW far \in BOOLEAN,
         InPacketEdge(ready), CombineEdge(ready, far)
  PROVE  /\ in_packet' = [s \in Streams |-> FALSE]
         /\ meta' \in BOOLEAN /\ combined' \in BOOLEAN
BY DEF InPacketEdge, CombineEdge, StreamsOK

-----------------------------------------------------------------------------
(* Arithmetic of the word, as in any width.                                *)
LEMMA WordDivision ==
  ASSUME NEW a \in Nat
  PROVE  /\ a \div WordMod \in Nat /\ a % WordMod \in Word
         /\ a = WordMod * (a \div WordMod) + (a % WordMod)
BY Constants DEF Word

LEMMA WordRemainder ==
  ASSUME NEW q \in Nat, NEW r \in Word
  PROVE  (WordMod * q + r) % WordMod = r
BY Constants DEF Word

(* A wrap of one of the summands is a wrap of the sum.                     *)
LEMMA WordAdd ==
  ASSUME NEW a \in Nat, NEW k \in Nat
  PROVE  ((a % WordMod) + k) % WordMod = (a + k) % WordMod
<1> DEFINE q == a \div WordMod
           r == a % WordMod
           b == r + k
           p == b \div WordMod
           s == b % WordMod
<1>1. q \in Nat /\ r \in Nat /\ a = WordMod * q + r
  BY WordDivision, Constants DEF Word
<1>2. b \in Nat
  BY <1>1
<1>3. p \in Nat /\ s \in Word /\ b = WordMod * p + s
  BY <1>2, WordDivision
<1>4. a + k = WordMod * q + (WordMod * p + s)
  <2>1. a + k = (WordMod * q + r) + k /\ WordMod * q \in Nat
    BY <1>1, Constants
  <2> HIDE DEF q, r
  <2>2. a + k = WordMod * q + (r + k)
    BY <1>1, <2>1, Constants DEF Word
  <2> QED
    BY <1>3, <2>2
<1> HIDE DEF q, r, p, s
<1>5. WordMod * q + (WordMod * p + s) = WordMod * (q + p) + s
  BY <1>1, <1>3, Constants DEF Word
<1>6. (WordMod * (q + p) + s) % WordMod = s
  BY <1>1, <1>3, WordRemainder
<1>7. (a + k) % WordMod = s
  BY <1>4, <1>5, <1>6
<1> QED
  BY <1>7 DEF r, s

Bit == {0, 1}

(* The pulse in the last register is counted, the others move up, and a    *)
(* detection joins them: the sum grows by the detection.                   *)
LEMMA PipelineSum ==
  ASSUME NEW n \in Word, NEW m \in Bit, NEW c \in Bit, NEW d \in Bit
  PROVE  (((n + c) % WordMod) + (d + m)) % WordMod
            = (((n + (m + c)) % WordMod) + d) % WordMod
<1>1. n + c \in Nat /\ d + m \in Nat /\ n + (m + c) \in Nat /\ d \in Nat
  BY Constants DEF Word, Bit
<1>2. (((n + c) % WordMod) + (d + m)) % WordMod = ((n + c) + (d + m)) % WordMod
  BY <1>1, WordAdd
<1>3. (n + c) + (d + m) = (n + (m + c)) + d
  BY Constants DEF Word, Bit
<1>4. (((n + (m + c)) % WordMod) + d) % WordMod = ((n + (m + c)) + d) % WordMod
  BY <1>1, WordAdd
<1> QED
  BY <1>2, <1>3, <1>4

LEMMA WordSmall == ASSUME NEW n \in Word PROVE n % WordMod = n /\ n + 0 = n
BY Constants DEF Word

LEMMA CountType == ASSUME NEW n \in Word, NEW e PROVE Count(n, e) \in Word
BY WordStep DEF Count

LEMMA CountAdds ==
  ASSUME NEW n \in Word, NEW e \in BOOLEAN
  PROVE  Count(n, e) = (n + (IF e THEN 1 ELSE 0)) % WordMod
BY WordSmall DEF Count

(* Of two counts one moves with a detection: so does the sum of both.      *)
LEMMA CountEither ==
  ASSUME NEW n \in Word, NEW k \in Word, NEW b \in BOOLEAN, NEW x \in BOOLEAN
  PROVE  (Count(n, b) + Count(k, ~b /\ x)) % WordMod
            = (((n + k) % WordMod) + (IF b \/ x THEN 1 ELSE 0)) % WordMod
<1>1. n \in Nat /\ k \in Nat /\ n + k \in Nat /\ n + 1 \in Nat /\ k + 1 \in Nat
  BY Constants DEF Word
<1>2. CASE b
  <2>1. Count(n, b) = (n + 1) % WordMod /\ Count(k, ~b /\ x) = k
    BY <1>2 DEF Count
  <2>2. (((n + 1) % WordMod) + k) % WordMod = ((n + 1) + k) % WordMod
    BY <1>1, WordAdd
  <2>3. (((n + k) % WordMod) + 1) % WordMod = ((n + k) + 1) % WordMod
    BY <1>1, WordAdd
  <2>4. (n + 1) + k = (n + k) + 1
    BY <1>1
  <2> QED
    BY <1>2, <2>1, <2>2, <2>3, <2>4
<1>3. CASE ~b /\ x
  <2>1. Count(n, b) = n /\ Count(k, ~b /\ x) = (k + 1) % WordMod
    BY <1>3 DEF Count
  <2>2. (((k + 1) % WordMod) + n) % WordMod = ((k + 1) + n) % WordMod
    BY <1>1, WordAdd
  <2>3. (((n + k) % WordMod) + 1) % WordMod = ((n + k) + 1) % WordMod
    BY <1>1, WordAdd
  <2>4. (k + 1) + n = (n + k) + 1 /\ ((k + 1) % WordMod) + n = n + ((k + 1) % WordMod)
    BY <1>1, WordStep DEF Word
  <2> QED
    BY <1>3, <2>1, <2>2, <2>3, <2>4
<1>4. CASE ~b /\ ~x
  <2>1. Count(n, b) = n /\ Count(k, ~b /\ x) = k
    BY <1>4 DEF Count
  <2>2. (((n + k) % WordMod) + 0) % WordMod = ((n + k) + 0) % WordMod
    BY <1>1, WordAdd
  <2> QED
    BY <1>1, <1>4, <2>1, <2>2
<1> QED
  BY <1>2, <1>3, <1>4

(* A cycle in which the streams run: a detection is the beginning of a     *)
(* packet of port 0 or one of the other causes, and it is counted once.    *)
LEMMA PathRunKeeps ==
  ASSUME PInv, PathRun
  PROVE  StreamsOK' /\ Flushed' /\ SyncsCounted'
<1>1. PICK ready \in Readiness, far \in BOOLEAN :
         /\ RunEdge(combined)
         /\ InPacketEdge(ready) /\ CombineEdge(ready, far) /\ SourceEdge(ready)
         /\ syncs' = Count(syncs, Begins(ready))
         /\ extra' = Count(extra, ~Begins(ready) /\ (Mimics(ready) \/ far))
  BY DEF PathRun
<1>2. /\ axis_aresetn /\ axis_aresetn' /\ Edge(combined) /\ default_master' = default_master
      /\ StreamsOK /\ TypeOK /\ RunsOnDefaults /\ SyncsCounted
  BY <1>1 DEF RunEdge, PInv, IInv
<1>3. StreamsOK'
  <2>1. /\ in_packet' = [s \in Streams |-> FALSE]
        /\ meta' \in BOOLEAN /\ combined' \in BOOLEAN
    BY <1>1, <1>2, DetectorsType
  <2>2. offer' \in [Streams -> Beats \cup {None}]
    BY <1>1 DEF SourceEdge
  <2>3. mid' \in [Streams -> BOOLEAN]
    BY <1>1, <1>2 DEF SourceEdge, StreamsOK, Beats
  <2>4. syncs' \in Word /\ extra' \in Word
    BY <1>1, <1>2, CountType DEF StreamsOK
  <2> QED
    BY <2>1, <2>2, <2>3, <2>4 DEF StreamsOK
<1>4. SyncsCounted'
  <2> SUFFICES ASSUME ~default_master
               PROVE  (nb_sync' + InFlight') % WordMod = (syncs' + extra') % WordMod
    BY <1>2 DEF SyncsCounted
  <2> DEFINE m == IF meta THEN 1 ELSE 0
             c == IF combined THEN 1 ELSE 0
             b == Begins(ready)
             x == Mimics(ready) \/ far
             d == IF b \/ x THEN 1 ELSE 0
  <2>1. meta' = (b \/ x)
    <3>1. \A s \in Streams : ~in_packet[s] /\ mid[s] \in BOOLEAN
      BY <1>2 DEF StreamsOK
    <3>2. (\E s \in Streams : sync_detected(s, ready)) <=> Begins(ready) \/ Mimics(ready)
      BY <3>1 DEF sync_detected, Begins, Mimics
    <3>3. meta' = (far \/ \E s \in Streams : sync_detected(s, ready))
      BY <1>1 DEF CombineEdge
    <3> QED
      BY <3>2, <3>3
  <2>2. combined' = meta
    BY <1>1 DEF CombineEdge
  <2>3. /\ nb_sync \in Word /\ syncs \in Word /\ extra \in Word
        /\ (nb_sync + (m + c)) % WordMod = (syncs + extra) % WordMod
    BY <1>2 DEF TypeOK, StreamsOK, SyncsCounted, InFlight
  <2>4. nb_sync' = (nb_sync + c) % WordMod
    <3>1. ~master_sync /\ ~detect_r
      BY <1>2 DEF RunsOnDefaults, Settled
    <3>2. nb_sync' = IF combined THEN (nb_sync + 1) % WordMod ELSE nb_sync
      BY <1>2, <3>1 DEF Edge, NbSyncEdge, incr_nb_sync, period_detect
    <3> QED
      BY <2>3, <3>2, WordSmall
  <2>5. b \in BOOLEAN /\ x \in BOOLEAN
    BY DEF Begins, Mimics
  <2>6. InFlight' = d + m
    BY <2>1, <2>2 DEF InFlight
  <2>7. m \in Bit /\ c \in Bit /\ d \in Bit
    BY DEF Bit
  <2>8. syncs' = Count(syncs, b) /\ extra' = Count(extra, ~b /\ x)
    BY <1>1
  <2>9. (Count(syncs, b) + Count(extra, ~b /\ x)) % WordMod
          = (((syncs + extra) % WordMod) + d) % WordMod
    <3> HIDE DEF b, x
    <3> QED
      BY <2>3, <2>5, CountEither
  <2> HIDE DEF m, c, d, b, x
  <2>10. (((nb_sync + c) % WordMod) + (d + m)) % WordMod
          = (((nb_sync + (m + c)) % WordMod) + d) % WordMod
    BY <2>3, <2>7, PipelineSum
  <2> QED
    BY <2>3, <2>4, <2>6, <2>8, <2>9, <2>10
<1> QED
  BY <1>2, <1>3, <1>4 DEF Flushed

(* An edge in reset: nothing of port 0 is taken.                           *)
LEMMA PathResetKeeps ==
  ASSUME PInv, PathReset
  PROVE  StreamsOK' /\ Flushed' /\ SyncsCounted'
<1>1. /\ ~axis_aresetn /\ ~axis_aresetn' /\ ResetEdge(combined)
      /\ UNCHANGED <<offer, mid, syncs>> /\ extra' = InFlight' % WordMod
  BY DEF PathReset, ResetEdge, srcVars
<1>2. PICK ready \in Readiness, far \in BOOLEAN :
         InPacketEdge(ready) /\ CombineEdge(ready, far)
  BY DEF PathReset
<1>3. StreamsOK /\ Flushed
  BY DEF PInv
<1>4. extra' \in Word
  <2>1. InFlight' \in Nat
    BY DEF InFlight
  <2> QED
    BY <1>1, <2>1, WordDivision
<1>5. StreamsOK'
  BY <1>1, <1>2, <1>3, <1>4, DetectorsType DEF StreamsOK
<1> QED
  BY <1>1, <1>3, <1>5 DEF Flushed, SyncsCounted

(* When the reset ends nothing is counted, and what is under way is known. *)
LEMMA PathReleaseKeeps ==
  ASSUME PInv, PathRelease
  PROVE  StreamsOK' /\ Flushed' /\ SyncsCounted'
<1>1. /\ ~axis_aresetn /\ axis_aresetn' /\ rst_edges >= 1 /\ nb_sync' = nb_sync
      /\ UNCHANGED <<in_packet, meta, combined, offer, mid, syncs, extra>>
  BY Constants DEF PathRelease, ReleaseReset, srcVars, ghosts
<1>2. nb_sync = 0 /\ syncs = 0 /\ extra = InFlight % WordMod /\ extra \in Word
  BY <1>1 DEF PInv, IInv, ResetSettles, Flushed, StreamsOK
<1>3. StreamsOK' /\ Flushed'
  BY <1>1 DEF PInv, StreamsOK, Flushed
<1>4. SyncsCounted'
  <2>1. InFlight' = InFlight /\ InFlight \in Nat
    BY <1>1 DEF InFlight
  <2>2. (0 + InFlight) % WordMod = (0 + extra) % WordMod
    BY <1>2, <2>1, WordSmall DEF Word
  <2> QED
    BY <1>1, <1>2, <2>1, <2>2 DEF SyncsCounted
<1> QED
  BY <1>3, <1>4

(* When it begins, the sources and the counts start anew.                  *)
LEMMA PathAssertKeeps ==
  ASSUME PInv, PathAssert
  PROVE  StreamsOK' /\ Flushed' /\ SyncsCounted'
<1>1. /\ ~axis_aresetn' /\ rst_edges' = 0
      /\ offer' = [s \in Streams |-> None] /\ mid' = [s \in Streams |-> FALSE]
      /\ syncs' = 0 /\ extra' = 0 /\ UNCHANGED <<in_packet, meta, combined>>
  BY DEF PathAssert, AssertReset
<1> QED
  BY <1>1, Constants DEF PInv, StreamsOK, Flushed, SyncsCounted

(* The invariant of the path: the block's own, the streams, and the sum of *)
(* what is counted and what is on its way.                                 *)
LEMMA PathInvariant == PathSpec => []PInv
<1>1. ASSUME PInv, [PathNext]_pathVars PROVE PInv'
  <2>1. IInv'
    <3>1. combined \in BOOLEAN /\ IInv
      BY <1>1 DEF PInv, StreamsOK
    <3> QED
      BY <1>1, <3>1, PathStepIsClkStep, ClkSyncStep
  <2>2. CASE PathNext
    BY <1>1, <2>1, <2>2, PathRunKeeps, PathResetKeeps, PathReleaseKeeps, PathAssertKeeps
       DEF PathNext, PInv
  <2>3. CASE UNCHANGED pathVars
    BY <1>1, <2>1, <2>3
       DEF PInv, StreamsOK, Flushed, SyncsCounted, InFlight, pathVars, clkVars, srcVars, ghosts
  <2> QED
    BY <1>1, <2>2, <2>3
<1> QED
  BY <1>1, PathInitInv, PTL DEF PathSpec

(* Registers, streams and counts keep their types in the whole path.       *)
THEOREM PathTypeCorrect == PathSpec => []PathTypeOK
<1>1. PInv => PathTypeOK
  BY DEF PInv, IInv, StreamsOK, PathTypeOK
<1> QED
  BY <1>1, PathInvariant, PTL

(* Every sync packet of port 0 moves a slave's count by one, in any word   *)
(* width, with any traffic on either port, any pauses and any resets, and  *)
(* all that moves it besides is in the second ghost count.                 *)
THEOREM PathSyncsCounted == PathSpec => []SyncsCounted
<1>1. PInv => SyncsCounted
  BY DEF PInv
<1> QED
  BY <1>1, PathInvariant, PTL

(* Composition: driven by packet_detect the block still behaves as it does *)
(* under an arbitrary pulse, so that all its theorems hold of the path.    *)
THEOREM PathImplementsClkSync == PathSpec => Spec
<1>1. ASSUME PInv, [PathNext]_pathVars PROVE [Next]_vars
  BY <1>1, PathStepIsClkStep DEF PInv, StreamsOK
<1>2. PathInit => Init
  BY DEF PathInit
<1> QED
  BY <1>1, <1>2, PathInvariant, PTL DEF PathSpec, Spec

(* The two outputs of the whole path are a SyncCounter.                    *)
THEOREM PathImplementsCounter == PathSpec => ImplementsCounter
BY PathImplementsClkSync, ClkSyncImplementsCounter

(* The tick count that the timestamps of a slave carry stays 0.            *)
THEOREM PathSlaveTickStill == PathSpec => []SlaveTickStill
BY PathImplementsClkSync, ClkSyncSlaveTickStill

-----------------------------------------------------------------------------
(* The packet of the sync application is not one packet_detect looks for:  *)
(* its bytes are in network order, the detector's constants in the opposite*)
(* one.  A port that carries nothing else is never detected.               *)
THEOREM PathMissesApplication ==
  ASSUME Headers = {AppHeader}
  PROVE  PathSpec => [](\A s \in Streams, ready \in Readiness : ~sync_detected(s, ready))
<1>1. ~is_sync(AppHeader)
  BY DEF is_sync, eth_type, vlan_id, AppHeader
<1>2. PInv => \A s \in Streams, ready \in Readiness : ~sync_detected(s, ready)
  BY <1>1 DEF PInv, StreamsOK, Beats, sync_detected, Taken
<1> QED
  BY <1>2, PathInvariant, PTL
=============================================================================
