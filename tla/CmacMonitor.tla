---------------------------- MODULE CmacMonitor ----------------------------
(***************************************************************************)
(* The Ethernet MACs (CMACs) of the cards: Onic::init_hardware and         *)
(* enable_cmac bring them up from the constructor of each card, and then   *)
(* get_cmac_stats reads their statistics, for the monitoring loop of main  *)
(* and for the CMAC producer of stats.cpp (which main does not launch).    *)
(*                                                                         *)
(* A CMAC counts in the background; a write to its TICK register moves     *)
(* what it has counted into the statistics registers, which are then read  *)
(* one by one.  `total` and `good` stand for each pair of such registers   *)
(* (packets and bytes, received and sent).                                 *)
(***************************************************************************)
EXTENDS Integers, Sequences

CONSTANTS
  NbCards,     (* cards that main constructs                               *)
  NB_CMAC,     (* CMACs of a card                                          *)
  Readers,     (* threads that read statistics                             *)
  Reads,       (* the CMACs a reader reads in a round, in order            *)
  Main,        (* the reader that is main's loop                           *)
  W,           (* a statistics field has uint32_t values: W is 2^32        *)
  MaxPackets   (* bound on the packets that arrive                         *)

Cmacs == (0..(NbCards - 1)) \X (0..(NB_CMAC - 1))

ASSUME MonitorAssumption ==
  /\ NbCards \in Nat \ {0} /\ NB_CMAC \in Nat \ {0}
  /\ Main \in Readers
  /\ Reads \in [Readers -> Seq(Cmacs) \ {<<>>}]
  /\ W \in Nat \ {0} /\ MaxPackets \in Nat

VARIABLES
  card, cmac, (* init_hardware is at this CMAC of this card                *)
  step,       (* and at this statement                                     *)
  version,    (* whether the core version is ONIC_CMAC_CORE_VERSION        *)
  status,     (* the CMAC's bit in SYSCFG_OFFSET_SHELL_STATUS              *)
  conf,       (* it has been configured since its last reset               *)
  pending,    (* counted since the last TICK                               *)
  latch,      (* the statistics registers                                  *)
  reader,     (* each reader's position, its next register and its stats,  *)
              (* or that its loop has ended                                *)
  seen,       (* ghost: the stats returned, summed up with add             *)
  arrived,    (* ghost: all that was ever counted                          *)
  packets     (* number of arrivals, for the bound                         *)

hwVars   == <<card, cmac, step, version, status, conf>>
statVars == <<pending, latch, reader, seen, arrived, packets>>
vars     == <<hwVars, statVars>>

Stats == [total : Nat, good : Nat]
Zero  == [total |-> 0, good |-> 0]

-----------------------------------------------------------------------------
(* init_hardware, for each card in the order of the constructors.  The     *)
(* loops that poll for a reset run until the bit is set.                   *)
Here == <<card, cmac>>

(* A reset: the bit is cleared, and so is the configuration.               *)
Reset(c) ==
  /\ status' = [status EXCEPT ![c] = FALSE]
  /\ conf' = [conf EXCEPT ![c] = FALSE]

(* The shell completes a reset.                                            *)
ResetDone(c) ==
  /\ ~status[c]
  /\ status' = [status EXCEPT ![c] = TRUE]
  /\ UNCHANGED <<card, cmac, step, version, conf, statVars>>

(* The queue registers are written and CMAC 0's bit is awaited.            *)
WaitShell ==
  /\ step = "shell" /\ status[<<card, 0>>]
  /\ step' = "reset" /\ cmac' = 0
  /\ UNCHANGED <<card, version, status, conf, statVars>>

ResetCmac ==
  /\ step = "reset" /\ cmac < NB_CMAC
  /\ Reset(Here)
  /\ step' = "wait"
  /\ UNCHANGED <<card, cmac, version, statVars>>

WaitReset ==
  /\ step = "wait" /\ status[Here]
  /\ step' = "version"
  /\ UNCHANGED <<card, cmac, version, status, conf, statVars>>

(* The end of init_hardware: the next card is constructed.                 *)
NextCard ==
  /\ card' = card + 1 /\ cmac' = 0
  /\ step' = IF card + 1 < NbCards THEN "shell" ELSE "done"

(* Fault: a core of another version is tried again.                        *)
CheckVersion_Retries ==
  /\ step = "version"
  /\ step' = IF version[Here] THEN "enable" ELSE "reset"
  /\ UNCHANGED <<card, cmac, version, status, conf, statVars>>

(* A core of another version ends the loop.                                *)
CheckVersion ==
  /\ step = "version"
  /\ IF version[Here] THEN step' = "enable" /\ UNCHANGED <<card, cmac>>
                      ELSE NextCard
  /\ UNCHANGED <<version, status, conf, statVars>>

(* Fault: enable_cmac resets CMAC 0 whichever its argument.                *)
EnableReset_First ==
  /\ step = "enable"
  /\ Reset(<<card, 0>>)
  /\ step' = "again"
  /\ UNCHANGED <<card, cmac, version, statVars>>

(* enable_cmac resets the CMAC a second time.                              *)
EnableReset ==
  /\ step = "enable"
  /\ Reset(Here)
  /\ step' = "again"
  /\ UNCHANGED <<card, cmac, version, statVars>>

WaitAgain ==
  /\ step = "again" /\ status[Here]
  /\ step' = "conf"
  /\ UNCHANGED <<card, cmac, version, status, conf, statVars>>

(* RS-FEC, receiver and transmitter and flow control are written; ++i.     *)
Configure ==
  /\ step = "conf"
  /\ conf' = [conf EXCEPT ![Here] = TRUE]
  /\ step' = "reset" /\ cmac' = cmac + 1
  /\ UNCHANGED <<card, version, status, statVars>>

AllCmacs ==
  /\ step = "reset" /\ cmac = NB_CMAC
  /\ NextCard
  /\ UNCHANGED <<version, status, conf, statVars>>

InitHardware ==
  \/ WaitShell \/ ResetCmac \/ WaitReset \/ CheckVersion
  \/ EnableReset \/ WaitAgain \/ Configure \/ AllCmacs

-----------------------------------------------------------------------------
(* A packet arrives at a CMAC that is up, intact or not.                   *)
Add(s, good) == [total |-> s.total + 1, good |-> s.good + good]

Arrive(c, good) ==
  /\ conf[c] /\ status[c] /\ packets < MaxPackets
  /\ packets' = packets + 1
  /\ pending' = [pending EXCEPT ![c] = Add(@, good)]
  /\ arrived' = [arrived EXCEPT ![c] = Add(@, good)]
  /\ UNCHANGED <<hwVars, latch, reader, seen>>

Target(r) == Reads[r][reader[r].pos]

(* Fault: the TICK register of the other CMACs is written as well.         *)
Tick_All(r) ==
  /\ reader[r].next = "tick"
  /\ latch' = pending
  /\ pending' = [c \in Cmacs |-> Zero]
  /\ \E debug \in BOOLEAN :
        reader' = [reader EXCEPT ![r].next = "total", ![r].debug = debug]
  /\ UNCHANGED <<hwVars, seen, arrived, packets>>

(* get_cmac_stats begins with the TICK register.                           *)
Tick(r) ==
  /\ reader[r].next = "tick"
  /\ latch' = [latch EXCEPT ![Target(r)] = pending[Target(r)]]
  /\ pending' = [pending EXCEPT ![Target(r)] = Zero]
  /\ \E debug \in BOOLEAN :
        reader' = [reader EXCEPT ![r].next = "total", ![r].debug = debug]
  /\ UNCHANGED <<hwVars, seen, arrived, packets>>

(* A register is wider than the field it is read into.                     *)
ReadTotal(r) ==
  /\ reader[r].next = "total"
  /\ reader' = [reader EXCEPT ![r].next = "good",
                              ![r].stats.total = latch[Target(r)].total % W]
  /\ UNCHANGED <<hwVars, pending, latch, seen, arrived, packets>>

(* Fault: the other register of the pair belongs to the next tick.         *)
ReadGood_Late(r) ==
  /\ reader[r].next = "good"
  /\ latch' = [latch EXCEPT ![Target(r)].good = @ + pending[Target(r)].good]
  /\ pending' = [pending EXCEPT ![Target(r)].good = 0]
  /\ reader' = [reader EXCEPT ![r].next = "return",
                              ![r].stats.good = latch'[Target(r)].good % W]
  /\ UNCHANGED <<hwVars, seen, arrived, packets>>

ReadGood(r) ==
  /\ reader[r].next = "good"
  /\ reader' = [reader EXCEPT ![r].next = "return",
                              ![r].stats.good = latch[Target(r)].good % W]
  /\ UNCHANGED <<hwVars, pending, latch, seen, arrived, packets>>

(* With debug the same registers, and others, are read once more.          *)
GetCmacDebugStats(r) ==
  /\ reader[r].next = "return" /\ reader[r].debug
  /\ reader' = [reader EXCEPT ![r].next = "total", ![r].debug = FALSE]
  /\ UNCHANGED <<hwVars, pending, latch, seen, arrived, packets>>

(* CmacStats::add, in uint32_t.                                            *)
AddStats(s, other) == [total |-> (s.total + other.total) % W,
                       good  |-> (s.good + other.good) % W]

(* get_cmac_stats returns, and the reader goes on to its next CMAC or to   *)
(* the end of its round.                                                   *)
GetCmacStats(r) ==
  /\ reader[r].next = "return" /\ ~reader[r].debug
  /\ seen' = [seen EXCEPT ![Target(r)] = AddStats(@, reader[r].stats)]
  /\ reader' = [reader EXCEPT
        ![r].pos = @ + 1,
        ![r].next = IF reader[r].pos < Len(Reads[r]) THEN "tick" ELSE "report"]
  /\ UNCHANGED <<hwVars, pending, latch, arrived, packets>>

Begin(r) == reader' = [reader EXCEPT ![r].pos = 1, ![r].next = "tick"]

(* main prints all the fields of a round in which the rx_total_pkts differ *)
(* from those last printed, and sleeps; what it prints changes nothing.    *)
Monitor ==
  /\ reader[Main].next = "report"
  /\ Begin(Main)
  /\ UNCHANGED <<hwVars, pending, latch, seen, arrived, packets>>

(* A producer hands every round to Kafka.                                  *)
Produce(r) ==
  /\ r # Main /\ reader[r].next = "report"
  /\ Begin(r)
  /\ UNCHANGED <<hwVars, pending, latch, seen, arrived, packets>>

(* At the head of its loop main finds that a signal has come, which it may *)
(* do at any time; a producer finds its stop_flag, which main sets after   *)
(* its own loop.  (The producer's copies of the ports are destroyed then,  *)
(* which is OnicPort's Destroy and touches no CMAC.)                       *)
Leave(r) ==
  /\ reader[r].next = "tick" /\ reader[r].pos = 1
  /\ r # Main => reader[Main].next = "ended"
  /\ reader' = [reader EXCEPT ![r].next = "ended"]
  /\ UNCHANGED <<hwVars, pending, latch, seen, arrived, packets>>

Read(r) ==
  /\ step = "done"
  /\ \/ Tick(r) \/ ReadTotal(r) \/ ReadGood(r)
     \/ GetCmacDebugStats(r) \/ GetCmacStats(r) \/ Produce(r) \/ Leave(r)
     \/ r = Main /\ Monitor

-----------------------------------------------------------------------------
Init ==
  /\ card = 0 /\ cmac = 0 /\ step = "shell"
  /\ version \in [Cmacs -> BOOLEAN]
  /\ status \in [Cmacs -> BOOLEAN]
  /\ conf = [c \in Cmacs |-> FALSE]
  /\ pending = [c \in Cmacs |-> Zero]
  /\ latch = [c \in Cmacs |-> Zero]
  /\ reader = [r \in Readers |-> [pos |-> 1, next |-> "tick", debug |-> FALSE,
                                  stats |-> Zero]]
  /\ seen = [c \in Cmacs |-> Zero]
  /\ arrived = [c \in Cmacs |-> Zero]
  /\ packets = 0

Next ==
  \/ InitHardware
  \/ \E c \in Cmacs : ResetDone(c)
  \/ \E c \in Cmacs, good \in {0, 1} : Arrive(c, good)
  \/ \E r \in Readers : Read(r)

Spec == Init /\ [][Next]_vars

(* The polling loops run on, and the shell completes every reset.          *)
FairSpec ==
  /\ Spec
  /\ WF_vars(InitHardware)
  /\ \A c \in Cmacs : WF_vars(ResetDone(c))

-----------------------------------------------------------------------------
Field == 0..(W - 1)

(* The locals of reader r; its position is behind the last CMAC when the   *)
(* round is over.                                                          *)
Locals(r) ==
  [pos : 1..(Len(Reads[r]) + 1), debug : BOOLEAN,
   next : {"tick", "total", "good", "return", "report", "ended"},
   stats : [total : Field, good : Field]]

TypeOK ==
  /\ card \in 0..NbCards /\ cmac \in 0..NB_CMAC
  /\ step \in {"shell", "reset", "wait", "version", "enable", "again", "conf", "done"}
  /\ version \in [Cmacs -> BOOLEAN] /\ status \in [Cmacs -> BOOLEAN]
  /\ conf \in [Cmacs -> BOOLEAN]
  /\ pending \in [Cmacs -> Stats] /\ latch \in [Cmacs -> Stats]
  /\ seen \in [Cmacs -> Stats] /\ arrived \in [Cmacs -> Stats]
  /\ packets \in Nat
  /\ reader = [r \in Readers |-> reader[r]]
  /\ \A r \in Readers :
        /\ reader[r] \in Locals(r)
        /\ reader[r].pos = Len(Reads[r]) + 1 <=> reader[r].next = "report"

(* The CMACs that init_hardware leaves up are those before the first one   *)
(* of another version: the resets of a CMAC, and those of the next card,   *)
(* disturb none that was configured before.                                *)
CmacsUp ==
  \A k \in 0..(NbCards - 1), i \in 0..(NB_CMAC - 1) :
     k < card => ((conf[<<k, i>>] /\ status[<<k, i>>])
                    <=> \A j \in 0..i : version[<<k, j>>])

(* The constructors return, whatever the versions.                         *)
InitReturns == <>(step = "done")

(* No other reader writes this CMAC's TICK register.                       *)
Exclusive(c) ==
  \A r, o \in Readers :
     (\E i \in DOMAIN Reads[r] : Reads[r][i] = c)
       /\ (\E i \in DOMAIN Reads[o] : Reads[o][i] = c) => r = o

Reading(r, c) == reader[r].next \in {"total", "good", "return"} /\ Target(r) = c

(* What a TICK has put into the registers and no stats have returned yet.  *)
Unread(c) == IF \E r \in Readers : Reading(r, c) THEN latch[c] ELSE Zero

(* Reading the statistics destroys them, so they must add up: for a CMAC   *)
(* that one thread reads, what was returned, what is latched and what is   *)
(* being counted make up all that ever arrived (in uint32_t, as added).    *)
NothingLost ==
  \A c \in Cmacs : Exclusive(c) =>
     /\ (seen[c].total + Unread(c).total + pending[c].total) % W = arrived[c].total % W
     /\ (seen[c].good + Unread(c).good + pending[c].good) % W = arrived[c].good % W

(* The registers are read one by one while packets arrive, and yet show    *)
(* one instant: no more good packets than packets, unless a field of the   *)
(* stats has wrapped.                                                      *)
OneInstant ==
  \A r \in Readers :
     reader[r].next = "return" /\ Exclusive(Target(r)) /\ latch[Target(r)].total < W
       => reader[r].stats.good <= reader[r].stats.total
=============================================================================
