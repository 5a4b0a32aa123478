---------------------------- MODULE AppLifecycle ----------------------------
(***************************************************************************)
(* The life of the forwarding application (server/src/main.cpp): main      *)
(* launches the two threads of ctx[3] on worker lcores, watches the CMAC   *)
(* counters until SIGINT, asks the threads to stop, waits for lcores and   *)
(* returns, which destroys onic1 and then onic0 with their ports.          *)
(*                                                                         *)
(* The threads are reduced to what matters here: an iteration first reads  *)
(* the stop flag and then makes calls, each of which touches some ports.   *)
(***************************************************************************)
EXTENDS Integers, FiniteSets

CONSTANT Lcores   (* ids of the enabled lcores (EAL option -l)             *)

ASSUME LifecycleAssumption ==
  /\ Lcores \subseteq Nat /\ IsFiniteSet(Lcores)
  /\ Cardinality(Lcores) >= 4     (* main, the skipped one, and two workers *)

VARIABLES
  main_pc,    (* where main is                                             *)
  lcore_id,   (* its variable of that name                                 *)
  sigkill,    (* set by force_exit_handler                                 *)
  stopped,    (* contexts whose stop_flag is set                           *)
  worker,     (* state of each lcore: WAIT, or where its thread is         *)
  job,        (* the function each lcore was given                         *)
  reset,      (* Onics that have been reset by their destructor            *)
  ports       (* DPDK port ids whose device and mempool still exist        *)

mainVars == <<main_pc, lcore_id>>
devVars  == <<reset, ports>>
vars == <<main_pc, lcore_id, sigkill, stopped, worker, job, reset, ports>>

Contexts == 0..3                 (* NB_FORWARDS                            *)
Launched == 3                    (* the context main launches              *)
Ports    == 0..3                 (* onic0 has DPDK ports 0, 1; onic1 2, 3  *)
OnicOf(p) == p \div 2

(* Ports whose device or mempool a thread touches in its next call: ctx[3] *)
(* receives on DPDK port 3 and sends, on port 2, mbufs of the mempool of   *)
(* port 3; the mempool it looks up and counts before it sends is port 2's. *)
Uses(call) ==
  CASE call \in {"rx_burst", "enqueue"} -> {3}
    [] call = "count"                   -> {2}
    [] call = "tx_burst"                -> {2, 3}
    [] OTHER                            -> {}

(* The calls of the loop bodies: two in fpga_rx_thread, three in           *)
(* fpga_tx_thread (what a burst could not send is freed with it).          *)
Calls == {"rx_burst", "enqueue", "dequeue", "count", "tx_burst"}

MainLcore == CHOOSE l \in Lcores : \A k \in Lcores : l <= k

(* rte_get_next_lcore(i, skip_main = 1, wrap = 0)                          *)
NextLcore(i) ==
  CHOOSE l \in Lcores \ {MainLcore} :
     l > i /\ \A k \in Lcores \ {MainLcore} : k > i => l <= k

-----------------------------------------------------------------------------
(* rte_eal_remote_launch: the lcore leaves WAIT and enters the function.   *)
RemoteLaunch(l, j) ==
  /\ worker' = [worker EXCEPT ![l] = "check"]
  /\ job' = [job EXCEPT ![l] = j]

(* launch_software_forwarder(lcore_id, ctx[3]): the lcore main obtained    *)
(* first is passed over, the next two run the threads.                     *)
LaunchRx ==
  /\ main_pc = "launch_rx"
  /\ lcore_id' = NextLcore(lcore_id)
  /\ RemoteLaunch(lcore_id', "rx")
  /\ main_pc' = "launch_tx"
  /\ UNCHANGED <<sigkill, stopped, devVars>>

LaunchTx ==
  /\ main_pc = "launch_tx"
  /\ lcore_id' = NextLcore(lcore_id)
  /\ RemoteLaunch(lcore_id', "tx")
  /\ main_pc' = "monitor"
  /\ UNCHANGED <<sigkill, stopped, devVars>>

(* while (!sigkill): SIGINT is noticed at the head of the loop only.       *)
CheckSigkill ==
  /\ main_pc = "monitor"
  /\ main_pc' = IF sigkill THEN "stop" ELSE "stats0"
  /\ UNCHANGED <<lcore_id, sigkill, stopped, worker, job, devVars>>

(* The body reads the counters of onic0, then those of onic1, and sleeps.  *)
ReadStats ==
  /\ \/ main_pc = "stats0" /\ main_pc' = "stats1"
     \/ main_pc = "stats1" /\ main_pc' = "sleep"
     \/ main_pc = "sleep"  /\ main_pc' = "monitor"
  /\ UNCHANGED <<lcore_id, sigkill, stopped, worker, job, devVars>>

(* Faulty variants, named ..._<fault>, stand before the definitions they   *)
(* vary; the specification does not use them.                              *)
StopContext_NotTheLast ==
  /\ main_pc = "stop"
  /\ stopped' = Contexts \ {Launched}
  /\ main_pc' = "wait" /\ lcore_id' = 1
  /\ UNCHANGED <<sigkill, worker, job, devVars>>

(* for (auto &i : ctx) rte_atomic32_set(&i.stop_flag, 1), one context at a *)
(* time, in order.                                                         *)
StopContext ==
  /\ main_pc = "stop"
  /\ \E c \in Contexts \ stopped :
        /\ \A d \in Contexts \ stopped : c <= d
        /\ stopped' = stopped \cup {c}
  /\ IF stopped' = Contexts THEN main_pc' = "wait" /\ lcore_id' = 1
                            ELSE UNCHANGED mainVars
  /\ UNCHANGED <<sigkill, worker, job, devVars>>

WaitLcore_NoWait ==
  /\ main_pc = "wait" /\ lcore_id < Cardinality(Lcores)
  /\ lcore_id' = lcore_id + 1
  /\ UNCHANGED <<main_pc, sigkill, stopped, worker, job, devVars>>

(* for (lcore_id = 1; lcore_id < rte_lcore_count(); lcore_id++): a number  *)
(* that is not an enabled lcore is passed over, an enabled one is waited   *)
(* for until it is in WAIT again.                                          *)
WaitLcore ==
  /\ main_pc = "wait" /\ lcore_id < Cardinality(Lcores)
  /\ lcore_id \in Lcores => worker[lcore_id] = "WAIT"
  /\ lcore_id' = lcore_id + 1
  /\ UNCHANGED <<main_pc, sigkill, stopped, worker, job, devVars>>

(* Fault: waits for two lcores, one per thread, instead of every lcore.    *)
EndWait_AfterTwo ==
  /\ main_pc = "wait" /\ lcore_id > 2
  /\ main_pc' = "delay"
  /\ UNCHANGED <<lcore_id, sigkill, stopped, worker, job, devVars>>

EndWait ==
  /\ main_pc = "wait" /\ lcore_id >= Cardinality(Lcores)
  /\ main_pc' = "delay"
  /\ UNCHANGED <<lcore_id, sigkill, stopped, worker, job, devVars>>

(* rte_delay_ms(1000), and main returns.                                   *)
Delay ==
  /\ main_pc = "delay"
  /\ main_pc' = "teardown"
  /\ UNCHANGED <<lcore_id, sigkill, stopped, worker, job, devVars>>

(* ~Onic: global reset of the card; onic1 goes before onic0.               *)
ResetOnic(o) ==
  /\ main_pc = "teardown"
  /\ o \notin reset
  /\ \A p \in ports : OnicOf(p) <= o
  /\ reset' = reset \cup {o}
  /\ UNCHANGED <<mainVars, sigkill, stopped, worker, job, ports>>

(* ~OnicPort of the members of an Onic being destroyed, last one first:    *)
(* the port is closed, its mempool freed and its device removed.           *)
RemovePort(p) ==
  /\ main_pc = "teardown"
  /\ p \in ports /\ \A q \in ports : q <= p
  /\ OnicOf(p) \in reset
  /\ ports' = ports \ {p}
  /\ UNCHANGED <<mainVars, sigkill, stopped, worker, job, reset>>

(* The process ends: no lcore runs any more.                               *)
Return ==
  /\ main_pc = "teardown" /\ ports = {}
  /\ main_pc' = "returned"
  /\ UNCHANGED <<lcore_id, sigkill, stopped, worker, job, devVars>>

Teardown == (\E o \in {0, 1} : ResetOnic(o)) \/ (\E p \in Ports : RemovePort(p)) \/ Return

Main == \/ LaunchRx \/ LaunchTx \/ CheckSigkill \/ ReadStats \/ StopContext
        \/ WaitLcore \/ EndWait \/ Delay \/ Teardown

-----------------------------------------------------------------------------
(* One evaluation of a thread's loop condition.                            *)
CheckStop(l) ==
  /\ main_pc # "returned" /\ worker[l] = "check"
  /\ worker' = [worker EXCEPT ![l] =
                   IF Launched \in stopped THEN "WAIT"
                   ELSE IF job[l] = "rx" THEN "rx_burst" ELSE "dequeue"]
  /\ UNCHANGED <<mainVars, sigkill, stopped, job, devVars>>

(* The next call of the body, or back to the loop condition: an empty      *)
(* burst is a continue, and so is an empty dequeue.                        *)
AfterCall(call) ==
  CASE call = "rx_burst" -> {"check", "enqueue"}
    [] call = "dequeue"  -> {"check", "count"}
    [] call = "count"    -> {"tx_burst"}
    [] OTHER             -> {"check"}

Iterate(l) ==
  /\ main_pc # "returned" /\ worker[l] \in Calls
  /\ \E next \in AfterCall(worker[l]) : worker' = [worker EXCEPT ![l] = next]
  /\ UNCHANGED <<mainVars, sigkill, stopped, job, devVars>>

Thread(l) == CheckStop(l) \/ Iterate(l)

(* SIGINT, at any time.                                                    *)
Sigint ==
  /\ ~sigkill
  /\ sigkill' = TRUE
  /\ UNCHANGED <<mainVars, stopped, worker, job, devVars>>

(* The contexts are configured and main has asked for its first lcore.     *)
Init ==
  /\ main_pc = "launch_rx" /\ lcore_id = NextLcore(-1)
  /\ sigkill \in BOOLEAN /\ stopped = {}
  /\ worker = [l \in Lcores |-> "WAIT"] /\ job = [l \in Lcores |-> "none"]
  /\ reset = {} /\ ports = Ports

Next == Main \/ (\E l \in Lcores : Thread(l)) \/ Sigint

Spec == Init /\ [][Next]_vars

(* Every thread has an lcore of its own, and so has main.                  *)
FairSpec == Spec /\ WF_vars(Main) /\ \A l \in Lcores : WF_vars(Thread(l))

-----------------------------------------------------------------------------
TypeOK ==
  /\ main_pc \in {"launch_rx", "launch_tx", "monitor", "stats0", "stats1", "sleep",
                  "stop", "wait", "delay", "teardown", "returned"}
  /\ lcore_id \in Nat
  /\ sigkill \in BOOLEAN
  /\ stopped \subseteq Contexts
  /\ worker \in [Lcores -> {"WAIT", "check"} \cup Calls]
  /\ job \in [Lcores -> {"none", "rx", "tx"}]
  /\ reset \subseteq {0, 1} /\ ports \subseteq Ports

(* main.cpp, the loop before the Kafka test: "Wait for the lcore to        *)
(* finish".  Once the loop is over no thread runs.                         *)
WaitedFor ==
  main_pc \in {"delay", "teardown", "returned"} => \A l \in Lcores : worker[l] = "WAIT"

(* No thread makes a call on a port whose card has been reset or whose     *)
(* device and mempool are gone.                                            *)
NoUseAfterTeardown ==
  main_pc # "returned" =>
    \A l \in Lcores : \A p \in Uses(worker[l]) : p \in ports /\ OnicOf(p) \notin reset

(* SIGINT ends the process, whenever it comes.                             *)
SigintExits == sigkill ~> main_pc = "returned"
=============================================================================
