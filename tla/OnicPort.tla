------------------------------ MODULE OnicPort ------------------------------
(***************************************************************************)
(* One OnicPort (server/src/onic_port.h, onic_port.cpp): a QDMA port that  *)
(* is initialised by its constructor, may be reset and removed (by its     *)
(* owner, or by the two event callbacks in DPDK's interrupt thread), and   *)
(* is closed and removed by its destructor.                                *)
(*                                                                         *)
(* A call is a sequence of steps, one per call into DPDK; the steps of     *)
(* different threads interleave.  port_init and port_close are shared: op  *)
(* records on whose behalf they run.  A call that the destructor overtakes *)
(* goes on with the values it finds.                                       *)
(***************************************************************************)
EXTENDS Naturals

CONSTANTS
  Threads,     (* threads that call port_reset and port_remove             *)
  Owner,       (* the one that constructs and destroys the port            *)
  NumQueues,   (* num_queues of the PortInfo the owner passes              *)
  Faults,      (* DPDK calls that may fail                                 *)
  LockGarbage  (* what port_update_lock may hold after the constructor,    *)
               (* which initialises the lock of its parameter and not the  *)
               (* member's (TRUE: looks taken)                             *)

ASSUME PortAssumption ==
  /\ Owner \in Threads
  /\ NumQueues \in Nat \ {0}
  /\ Faults \subseteq {"capabilities", "dev_reset", "dev_remove", "init"}
  /\ LockGarbage \subseteq BOOLEAN

VARIABLES
  op,          (* the method each thread is in                             *)
  pc,          (* and where in it                                          *)
  lock,        (* pinfo.port_update_lock is taken                          *)
  num_queues,  (* pinfo.num_queues                                         *)
  device,      (* rte_pmd_qdma_get_device(port_id) != NULL                 *)
  queues,      (* queues set up on the device                              *)
  started,     (* between rte_eth_dev_start and rte_eth_dev_stop           *)
  pool,        (* the mempool named mbuf_pool_<port_id> exists             *)
  exited       (* why rte_exit ended the process, or "no"                  *)

devVars == <<device, queues, started, pool>>
vars == <<op, pc, lock, num_queues, devVars, exited>>

(* Thread t goes on to `to`; with "idle" its method returns.               *)
Goto(t, to) ==
  /\ pc' = [pc EXCEPT ![t] = to]
  /\ op' = IF to = "idle" THEN [op EXCEPT ![t] = "none"] ELSE op

At(t, from) == exited = "no" /\ pc[t] = from

(* The result of a DPDK call that fails only if it is among the faults.    *)
Outcome(call) == IF call \in Faults THEN BOOLEAN ELSE {TRUE}

-----------------------------------------------------------------------------
(* port_close: nothing happens when the device is gone or will not say     *)
(* what it is; otherwise stop, close and free, in that order.              *)
AfterClose(t) ==
  IF op[t] = "reset" THEN "dev_reset" ELSE "dev_remove"

CloseCheck(t) ==
  /\ At(t, "close")
  /\ \E ok \in Outcome("capabilities") :
        Goto(t, IF device /\ ok THEN "stop" ELSE AfterClose(t))
  /\ UNCHANGED <<lock, num_queues, devVars, exited>>

(* Faulty variants, named ..._<fault>, stand before the definitions they   *)
(* vary; the specification does not use them.                              *)
DevStop_FreesFirst(t) ==
  /\ At(t, "stop")
  /\ pool' = FALSE
  /\ Goto(t, "dev_close")
  /\ UNCHANGED <<lock, num_queues, device, queues, started, exited>>

DevStop(t) ==
  /\ At(t, "stop")
  /\ started' = FALSE
  /\ Goto(t, "dev_close")
  /\ UNCHANGED <<lock, num_queues, device, queues, pool, exited>>

(* Fault: the count of queues is left for port_init to find.               *)
DevClose_KeepsCount(t) ==
  /\ At(t, "dev_close")
  /\ queues' = 0
  /\ Goto(t, "free")
  /\ UNCHANGED <<lock, num_queues, device, started, pool, exited>>

DevClose(t) ==
  /\ At(t, "dev_close")
  /\ queues' = 0 /\ num_queues' = 0
  /\ Goto(t, "free")
  /\ UNCHANGED <<lock, device, started, pool, exited>>

(* Fault: the mempool is not found and not freed.                          *)
FreePool_Forgets(t) ==
  /\ At(t, "free")
  /\ Goto(t, AfterClose(t))
  /\ UNCHANGED <<lock, num_queues, devVars, exited>>

FreePool(t) ==
  /\ At(t, "free")
  /\ pool' = FALSE
  /\ Goto(t, AfterClose(t))
  /\ UNCHANGED <<lock, num_queues, device, queues, started, exited>>

-----------------------------------------------------------------------------
(* port_init: rte_exit when the name of the mempool is taken or any of the *)
(* later calls fails; -1 when the device is gone.                          *)
AfterInit(t) == IF op[t] = "construct" THEN "idle" ELSE "unlock"

CreatePool(t) ==
  /\ At(t, "init")
  /\ \/ ~device /\ Goto(t, AfterInit(t)) /\ UNCHANGED <<pool, exited>>
     \/ device /\ ~pool /\ pool' = TRUE /\ Goto(t, "configure") /\ UNCHANGED exited
     \/ device /\ pool /\ exited' = "name taken" /\ UNCHANGED <<op, pc, pool>>
  /\ UNCHANGED <<lock, num_queues, device, queues, started>>

(* Some later call of port_init fails, as each does on a device that is    *)
(* gone.                                                                   *)
InitFails(t) ==
  /\ At(t, "configure") \/ At(t, "start")
  /\ "init" \in Faults \/ ~device
  /\ exited' = "device"
  /\ UNCHANGED <<op, pc, lock, num_queues, devVars>>

Configure(t) ==
  /\ At(t, "configure") /\ device
  /\ queues' = num_queues
  /\ Goto(t, "start")
  /\ UNCHANGED <<lock, num_queues, device, started, pool, exited>>

DevStart(t) ==
  /\ At(t, "start") /\ device
  /\ started' = TRUE
  /\ Goto(t, AfterInit(t))
  /\ UNCHANGED <<lock, num_queues, device, queues, pool, exited>>

-----------------------------------------------------------------------------
(* The constructor has run when some thread calls a method, and nobody     *)
(* calls one once the destructor has begun.                                *)
Usable == \A t \in Threads : op[t] \notin {"construct", "destroy"}

(* port_reset and port_remove look for the device before they take the     *)
(* lock, and return when it is gone.                                       *)
Call(t, method) ==
  /\ At(t, "idle") /\ Usable
  /\ device
  /\ op' = [op EXCEPT ![t] = method] /\ pc' = [pc EXCEPT ![t] = "lock"]
  /\ UNCHANGED <<lock, num_queues, devVars, exited>>

(* Fault: the lock is taken whether or not it is free.                     *)
Lock_Ignored(t) ==
  /\ At(t, "lock")
  /\ lock' = TRUE
  /\ Goto(t, "close")
  /\ UNCHANGED <<num_queues, devVars, exited>>

Lock(t) ==
  /\ At(t, "lock")
  /\ ~lock
  /\ lock' = TRUE
  /\ Goto(t, "close")
  /\ UNCHANGED <<num_queues, devVars, exited>>

(* Fault: the error path returns without unlocking.                        *)
DevReset_KeepsLock(t) ==
  /\ At(t, "dev_reset")
  /\ \E ok \in Outcome("dev_reset") : Goto(t, IF device /\ ok THEN "init" ELSE "idle")
  /\ UNCHANGED <<lock, num_queues, devVars, exited>>

(* rte_eth_dev_reset: fails on a device that is gone; otherwise it stops   *)
(* the device, which the driver then takes down and sets up again.         *)
DevReset(t) ==
  /\ At(t, "dev_reset")
  /\ \E ok \in Outcome("dev_reset") :
        /\ Goto(t, IF device /\ ok THEN "init" ELSE "unlock")
        /\ queues' = IF device /\ ok THEN 0 ELSE queues
  /\ started' = (started /\ ~device)
  /\ UNCHANGED <<lock, num_queues, device, pool, exited>>

(* rte_pmd_qdma_dev_remove, of port_remove and of the destructor: fails on *)
(* a device that is gone, which both only print; otherwise the driver      *)
(* takes down a device that is still set up.                               *)
DevRemove(t) ==
  /\ At(t, "dev_remove")
  /\ \/ device' = FALSE /\ queues' = 0 /\ started' = FALSE
     \/ ("dev_remove" \in Faults \/ ~device) /\ UNCHANGED <<device, queues, started>>
  /\ Goto(t, IF op[t] = "remove" THEN "unlock" ELSE "gone")
  /\ UNCHANGED <<lock, num_queues, pool, exited>>

Unlock(t) ==
  /\ At(t, "unlock")
  /\ lock' = FALSE
  /\ Goto(t, "idle")
  /\ UNCHANGED <<num_queues, devVars, exited>>

(* ~OnicPort takes no lock and does not look whether another thread is in  *)
(* a method; it closes the port only if it has queues, and removes the     *)
(* device whether or not it is still there.                                *)
Destroy ==
  /\ At(Owner, "idle")
  /\ op' = [op EXCEPT ![Owner] = "destroy"]
  /\ pc' = [pc EXCEPT ![Owner] = IF num_queues # 0 THEN "close" ELSE "dev_remove"]
  /\ UNCHANGED <<lock, num_queues, devVars, exited>>

(* The constructor has copied the PortInfo and enters port_init; main      *)
(* passes the port ids 0 to 3 however many devices there are.              *)
Init ==
  /\ op = [t \in Threads |-> IF t = Owner THEN "construct" ELSE "none"]
  /\ pc = [t \in Threads |-> IF t = Owner THEN "init" ELSE "idle"]
  /\ lock \in LockGarbage
  /\ num_queues = NumQueues
  /\ device \in BOOLEAN /\ queues = 0 /\ started = FALSE /\ pool = FALSE
  /\ exited = "no"

(* What a thread does once it is inside a method.                          *)
Step(t) ==
  \/ CloseCheck(t) \/ DevStop(t) \/ DevClose(t) \/ FreePool(t)
  \/ CreatePool(t) \/ InitFails(t) \/ Configure(t) \/ DevStart(t)
  \/ Lock(t) \/ DevReset(t) \/ DevRemove(t) \/ Unlock(t)

Next ==
  \/ \E t \in Threads : Step(t) \/ Call(t, "reset") \/ Call(t, "remove")
  \/ Destroy

Spec == Init /\ [][Next]_vars

(* A thread that has entered a method keeps running; nobody need call one, *)
(* and the spinlock is not fair.                                           *)
Fairness(t) == WF_vars(Step(t))

FairSpec == Spec /\ \A t \in Threads : Fairness(t)

-----------------------------------------------------------------------------
Inside == {"close", "stop", "dev_close", "free", "dev_reset", "init",
           "configure", "start", "dev_remove", "unlock"}

TypeOK ==
  /\ op \in [Threads -> {"none", "construct", "reset", "remove", "destroy"}]
  /\ pc \in [Threads -> Inside \cup {"idle", "lock", "gone"}]
  /\ lock \in BOOLEAN
  /\ num_queues \in {0, NumQueues}
  /\ device \in BOOLEAN /\ started \in BOOLEAN /\ pool \in BOOLEAN
  /\ queues \in {0, NumQueues}
  /\ exited \in {"no", "name taken", "device"}

(* port_update_lock: the device, its queues and its mempool are worked on  *)
(* by one thread at a time, the constructor included.  The destructor,     *)
(* which does not take the lock, is the one that may come between.         *)
SoleOperator ==
  \A t, u \in Threads :
     pc[t] \in Inside /\ pc[u] \in Inside /\ t # u => "destroy" \in {op[t], op[u]}

(* A started device has no receive queue whose mempool has been freed:     *)
(* port_close stops and closes before it frees, also when the destructor   *)
(* closes the port in the middle of another thread's reset.                *)
QueuesBacked == started /\ queues > 0 => pool

(* A reset never meets the mempool of an earlier initialisation: as long   *)
(* as port_close can read the device's capabilities it gives the mempool   *)
(* back, through every mixture of resets, removals, failed ones and the    *)
(* destructor.                                                             *)
NoNameClash == exited # "name taken"

(* The device is started with the queues that its owner asked for only     *)
(* once: port_close has cleared num_queues when port_init reads it again,  *)
(* so that every reset, whatever became of the ones before it, brings the  *)
(* device back without a queue.                                            *)
ResetLosesQueues ==
  [][~started /\ started'
       => queues' = IF op[Owner] = "construct" THEN NumQueues ELSE 0]_vars

(* Whoever takes port_update_lock gives it back, on the error paths too,   *)
(* if the memory of the lock happened to look free.                        *)
LockReleased == ~lock => (lock ~> (~lock \/ exited # "no"))
=============================================================================
