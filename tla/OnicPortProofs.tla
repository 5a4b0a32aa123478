--------------------------- MODULE OnicPortProofs ---------------------------
(***************************************************************************)
(* An OnicPort under any number of callers and a destructor that does not  *)
(* wait for them: one call at a time works on the device, and no receive   *)
(* queue of a started device is left with a mempool that has been freed.   *)
(***************************************************************************)
EXTENDS OnicPort, TLAPS

Pcs == Inside \cup {"idle", "lock", "gone"}
Ops == {"none", "construct", "reset", "remove", "destroy"}

(* The steps of port_init and of port_close.                               *)
Initing == {"init", "configure", "start"}
Closing == {"close", "stop", "dev_close", "free"}

(* Who may be where: only the owner constructs, with nobody else in a      *)
(* method, and destroys; a thread past its lock call in a reset or a       *)
(* remove holds the lock.                                                  *)
Places ==
  /\ op \in [Threads -> Ops]
  /\ pc \in [Threads -> Pcs]
  /\ \A t \in Threads :
        /\ pc[t] = "idle" <=> op[t] = "none"
        /\ pc[t] \in {"lock", "unlock"} => op[t] \in {"reset", "remove"}
        /\ pc[t] = "dev_reset" => op[t] = "reset"
        /\ pc[t] = "gone" => op[t] = "destroy"
        /\ pc[t] \in Initing => op[t] \in {"construct", "reset"}
        /\ pc[t] \in Closing => op[t] \in {"reset", "remove", "destroy"}
        /\ pc[t] = "dev_remove" => op[t] \in {"remove", "destroy"}
        /\ pc[t] \in Inside /\ op[t] \in {"reset", "remove"} => lock = TRUE
        /\ op[t] \in {"construct", "destroy"} => t = Owner
        /\ op[t] = "construct" => /\ pc[t] \in Initing
                                  /\ \A u \in Threads : u # t => pc[u] = "idle"

PInv == Places /\ SoleOperator

(* A step of thread t leaves the others where they are.                    *)
LEMMA OthersStay ==
  ASSUME Places, NEW t \in Threads, NEW to \in Pcs, Goto(t, to)
  PROVE  /\ pc' \in [Threads -> Pcs] /\ op' \in [Threads -> Ops]
         /\ pc'[t] = to /\ op'[t] = (IF to = "idle" THEN "none" ELSE op[t])
         /\ \A u \in Threads : u # t => pc'[u] = pc[u] /\ op'[u] = op[u]
BY DEF Places, Goto, Ops

(* The places stay right and no second call gets inside when thread t      *)
(* moves from inside to anywhere but the lock.                             *)
LEMMA MoveInside ==
  ASSUME PInv, NEW t \in Threads, NEW to \in Pcs, Goto(t, to),
         pc[t] \in Inside, lock' = lock, to # "lock",
         to = "unlock" => op[t] \in {"reset", "remove"},
         to = "dev_reset" => op[t] = "reset",
         to = "gone" => op[t] = "destroy",
         to \in Initing => op[t] \in {"construct", "reset"},
         to \in Closing => op[t] \in {"reset", "remove", "destroy"},
         to = "dev_remove" => op[t] \in {"remove", "destroy"},
         op[t] = "construct" => to \in Initing \/ to = "idle"
  PROVE  PInv'
<1>0. Places /\ SoleOperator
  BY DEF PInv
<1>1. /\ pc' \in [Threads -> Pcs] /\ op' \in [Threads -> Ops]
      /\ pc'[t] = to /\ op'[t] = (IF to = "idle" THEN "none" ELSE op[t])
      /\ \A u \in Threads : u # t => pc'[u] = pc[u] /\ op'[u] = op[u]
  BY <1>0, OthersStay
<1>2. pc[t] \notin {"idle", "lock", "gone"} /\ op[t] # "none"
  BY <1>0 DEF Inside, Initing, Closing, Places
<1>3. \A u \in Threads : pc'[u] \in Inside => pc[u] \in Inside /\ op'[u] = op[u]
  BY <1>1 DEF Inside
<1>4. SoleOperator'
  BY <1>0, <1>3 DEF SoleOperator
<1>5. ASSUME NEW u \in Threads
      PROVE  /\ pc'[u] = "idle" <=> op'[u] = "none"
             /\ pc'[u] \in {"lock", "unlock"} => op'[u] \in {"reset", "remove"}
             /\ pc'[u] = "dev_reset" => op'[u] = "reset"
             /\ pc'[u] = "gone" => op'[u] = "destroy"
             /\ pc'[u] \in Initing => op'[u] \in {"construct", "reset"}
             /\ pc'[u] \in Closing => op'[u] \in {"reset", "remove", "destroy"}
             /\ pc'[u] = "dev_remove" => op'[u] \in {"remove", "destroy"}
             /\ pc'[u] \in Inside /\ op'[u] \in {"reset", "remove"} => lock' = TRUE
             /\ op'[u] \in {"construct", "destroy"} => u = Owner
             /\ op'[u] = "construct" => pc'[u] \in Initing
  BY <1>0, <1>1, <1>2 DEF Places, Inside, Initing, Closing
<1>6. ASSUME NEW u \in Threads, op'[u] = "construct",
             NEW v \in Threads, v # u
      PROVE  pc'[v] = "idle"
  <2>1. op[u] = "construct"
    BY <1>1, <1>6
  <2>2. pc[v] = "idle"
    BY <1>0, <1>6, <2>1 DEF Places
  <2>3. v # t
    BY <1>2, <2>2
  <2> QED
    BY <1>1, <2>2, <2>3
<1>7. Places'
  BY ZenonT(30), <1>1, <1>5, <1>6 DEF Places
<1> QED
  BY <1>4, <1>7 DEF PInv

(* Calls from outside: entering a method, the lock, and the destructor.    *)
LEMMA EnterKeeps ==
  ASSUME PInv, NEW t \in Threads,
         Call(t, "reset") \/ Call(t, "remove") \/ Lock(t) \/ Destroy
  PROVE  PInv'
<1> USE DEF PInv
<1>1. ASSUME NEW m \in {"reset", "remove"}, Call(t, m) PROVE PInv'
  <2>1. /\ pc[t] = "idle" /\ pc' = [pc EXCEPT ![t] = "lock"] /\ op' = [op EXCEPT ![t] = m]
        /\ \A u \in Threads : op[u] # "construct"
        /\ lock' = lock
    BY <1>1 DEF Call, At, Usable
  <2>2. /\ pc' \in [Threads -> Pcs] /\ op' \in [Threads -> Ops]
        /\ pc'[t] = "lock" /\ op'[t] = m
        /\ \A u \in Threads : u # t => pc'[u] = pc[u] /\ op'[u] = op[u]
    BY <2>1 DEF Places, Pcs, Ops
  <2>3. Places'
    BY <2>1, <2>2 DEF Places, Inside, Initing, Closing
  <2>4. SoleOperator'
    BY <2>2 DEF SoleOperator, Inside
  <2> QED
    BY <2>3, <2>4
<1>2. CASE Lock(t)
  <2>1. pc[t] = "lock" /\ ~lock /\ lock' = TRUE /\ Goto(t, "close")
    BY <1>2 DEF Lock, At
  <2>2. /\ pc' \in [Threads -> Pcs] /\ op' = op
        /\ pc'[t] = "close" /\ op[t] \in {"reset", "remove"}
        /\ \A u \in Threads : u # t => pc'[u] = pc[u]
    BY <2>1 DEF Places, Goto, Pcs, Inside
  <2>3. \A u \in Threads : op[u] # "construct"
    BY <2>1, <2>2 DEF Places, Initing
  <2>4. \A u \in Threads : pc[u] \in Inside => op[u] = "destroy"
    BY <2>1, <2>3 DEF Places, Inside, Initing, Closing, Ops
  <2>5. Places'
    BY <2>1, <2>2, <2>3 DEF Places, Inside, Initing, Closing
  <2>6. SoleOperator'
    BY <2>2, <2>4 DEF SoleOperator
  <2> QED
    BY <2>5, <2>6
<1>3. CASE Destroy
  <2> DEFINE to == IF num_queues # 0 THEN "close" ELSE "dev_remove"
  <2>1. /\ pc[Owner] = "idle" /\ lock' = lock
        /\ pc' = [pc EXCEPT ![Owner] = to] /\ op' = [op EXCEPT ![Owner] = "destroy"]
    BY <1>3 DEF Destroy, At
  <2>2. to \in {"close", "dev_remove"} /\ Owner \in Threads
    BY PortAssumption
  <2> HIDE DEF to
  <2>3. /\ pc' \in [Threads -> Pcs] /\ op' \in [Threads -> Ops]
        /\ pc'[Owner] = to /\ op'[Owner] = "destroy"
        /\ \A u \in Threads : u # Owner => pc'[u] = pc[u] /\ op'[u] = op[u]
    BY <2>1, <2>2 DEF Places, Pcs, Ops, Inside
  <2>4. \A u \in Threads : op[u] # "construct"
    BY <2>1, <2>2 DEF Places
  <2>5. Places'
    BY <2>1, <2>2, <2>3, <2>4 DEF Places, Inside, Initing, Closing
  <2>6. SoleOperator'
    BY <2>3 DEF SoleOperator
  <2> QED
    BY <2>5, <2>6
<1> QED
  BY <1>1, <1>2, <1>3

(* The steps of port_close and port_init.                                  *)
LEMMA CloseInitKeeps ==
  ASSUME PInv, NEW t \in Threads,
         \/ CloseCheck(t) \/ DevStop(t) \/ DevClose(t) \/ FreePool(t)
         \/ CreatePool(t) \/ Configure(t) \/ DevStart(t)
  PROVE  PInv'
<1>1. CASE CloseCheck(t) \/ DevStop(t) \/ DevClose(t) \/ FreePool(t)
  <2>1. PICK to \in {"stop", "dev_close", "free", "dev_reset", "dev_remove"} :
           /\ Goto(t, to) /\ pc[t] \in Closing /\ (to = "dev_reset" => op[t] = "reset")
           /\ (to = "dev_remove" => op[t] # "reset") /\ lock' = lock
    BY <1>1 DEF CloseCheck, DevStop, DevClose, FreePool, At, AfterClose, Closing
  <2>2. op[t] \in {"reset", "remove", "destroy"}
    BY <2>1 DEF PInv, Places
  <2> QED
    BY <2>1, <2>2, MoveInside DEF Inside, Initing, Closing, Pcs
<1>2. CASE (CreatePool(t) /\ ~UNCHANGED <<op, pc>>) \/ Configure(t) \/ DevStart(t)
  <2>1. PICK to \in {"configure", "start", "idle", "unlock"} :
           /\ Goto(t, to) /\ pc[t] \in Initing /\ (to = "unlock" => op[t] # "construct")
           /\ lock' = lock
    BY <1>2 DEF CreatePool, Configure, DevStart, At, AfterInit, Initing
  <2>2. op[t] \in {"construct", "reset"}
    BY <2>1 DEF PInv, Places
  <2> QED
    BY <2>1, <2>2, MoveInside DEF Inside, Initing, Closing, Pcs
<1>3. CASE CreatePool(t) /\ UNCHANGED <<op, pc>>
  BY <1>3 DEF CreatePool, PInv, Places, SoleOperator
<1> QED
  BY <1>1, <1>2, <1>3

(* The steps past port_close: device reset and removal, and the unlock.    *)
LEMMA FinishKeeps ==
  ASSUME PInv, NEW t \in Threads, DevReset(t) \/ DevRemove(t) \/ Unlock(t) \/ InitFails(t)
  PROVE  PInv'
<1>0. Places /\ SoleOperator
  BY DEF PInv
<1>1. CASE DevReset(t)
  <2>1. PICK to \in {"init", "unlock"} :
           Goto(t, to) /\ pc[t] = "dev_reset" /\ lock' = lock
    BY <1>1 DEF DevReset, At
  <2>2. op[t] = "reset"
    BY <1>0, <2>1 DEF Places
  <2> QED
    BY <2>1, <2>2, MoveInside DEF Inside, Initing, Closing, Pcs
<1>2. CASE DevRemove(t)
  <2>1. PICK to \in {"unlock", "gone"} :
           /\ Goto(t, to) /\ pc[t] = "dev_remove"
           /\ (to = "unlock" <=> op[t] = "remove") /\ lock' = lock
    BY <1>2 DEF DevRemove, At
  <2>2. op[t] \in {"remove", "destroy"}
    BY <1>0, <2>1 DEF Places
  <2> QED
    BY <2>1, <2>2, MoveInside DEF Inside, Initing, Closing, Pcs
<1>3. CASE Unlock(t)
  <2>1. pc[t] = "unlock" /\ Goto(t, "idle") /\ lock' = FALSE
    BY <1>3 DEF Unlock, At
  <2>2. /\ pc' \in [Threads -> Pcs] /\ op' \in [Threads -> Ops]
        /\ pc'[t] = "idle" /\ op'[t] = "none" /\ op[t] \in {"reset", "remove"}
        /\ \A u \in Threads : u # t => pc'[u] = pc[u] /\ op'[u] = op[u]
    BY ZenonT(30), <1>0, <2>1, OthersStay DEF Places, Pcs
  <2>3. \A u \in Threads : u # t /\ pc[u] \in Inside => op[u] \notin {"reset", "remove"}
    BY <1>0, <2>1, <2>2 DEF SoleOperator, Inside
  <2>4. \A u \in Threads : op[u] # "construct"
    BY <1>0, <2>1, <2>2 DEF Places, Initing
  <2>5. Places'
    BY <1>0, <2>1, <2>2, <2>3, <2>4 DEF Places, Inside, Initing, Closing
  <2>6. SoleOperator'
    BY <1>0, <2>2 DEF SoleOperator, Inside
  <2> QED
    BY <2>5, <2>6 DEF PInv
<1>4. CASE InitFails(t)
  BY <1>0, <1>4 DEF InitFails, PInv, Places, SoleOperator
<1> QED
  BY <1>1, <1>2, <1>3, <1>4

LEMMA PortInvariant == Spec => []PInv
<1>1. Init => PInv
  BY ZenonT(30) DEF Init, PInv, Places, SoleOperator, Pcs, Ops, Inside, Initing, Closing
<1>2. ASSUME PInv, [Next]_vars PROVE PInv'
  <2>1. CASE UNCHANGED vars
    BY <1>2, <2>1 DEF vars, PInv, Places, SoleOperator
  <2>2. CASE Destroy
    BY <1>2, <2>2, PortAssumption, EnterKeeps
  <2>3. ASSUME NEW t \in Threads, Step(t) \/ Call(t, "reset") \/ Call(t, "remove")
        PROVE  PInv'
    <3>1. CASE CloseCheck(t) \/ DevStop(t) \/ DevClose(t) \/ FreePool(t)
               \/ CreatePool(t) \/ Configure(t) \/ DevStart(t)
      BY <1>2, <3>1, CloseInitKeeps
    <3>2. CASE Lock(t) \/ Call(t, "reset") \/ Call(t, "remove")
      BY <1>2, <3>2, EnterKeeps
    <3>3. CASE DevReset(t) \/ DevRemove(t) \/ Unlock(t) \/ InitFails(t)
      BY <1>2, <3>3, FinishKeeps
    <3> QED
      BY <2>3, <3>1, <3>2, <3>3 DEF Step
  <2> QED
    BY <1>2, <2>1, <2>2, <2>3 DEF Next
<1> QED
  BY <1>1, <1>2, PTL DEF Spec

(* port_update_lock does what it is for: whatever it holds at first and    *)
(* however many threads call port_reset and port_remove, one at a time     *)
(* works on the device, the destructor apart.                              *)
THEOREM PortSoleOperator == Spec => []SoleOperator
BY PortInvariant, PTL DEF PInv

-----------------------------------------------------------------------------
(* The values of the variables, whoever is where.                          *)
Values ==
  /\ lock \in BOOLEAN
  /\ num_queues \in {0, NumQueues}
  /\ device \in BOOLEAN /\ started \in BOOLEAN /\ pool \in BOOLEAN
  /\ queues \in {0, NumQueues}
  /\ exited \in {"no", "name taken", "device"}

LEMMA PortValues == Spec => []Values
<1>1. Init => Values
  BY PortAssumption DEF Init, Values
<1>2. ASSUME Values, [Next]_vars PROVE Values'
  <2> USE DEF Values
  <2>1. CASE UNCHANGED vars
    BY <1>2, <2>1 DEF vars, devVars
  <2>2. CASE Destroy
    BY <1>2, <2>2 DEF Destroy, devVars
  <2>3. ASSUME NEW t \in Threads, Step(t) PROVE Values'
    <3>1. CASE CloseCheck(t) \/ DevStop(t) \/ DevClose(t) \/ FreePool(t)
      BY <1>2, <3>1 DEF CloseCheck, DevStop, DevClose, FreePool, devVars
    <3>2. CASE CreatePool(t) \/ InitFails(t) \/ Configure(t) \/ DevStart(t)
      BY <1>2, <3>2 DEF CreatePool, InitFails, Configure, DevStart, devVars
    <3>3. CASE Lock(t) \/ Unlock(t)
      BY <1>2, <3>3 DEF Lock, Unlock, devVars
    <3>4. CASE DevReset(t) \/ DevRemove(t)
      BY <1>2, <3>4 DEF DevReset, DevRemove, devVars
    <3> QED
      BY <2>3, <3>1, <3>2, <3>3, <3>4 DEF Step
  <2>4. ASSUME NEW t \in Threads, Call(t, "reset") \/ Call(t, "remove") PROVE Values'
    BY <1>2, <2>4 DEF Call, devVars
  <2> QED
    BY <1>2, <2>1, <2>2, <2>3, <2>4 DEF Next
<1> QED
  BY <1>1, <1>2, PTL DEF Spec

(* Types of an OnicPort: a thread is at a statement of a method, and the   *)
(* device has no queues or the number that its owner asked for.            *)
THEOREM PortTypeOK == Spec => []TypeOK
<1>1. PInv /\ Values => TypeOK
  BY DEF PInv, Places, Values, TypeOK, Ops, Pcs
<1> QED
  BY <1>1, PortInvariant, PortValues, PTL

-----------------------------------------------------------------------------
(* How many queues a port has.  Only the owner constructs it, with the     *)
(* queues it asked for; a port without a mempool has been closed since, or *)
(* never was a device.  Once num_queues is 0 it stays 0, so that what is   *)
(* said of one thread survives the steps of the others.                    *)
QueueCount ==
  /\ queues # 0 => device /\ num_queues # 0
  /\ op[Owner] = "construct" =>
        /\ started = FALSE /\ num_queues = NumQueues
        /\ pc[Owner] \in {"configure", "start"} => pool = TRUE
        /\ pc[Owner] = "start" => queues = NumQueues
  /\ op[Owner] # "construct" /\ device /\ ~pool => num_queues = 0
  /\ \A t \in Threads :
        /\ pc[t] = "free" => num_queues = 0
        /\ op[t] = "reset" /\ pc[t] \in {"configure", "start"} => num_queues = 0
        /\ op[t] = "reset" /\ pc[t] = "start" => queues = 0

(* What it says of a thread that is in a method.                           *)
LEMMA CountInside ==
  ASSUME PInv, QueueCount, NEW t \in Threads, pc[t] # "idle"
  PROVE  /\ op[t] = "construct" <=> op[Owner] = "construct"
         /\ op[t] = "construct" =>
               /\ t = Owner /\ pc[t] \in Initing
               /\ started = FALSE /\ num_queues = NumQueues
               /\ pc[t] \in {"configure", "start"} => pool = TRUE
               /\ pc[t] = "start" => queues = NumQueues
         /\ op[t] # "construct" /\ device /\ ~pool => num_queues = 0
         /\ pc[t] = "free" => num_queues = 0
         /\ op[t] = "reset" /\ pc[t] \in {"configure", "start"} => num_queues = 0
         /\ op[t] = "reset" /\ pc[t] = "start" => queues = 0
         /\ queues # 0 => device /\ num_queues # 0
<1>1. op[t] = "construct" => t = Owner /\ pc[t] \in Initing
  BY DEF PInv, Places
<1>2. op[Owner] = "construct" => t = Owner
  BY PortAssumption DEF PInv, Places
<1> QED
  BY <1>1, <1>2 DEF QueueCount

(* A step of thread t keeps QueueCount if it does so for t.                *)
LEMMA CountStep ==
  ASSUME PInv, QueueCount, NEW t \in Threads, NEW to \in Pcs, Goto(t, to), pc[t] # "idle",
         num_queues' \in {0, num_queues}, queues' \in {0, queues, num_queues},
         queues' # 0 => device' /\ num_queues' # 0,
         op[t] = "construct" /\ to # "idle" =>
            /\ started' = FALSE /\ num_queues' = NumQueues
            /\ to \in {"configure", "start"} => pool' = TRUE
            /\ to = "start" => queues' = NumQueues,
         (op[t] # "construct" \/ to = "idle") /\ device' /\ ~pool' => num_queues' = 0,
         to = "free" => num_queues' = 0,
         op[t] = "reset" /\ to \in {"configure", "start"} => num_queues' = 0,
         op[t] = "reset" /\ to = "start" => queues' = 0
  PROVE  QueueCount'
<1>1. /\ pc'[t] = to /\ op'[t] = (IF to = "idle" THEN "none" ELSE op[t])
      /\ \A u \in Threads : u # t => pc'[u] = pc[u] /\ op'[u] = op[u]
  BY OthersStay DEF PInv
<1>2. /\ op[t] = "construct" => t = Owner
      /\ op[Owner] = "construct" => t = Owner
      /\ Owner \in Threads
  BY CountInside, PortAssumption
<1>3. op'[Owner] = "construct" => t = Owner /\ op[t] = "construct" /\ to # "idle"
  BY <1>1, <1>2
<1>4. op'[Owner] # "construct" => op[t] # "construct" \/ to = "idle"
  BY <1>1, <1>2
<1>5. ASSUME NEW u \in Threads
      PROVE  /\ pc'[u] = "free" => num_queues' = 0
             /\ op'[u] = "reset" /\ pc'[u] \in {"configure", "start"} => num_queues' = 0
             /\ op'[u] = "reset" /\ pc'[u] = "start" => queues' = 0
  <2>1. CASE u = t
    BY <1>1, <2>1
  <2>2. CASE u # t
    BY <1>1, <2>2 DEF QueueCount
  <2> QED
    BY <2>1, <2>2
<1> QED
  BY <1>1, <1>3, <1>4, <1>5 DEF QueueCount

LEMMA CountKeeps ==
  ASSUME PInv, QueueCount, NEW t \in Threads, Step(t)
  PROVE  QueueCount'
<1>0. Places
  BY DEF PInv
<1>in. pc[t] # "idle" =>
         /\ op[t] = "construct" =>
               /\ pc[t] \in Initing /\ started = FALSE /\ num_queues = NumQueues
               /\ pc[t] \in {"configure", "start"} => pool = TRUE
               /\ pc[t] = "start" => queues = NumQueues
         /\ op[t] # "construct" /\ device /\ ~pool => num_queues = 0
         /\ pc[t] = "free" => num_queues = 0
         /\ op[t] = "reset" /\ pc[t] \in {"configure", "start"} => num_queues = 0
         /\ op[t] = "reset" /\ pc[t] = "start" => queues = 0
         /\ queues # 0 => device /\ num_queues # 0
  BY CountInside
<1>1. CASE CloseCheck(t)
  <2>1. PICK to \in {"stop", "dev_reset", "dev_remove"} :
           /\ Goto(t, to) /\ pc[t] = "close"
           /\ UNCHANGED <<num_queues, device, queues, started, pool>>
    BY <1>1 DEF CloseCheck, At, AfterClose, devVars
  <2> QED
    BY <1>in, <2>1, CountStep DEF Pcs, Inside, Initing
<1>2. CASE DevStop(t)
  <2>1. Goto(t, "dev_close") /\ pc[t] = "stop" /\ UNCHANGED <<num_queues, device, queues, pool>>
    BY <1>2 DEF DevStop, At
  <2> QED
    BY <1>in, <2>1, CountStep DEF Pcs, Inside, Initing
<1>3. CASE DevClose(t)
  <2>1. Goto(t, "free") /\ pc[t] = "dev_close" /\ num_queues' = 0 /\ queues' = 0
    BY <1>3 DEF DevClose, At
  <2> QED
    BY <1>in, <2>1, CountStep DEF Pcs, Inside, Initing
<1>4. CASE FreePool(t)
  <2>1. PICK to \in {"dev_reset", "dev_remove"} :
           Goto(t, to) /\ pc[t] = "free" /\ UNCHANGED <<num_queues, queues, device>>
    BY <1>4 DEF FreePool, At, AfterClose
  <2> QED
    BY <1>in, <2>1, CountStep DEF Pcs, Inside, Initing
<1>taken. CASE CreatePool(t) /\ UNCHANGED <<op, pc, pool>>
  BY <1>taken DEF CreatePool, QueueCount
<1>5. CASE CreatePool(t) /\ ~UNCHANGED <<op, pc, pool>>
  <2>1. PICK to \in {"idle", "unlock", "configure"} :
           /\ Goto(t, to) /\ pc[t] = "init" /\ UNCHANGED <<num_queues, device, queues, started>>
           /\ to = "configure" => device /\ ~pool /\ pool' = TRUE
           /\ to # "configure" => ~device
           /\ op[t] = "construct" => to # "unlock"
    BY <1>5 DEF CreatePool, At, AfterInit
  <2> QED
    BY <1>in, <2>1, CountStep DEF Pcs, Inside, Initing
<1>6. CASE InitFails(t)
  BY <1>6 DEF InitFails, devVars, QueueCount
<1>7. CASE Configure(t)
  <2>1. /\ Goto(t, "start") /\ pc[t] = "configure" /\ queues' = num_queues /\ device
        /\ UNCHANGED <<num_queues, device, started, pool>>
    BY <1>7 DEF Configure, At
  <2> QED
    BY <1>in, <2>1, CountStep DEF Pcs, Inside, Initing
<1>8. CASE DevStart(t)
  <2>1. PICK to \in {"idle", "unlock"} :
           Goto(t, to) /\ pc[t] = "start" /\ UNCHANGED <<num_queues, device, queues, pool>>
           /\ (op[t] = "construct" => to = "idle")
    BY <1>8 DEF DevStart, At, AfterInit
  <2> QED
    BY <1>in, <2>1, CountStep DEF Pcs, Inside, Initing
<1>9. CASE Lock(t)
  <2>1. Goto(t, "close") /\ pc[t] = "lock" /\ UNCHANGED <<num_queues, device, queues, pool>>
    BY <1>9 DEF Lock, At, devVars
  <2> QED
    BY <1>in, <2>1, CountStep DEF Pcs, Inside, Initing
<1>10. CASE DevReset(t)
  <2>1. PICK to \in {"init", "unlock"} :
           /\ Goto(t, to) /\ pc[t] = "dev_reset" /\ queues' \in {0, queues}
           /\ UNCHANGED <<num_queues, device, pool>>
    BY <1>10 DEF DevReset, At
  <2>2. op[t] = "reset"
    BY <1>0, <2>1 DEF Places
  <2> QED
    BY <1>in, <2>1, <2>2, CountStep DEF Pcs, Inside, Initing
<1>11. CASE DevRemove(t)
  <2>1. PICK to \in {"unlock", "gone"} :
           /\ Goto(t, to) /\ pc[t] = "dev_remove" /\ UNCHANGED <<num_queues, pool>>
           /\ \/ device' = FALSE /\ queues' = 0
              \/ UNCHANGED <<device, queues>>
    BY <1>11 DEF DevRemove, At
  <2>2. op[t] # "construct"
    BY <1>0, <2>1 DEF Places
  <2>3. queues' \in {0, queues} /\ (queues' # 0 => device' /\ num_queues' # 0)
    BY <1>in, <2>1
  <2>4. device' /\ ~pool' => num_queues' = 0
    <3>1. SUFFICES ASSUME device', ~pool' PROVE num_queues = 0
      BY <2>1
    <3>2. CASE device' = FALSE
      BY <3>1, <3>2
    <3>3. CASE UNCHANGED <<device, queues>>
      <4>1. device /\ ~pool
        BY <2>1, <3>1, <3>3
      <4> QED
        BY <1>in, <2>1, <2>2, <4>1
    <3> QED
      BY <2>1, <3>2, <3>3
  <2> QED
    BY <1>in, <2>1, <2>2, <2>3, <2>4, CountStep DEF Pcs, Inside, Initing
<1>12. CASE Unlock(t)
  <2>1. Goto(t, "idle") /\ pc[t] = "unlock" /\ UNCHANGED <<num_queues, device, queues, pool>>
    BY <1>12 DEF Unlock, At, devVars
  <2> QED
    BY <1>in, <2>1, CountStep DEF Pcs, Inside, Initing
<1> QED
  BY <1>1, <1>2, <1>3, <1>4, <1>taken, <1>5, <1>6, <1>7, <1>8, <1>9, <1>10, <1>11, <1>12 DEF Step

LEMMA PortQueueCount == Spec => []QueueCount
<1>1. Init => QueueCount
  BY PortAssumption DEF Init, QueueCount
<1>2. ASSUME PInv, QueueCount, [Next]_vars PROVE QueueCount'
  <2>1. CASE UNCHANGED vars
    BY <1>2, <2>1 DEF vars, devVars, QueueCount
  <2>2. CASE Destroy
    <3>1. PICK to \in {"close", "dev_remove"} :
             /\ pc' = [pc EXCEPT ![Owner] = to] /\ op' = [op EXCEPT ![Owner] = "destroy"]
             /\ pc[Owner] = "idle" /\ UNCHANGED <<num_queues, device, queues, started, pool>>
      BY <2>2 DEF Destroy, At, devVars
    <3>2. op[Owner] = "none"
      BY <1>2, <3>1, PortAssumption DEF PInv, Places
    <3> QED
      BY <1>2, <3>1, <3>2, PortAssumption DEF QueueCount, PInv, Places
  <2>3. ASSUME NEW t \in Threads, Call(t, "reset") \/ Call(t, "remove")
        PROVE  QueueCount'
    <3>1. PICK m \in {"reset", "remove"} :
             /\ op' = [op EXCEPT ![t] = m] /\ pc' = [pc EXCEPT ![t] = "lock"]
             /\ op[t] # "construct" /\ op[Owner] # "construct"
             /\ UNCHANGED <<num_queues, device, queues, started, pool>>
      BY <2>3, PortAssumption DEF Call, Usable, devVars
    <3> QED
      BY <1>2, <3>1, PortAssumption DEF QueueCount, PInv, Places
  <2>4. ASSUME NEW t \in Threads, Step(t) PROVE QueueCount'
    BY <1>2, <2>4, CountKeeps
  <2> QED
    BY <1>2, <2>1, <2>2, <2>3, <2>4 DEF Next
<1> QED
  BY <1>1, <1>2, PortInvariant, PTL DEF Spec

(* port_close never frees a mempool that a started device still fills its  *)
(* receive queues from, not even when device calls fail half-way or the    *)
(* destructor closes the port in the middle of a reset.                    *)
THEOREM PortQueuesBacked == Spec => []QueuesBacked
<1>1. QueueCount /\ Values => QueuesBacked
  <2> SUFFICES ASSUME QueueCount, Values, started, queues > 0 PROVE pool
    BY DEF QueuesBacked
  <2>1. queues # 0
    <3>1. ~(0 > 0)
      OBVIOUS
    <3> QED
      BY <3>1
  <2>2. device /\ num_queues # 0
    BY <2>1 DEF QueueCount
  <2>3. op[Owner] # "construct"
    BY DEF QueueCount
  <2> QED
    BY <2>2, <2>3 DEF QueueCount
<1> QED
  BY <1>1, PortQueueCount, PortValues, PTL

-----------------------------------------------------------------------------
(* The mempool is gone when its name is about to be taken again.           *)
PoolGone ==
  \A t \in Threads : pc[t] \in {"init", "dev_reset"} /\ device => ~pool

NamesInv == PoolGone /\ NoNameClash

(* A step of thread t keeps PoolGone if it does so for t: a mempool is     *)
(* only created by the one thread that initialises the port.               *)
LEMMA PoolGoneStep ==
  ASSUME PInv, PoolGone, NEW t \in Threads, NEW to \in Pcs, Goto(t, to),
         pc[t] = "init" \/ ((pool' => pool) /\ (device' => device)),
         to \in {"init", "dev_reset"} /\ device' => ~pool'
  PROVE  PoolGone'
<1> USE DEF PInv
<1>1. ASSUME NEW u \in Threads, u # t, pc'[u] \in {"init", "dev_reset"}, device'
      PROVE  ~pool'
  <2>1. pc[u] \in {"init", "dev_reset"} /\ pc[u] \in Inside
    BY <1>1, OthersStay DEF Inside
  <2>2. op[u] \in {"construct", "reset"}
    BY <2>1 DEF Places, Initing
  <2>3. pc[t] # "init"
    <3>1. pc[t] = "init" => op[t] \in {"construct", "reset"} /\ pc[t] \in Inside
      BY DEF Places, Initing, Inside
    <3> QED
      BY <1>1, <2>1, <2>2, <3>1 DEF SoleOperator
  <2> QED
    BY <1>1, <2>1, <2>3 DEF PoolGone
<1>2. pc'[t] = to
  BY OthersStay
<1> QED
  BY <1>1, <1>2 DEF PoolGone

(* As long as the capabilities of a device that is there can be read,      *)
(* port_close gives the mempool back before port_reset asks for it again.  *)
LEMMA NamesStep ==
  ASSUME PInv, Values, NamesInv, "capabilities" \notin Faults,
         NEW t \in Threads, Step(t)
  PROVE  NamesInv'
<1> USE DEF NamesInv
<1>1. CASE CloseCheck(t)
  <2>1. PICK to \in {"stop", "dev_reset", "dev_remove"} :
           /\ Goto(t, to) /\ pc[t] = "close" /\ UNCHANGED <<device, pool, exited>>
           /\ device => to = "stop"
    BY <1>1 DEF CloseCheck, At, AfterClose, Outcome, devVars
  <2> QED
    BY <2>1, PoolGoneStep DEF NoNameClash, Pcs, Inside
<1>2. CASE DevStop(t) \/ DevClose(t) \/ Configure(t) \/ DevStart(t) \/ Unlock(t) \/ Lock(t)
  <2>1. PICK to \in {"dev_close", "free", "start", "idle", "unlock", "close"} :
           Goto(t, to) /\ UNCHANGED <<device, pool, exited>>
    BY <1>2 DEF DevStop, DevClose, Configure, DevStart, Unlock, Lock, AfterInit, devVars
  <2> QED
    BY <2>1, PoolGoneStep DEF NoNameClash, Pcs, Inside
<1>3. CASE FreePool(t)
  <2>1. PICK to \in {"dev_reset", "dev_remove"} :
           Goto(t, to) /\ pool' = FALSE /\ UNCHANGED <<device, exited>>
    BY <1>3 DEF FreePool, AfterClose
  <2> QED
    BY <2>1, PoolGoneStep DEF NoNameClash, Pcs, Inside
<1>4. CASE CreatePool(t)
  <2>1. PICK to \in {"idle", "unlock", "configure"} :
           Goto(t, to) /\ pc[t] = "init" /\ UNCHANGED exited
    BY <1>4 DEF CreatePool, At, AfterInit, PoolGone
  <2> QED
    BY <2>1, PoolGoneStep DEF NoNameClash, Pcs, Inside
<1>5. CASE InitFails(t)
  BY <1>5 DEF InitFails, devVars, PoolGone, NoNameClash
<1>6. CASE DevReset(t)
  <2>1. PICK to \in {"init", "unlock"} :
           /\ Goto(t, to) /\ pc[t] = "dev_reset"
           /\ UNCHANGED <<device, pool, exited>>
    BY <1>6 DEF DevReset, At
  <2> QED
    BY <2>1, PoolGoneStep DEF PoolGone, NoNameClash, Pcs, Inside
<1>7. CASE DevRemove(t)
  <2>1. PICK to \in {"unlock", "gone"} :
           Goto(t, to) /\ (device' => device) /\ UNCHANGED <<pool, exited>>
    BY <1>7 DEF DevRemove
  <2> QED
    BY <2>1, PoolGoneStep DEF NoNameClash, Pcs, Inside
<1> QED
  BY <1>1, <1>2, <1>3, <1>4, <1>5, <1>6, <1>7 DEF Step

(* Through every mixture of resets, removals and failed ones, and whenever *)
(* the port is destroyed, a reset finds the name of its mempool free.      *)
THEOREM PortNoNameClash ==
  ASSUME "capabilities" \notin Faults
  PROVE  Spec => []NoNameClash
<1>1. Init => NamesInv
  BY DEF Init, NamesInv, PoolGone, NoNameClash
<1>2. ASSUME PInv, Values, NamesInv, [Next]_vars PROVE NamesInv'
  <2>1. CASE UNCHANGED vars
    BY <1>2, <2>1 DEF vars, devVars, NamesInv, PoolGone, NoNameClash
  <2>2. CASE Destroy
    <3>1. PICK to \in {"close", "dev_remove"} :
             pc' = [pc EXCEPT ![Owner] = to] /\ UNCHANGED <<device, pool, exited>>
      BY <2>2 DEF Destroy, devVars
    <3> QED
      BY <1>2, <3>1 DEF NamesInv, PoolGone, NoNameClash, PInv, Places
  <2>3. ASSUME NEW t \in Threads, Call(t, "reset") \/ Call(t, "remove")
        PROVE  NamesInv'
    <3>1. pc' = [pc EXCEPT ![t] = "lock"] /\ UNCHANGED <<device, pool, exited>>
      BY <2>3 DEF Call, devVars
    <3> QED
      BY <1>2, <3>1 DEF NamesInv, PoolGone, NoNameClash, PInv, Places
  <2>4. ASSUME NEW t \in Threads, Step(t) PROVE NamesInv'
    BY <1>2, <2>4, NamesStep
  <2> QED
    BY <1>2, <2>1, <2>2, <2>3, <2>4 DEF Next
<1> QED
  BY <1>1, <1>2, PortInvariant, PortValues, PTL DEF Spec, NamesInv

-----------------------------------------------------------------------------
(* Every reset, of any number, by any threads and with any faults, brings  *)
(* the device back without a queue.                                        *)
THEOREM PortResetLosesQueues == Spec => ResetLosesQueues
<1>1. ASSUME PInv, QueueCount, [Next]_vars, ~started, started'
      PROVE  queues' = IF op[Owner] = "construct" THEN NumQueues ELSE 0
  <2>1. PICK t \in Threads : DevStart(t)
    BY <1>1 DEF Next, Step, vars, devVars, CloseCheck, DevStop, DevClose, FreePool, CreatePool,
                InitFails, Configure, Lock, DevReset, DevRemove, Unlock, Call, Destroy
  <2>2. pc[t] = "start" /\ queues' = queues /\ op[t] \in {"construct", "reset"}
    BY <1>1, <2>1 DEF DevStart, At, PInv, Places, Initing
  <2>3. CASE op[t] = "construct"
    <3>1. t = Owner
      BY <1>1, <2>3 DEF PInv, Places
    <3> QED
      BY <1>1, <2>2, <2>3, <3>1 DEF QueueCount
  <2>4. CASE op[t] = "reset"
    <3>1. op[Owner] # "construct"
      BY <1>1, <2>2, <2>4, PortAssumption DEF PInv, Places
    <3> QED
      BY <1>1, <2>2, <2>4, <3>1 DEF QueueCount
  <2> QED
    BY <2>2, <2>3, <2>4
<1>2. PInv /\ QueueCount /\ [Next]_vars
        => [~started /\ started'
              => queues' = IF op[Owner] = "construct" THEN NumQueues ELSE 0]_vars
  BY <1>1
<1> QED
  BY <1>2, PortInvariant, PortQueueCount, PTL DEF Spec, ResetLosesQueues

-----------------------------------------------------------------------------
Holder(t) == pc[t] \in Inside /\ op[t] \in {"reset", "remove"}

(* The lock is taken by somebody.                                          *)
LockHeld == lock => \E t \in Threads : Holder(t)

(* The statements that are left of a method, at most.                      *)
Left ==
  [p \in Pcs |->
     CASE p = "close"      -> 9
       [] p = "stop"       -> 8
       [] p = "dev_close"  -> 7
       [] p = "free"       -> 6
       [] p = "dev_reset"  -> 5
       [] p = "init"       -> 4
       [] p = "configure"  -> 3
       [] p = "start"      -> 2
       [] p = "dev_remove" -> 2
       [] p = "unlock"     -> 1
       [] OTHER            -> 0]

(* No method has a loop: a thread that is inside comes nearer to its end   *)
(* with each step, and nobody else moves it.                               *)
MethodEnds ==
  [][\A t \in Threads :
       pc[t] \in Inside /\ pc'[t] # pc[t] => Left[pc'[t]] < Left[pc[t]]]_vars

LEMMA StepDescends ==
  ASSUME PInv, NEW t \in Threads, Step(t), pc[t] \in Inside
  PROVE  /\ pc'[t] # pc[t] => Left[pc'[t]] < Left[pc[t]]
         /\ \A u \in Threads : u # t => pc'[u] = pc[u]
         /\ pc'[t] = pc[t] => exited' # "no"
<1>0. Places
  BY DEF PInv
<1>1. CASE CloseCheck(t) \/ DevStop(t) \/ DevClose(t) \/ FreePool(t)
  <2>1. PICK to \in {"stop", "dev_close", "free", "dev_reset", "dev_remove"} :
           /\ pc' = [pc EXCEPT ![t] = to]
           /\ \/ pc[t] = "close" /\ to \in {"stop", "dev_reset", "dev_remove"}
              \/ pc[t] = "stop" /\ to = "dev_close"
              \/ pc[t] = "dev_close" /\ to = "free"
              \/ pc[t] = "free" /\ to \in {"dev_reset", "dev_remove"}
    BY <1>1 DEF CloseCheck, DevStop, DevClose, FreePool, At, Goto, AfterClose
  <2>2. pc'[t] = to /\ \A u \in Threads : u # t => pc'[u] = pc[u]
    BY <1>0, <2>1 DEF Places
  <2>3. Left[to] < Left[pc[t]]
    BY <2>1 DEF Left, Pcs, Inside
  <2> QED
    BY <2>1, <2>2, <2>3
<1>2. CASE CreatePool(t)
  <2>1. CASE pc' = pc /\ exited' = "name taken"
    BY <2>1
  <2>2. ASSUME NEW to \in {"idle", "unlock", "configure"}, pc' = [pc EXCEPT ![t] = to]
        PROVE  /\ Left[pc'[t]] < Left[pc[t]]
               /\ \A u \in Threads : u # t => pc'[u] = pc[u]
               /\ pc'[t] # pc[t]
    <3>1. pc[t] = "init" /\ pc'[t] = to /\ \A u \in Threads : u # t => pc'[u] = pc[u]
      BY <1>0, <1>2, <2>2 DEF CreatePool, At, Places
    <3>2. Left[to] < Left["init"]
      BY DEF Left, Pcs, Inside
    <3> QED
      BY <3>1, <3>2
  <2> QED
    BY <1>2, <2>1, <2>2 DEF CreatePool, At, Goto, AfterInit
<1>3. CASE Configure(t) \/ DevStart(t)
  BY <1>0, <1>3 DEF Configure, DevStart, At, Goto, AfterInit, Places, Left, Pcs, Inside
<1>4. CASE InitFails(t)
  BY <1>4 DEF InitFails
<1>5. CASE DevReset(t) \/ DevRemove(t) \/ Unlock(t)
  BY SMTT(30), <1>0, <1>5 DEF DevReset, DevRemove, Unlock, At, Goto, Places, Left, Pcs, Inside
<1>6. CASE Lock(t)
  BY <1>6 DEF Lock, At, Inside
<1> QED
  BY <1>1, <1>2, <1>3, <1>4, <1>5, <1>6 DEF Step

LEMMA InsideDescends ==
  ASSUME PInv, [Next]_vars, NEW t \in Threads, pc[t] \in Inside, pc'[t] # pc[t]
  PROVE  Left[pc'[t]] < Left[pc[t]]
<1>1. CASE UNCHANGED vars
  BY <1>1 DEF vars
<1>2. CASE Destroy
  <2>1. pc[Owner] = "idle" /\ \A u \in Threads : u # Owner => pc'[u] = pc[u]
    BY <1>2 DEF Destroy, At, PInv, Places
  <2> QED
    BY <2>1 DEF Inside
<1>3. ASSUME NEW u \in Threads, Call(u, "reset") \/ Call(u, "remove") PROVE FALSE
  <2>1. pc' = [pc EXCEPT ![u] = "lock"] /\ pc[u] = "idle"
    BY <1>3 DEF Call, At
  <2> QED
    BY <2>1 DEF PInv, Places, Inside
<1>4. ASSUME NEW u \in Threads, Step(u) PROVE Left[pc'[t]] < Left[pc[t]]
  <2>1. CASE u = t
    BY <1>4, <2>1, StepDescends
  <2>2. CASE u # t
    <3>1. CASE pc[u] \in Inside
      BY <1>4, <2>2, <3>1, StepDescends
    <3>2. CASE pc[u] \notin Inside
      <4>1. Lock(u)
        BY <1>4, <3>2 DEF Step, CloseCheck, DevStop, DevClose, FreePool, CreatePool, InitFails,
              Configure, DevStart, DevReset, DevRemove, Unlock, At, Inside
      <4>2. pc'[t] = pc[t]
        BY <2>2, <4>1 DEF Lock, Goto, PInv, Places
      <4> QED
        BY <4>2
    <3> QED
      BY <3>1, <3>2
  <2> QED
    BY <2>1, <2>2
<1> QED
  BY <1>1, <1>2, <1>3, <1>4 DEF Next

(* Each of the methods ends after at most nine steps of the thread in it,  *)
(* whatever the other threads do and whichever driver calls fail.          *)
THEOREM PortMethodEnds == Spec => MethodEnds
<1>1. PInv /\ [Next]_vars
        => [\A t \in Threads :
              pc[t] \in Inside /\ pc'[t] # pc[t] => Left[pc'[t]] < Left[pc[t]]]_vars
  BY InsideDescends
<1> QED
  BY <1>1, PortInvariant, PTL DEF Spec, MethodEnds

(* Whoever is past the lock keeps it until rte_spinlock_unlock.            *)
LEMMA HolderStays ==
  ASSUME PInv, lock, NEW u \in Threads, Holder(u), [Next]_vars
  PROVE  Holder(u)' \/ ~lock'
<1>1. CASE UNCHANGED vars
  BY <1>1 DEF vars, Holder
<1>2. CASE Destroy
  <2>1. /\ pc[Owner] = "idle"
        /\ \A v \in Threads : v # Owner => pc'[v] = pc[v] /\ op'[v] = op[v]
    BY <1>2 DEF Destroy, At, PInv, Places
  <2> QED
    BY <2>1 DEF Holder, Inside
<1>3. ASSUME NEW t \in Threads, Call(t, "reset") \/ Call(t, "remove") PROVE Holder(u)'
  <2>1. /\ pc' = [pc EXCEPT ![t] = "lock"] /\ pc[t] = "idle"
        /\ \A v \in Threads : v # t => op'[v] = op[v]
    BY <1>3 DEF Call, At, PInv, Places
  <2> QED
    BY <2>1 DEF Holder, PInv, Places, Inside
<1>4. ASSUME NEW t \in Threads, Step(t) PROVE Holder(u)' \/ ~lock'
  <2>1. CASE Unlock(t)
    BY <2>1 DEF Unlock
  <2>2. CASE ~Unlock(t)
    <3>1. ~Lock(t)
      BY DEF Lock
    <3>2. pc[t] \in Inside
      BY <1>4, <3>1 DEF Step, CloseCheck, DevStop, DevClose, FreePool, CreatePool, InitFails,
            Configure, DevStart, DevReset, DevRemove, Unlock, At, Inside
    <3>3. CASE u = t
      <4>1. op'[t] = op[t] /\ pc'[t] \in Inside
        BY <1>4, <2>2, <3>1, <3>3
           DEF Step, CloseCheck, DevStop, DevClose, FreePool, CreatePool, InitFails,
               Configure, DevStart, DevReset, DevRemove, At, Goto, AfterClose, AfterInit,
               PInv, Places, Holder, Inside
      <4> QED
        BY <3>3, <4>1 DEF Holder
    <3>4. CASE u # t
      <4>1. pc'[u] = pc[u] /\ op'[u] = op[u]
        BY <1>4, <2>2, <3>1, <3>4
           DEF Step, CloseCheck, DevStop, DevClose, FreePool, CreatePool, InitFails,
               Configure, DevStart, DevReset, DevRemove, Goto, PInv, Places
      <4> QED
        BY <4>1 DEF Holder
    <3> QED
      BY <3>3, <3>4
  <2> QED
    BY <2>1, <2>2
<1> QED
  BY <1>1, <1>2, <1>3, <1>4 DEF Next

(* A lock that was free at first always has a holder.                      *)
LEMMA PortLockHeld == Spec => (~lock => []LockHeld)
<1>1. ~lock => LockHeld
  BY DEF LockHeld
<1>2. ASSUME PInv, LockHeld, [Next]_vars PROVE LockHeld'
  <2>1. CASE lock
    BY <1>2, <2>1, HolderStays DEF LockHeld
  <2>2. CASE ~lock
    <3>1. lock' => lock \/ \E t \in Threads : Lock(t)
      BY <1>2, <2>2
         DEF Next, vars, Destroy, Call, Step, CloseCheck, DevStop, DevClose, FreePool, CreatePool,
             InitFails, Configure, DevStart, DevReset, DevRemove, Unlock
    <3>2. ASSUME NEW t \in Threads, Lock(t) PROVE Holder(t)'
      BY <1>2, <3>2 DEF Lock, At, Goto, Holder, PInv, Places, Inside
    <3> QED
      BY <2>2, <3>1, <3>2 DEF LockHeld
  <2> QED
    BY <2>1, <2>2
<1> QED
  BY <1>1, <1>2, PortInvariant, PTL DEF Spec

-----------------------------------------------------------------------------
(* Liveness.  What a thread's fairness gives is one more step, as long as  *)
(* it can take one.  That it always can is plain from the guards of Step,  *)
(* of which exactly one is true at each pc past the lock; it is a          *)
(* hypothesis below, as the prover does not know ENABLED.                  *)
NeverBlocked ==
  \A t \in Threads :
     exited = "no" /\ pc[t] \in Inside => ENABLED <<Step(t)>>_vars

Near(t, k) == exited = "no" /\ pc[t] \in Inside /\ Left[pc[t]] <= k
Out(t) == pc[t] \notin Inside \/ exited # "no"

LEMMA LeftRange == \A p \in Inside : Left[p] \in 1..9
BY DEF Left, Pcs, Inside

(* Until t is out of its method, the steps of the others leave it where it *)
(* is, and its own take it from level j to level k or out.                 *)
Nearer(t, j, k) ==
  /\ PInv /\ Near(t, j) /\ [Next]_vars => (Near(t, j) \/ Out(t))'
  /\ PInv /\ Near(t, j) /\ <<Next /\ Step(t)>>_vars => (Near(t, k) \/ Out(t))'

LEMMA NearStep ==
  ASSUME NEW t \in Threads, NEW j \in Nat, NEW k \in Nat, j = k + 1
  PROVE  Nearer(t, j, k)
<1> SUFFICES ASSUME PInv, Near(t, j), [Next]_vars, pc'[t] \in Inside, exited' = "no"
             PROVE  Left[pc'[t]] <= j /\ (Step(t) => Left[pc'[t]] <= k)
  BY DEF Nearer, Near, Out
<1>1. Left[pc[t]] \in Nat /\ Left[pc'[t]] \in Nat /\ Left[pc[t]] <= j
  BY LeftRange DEF Near
<1>2. pc'[t] # pc[t] => Left[pc'[t]] < Left[pc[t]]
  BY InsideDescends DEF Near
<1>3. Step(t) => pc'[t] # pc[t]
  BY StepDescends DEF Near
<1> QED
  BY <1>1, <1>2, <1>3

(* A thread that is inside a method, the constructor and the destructor    *)
(* included, comes out of it, or the process exits.                        *)
THEOREM PortMethodReturns ==
  ASSUME NEW t \in Threads
  PROVE  FairSpec /\ []NeverBlocked => (pc[t] \in Inside ~> Out(t))
<1>1. /\ Nearer(t, 9, 8) /\ Nearer(t, 8, 7) /\ Nearer(t, 7, 6)
      /\ Nearer(t, 6, 5) /\ Nearer(t, 5, 4) /\ Nearer(t, 4, 3)
      /\ Nearer(t, 3, 2) /\ Nearer(t, 2, 1) /\ Nearer(t, 1, 0)
  BY NearStep
<1>2. /\ pc[t] \in Inside => Near(t, 9) \/ Out(t)
      /\ ~Near(t, 0)
  BY LeftRange DEF Near, Out
<1>3. Step(t) => Next
  BY DEF Next
<1>4. NeverBlocked /\ pc[t] \in Inside => Out(t) \/ ENABLED <<Step(t)>>_vars
  BY DEF NeverBlocked, Out
<1>5. ~Out(t) => pc[t] \in Inside
  BY DEF Out
<1>6. FairSpec => Spec /\ Fairness(t)
  BY DEF FairSpec
<1> QED
  BY <1>1, <1>2, <1>3, <1>4, <1>5, <1>6, PortInvariant, PTL DEF Spec, Fairness, Nearer

(* port_update_lock, if its memory looked free, is given back by whoever   *)
(* takes it, unless port_init ends the process: the holder stays inside    *)
(* until the unlock (HolderStays), and does not stay inside for ever.      *)
THEOREM PortLockReleased == FairSpec /\ []NeverBlocked => LockReleased
<1> DEFINE Given == ~lock \/ exited # "no"
<1>1. ASSUME NEW t \in Threads
      PROVE  FairSpec /\ []NeverBlocked => [](lock /\ Holder(t) => <>Given)
  <2>1. PInv /\ (lock /\ Holder(t)) /\ [Next]_vars => (lock /\ Holder(t))' \/ Given'
    BY HolderStays
  <2>2. lock /\ Holder(t) => pc[t] \in Inside
    BY DEF Holder
  <2>3. Out(t) => ~(lock /\ Holder(t)) \/ Given
    BY DEF Out, Holder
  <2>4. FairSpec /\ []NeverBlocked => (pc[t] \in Inside ~> Out(t))
    BY PortMethodReturns
  <2>5. FairSpec => Spec
    BY DEF FairSpec
  <2> HIDE DEF Given
  <2> QED
    BY <2>1, <2>2, <2>3, <2>4, <2>5, PortInvariant, PTL DEF Spec
<1> HIDE DEF Given
<1>2. FairSpec /\ []NeverBlocked => \A t \in Threads : [](lock /\ Holder(t) => <>Given)
  BY <1>1
<1>3. (\A t \in Threads : [](lock /\ Holder(t) => <>Given))
        => [](\A t \in Threads : lock /\ Holder(t) => <>Given)
  OBVIOUS
<1>4. LockHeld /\ (\A t \in Threads : lock /\ Holder(t) => <>Given) => (lock => <>Given)
  BY DEF LockHeld
<1>5. FairSpec => Spec
  BY DEF FairSpec
<1> QED
  BY <1>2, <1>3, <1>4, <1>5, PortLockHeld, PTL DEF LockReleased, Given
=============================================================================
