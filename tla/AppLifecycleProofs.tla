------------------------- MODULE AppLifecycleProofs -------------------------
(***************************************************************************)
(* Shutdown of the application.  The waiting loop of main goes through the *)
(* numbers below rte_lcore_count(), so it needs the lcores that run the    *)
(* threads to be among them (Counted), as they are when the enabled lcores *)
(* are numbered from 0.  What main and the threads do to come to an end    *)
(* does not depend on it.                                                  *)
(***************************************************************************)
EXTENDS AppLifecycle, FiniteSetTheorems, TLAPS

(* The enabled lcores are 0, 1, ..., N-1.                                  *)
Contiguous(N) == N \in Nat /\ Lcores = 0..(N - 1)

(* With contiguous lcores main is lcore 0 and the next lcore is the next   *)
(* number.                                                                 *)
LEMMA ContiguousLcores ==
  ASSUME NEW N, Contiguous(N)
  PROVE  /\ Cardinality(Lcores) = N /\ N >= 4 /\ N \in Nat
         /\ MainLcore = 0
         /\ \A i \in -1..(N - 2) : NextLcore(i) = IF i = -1 THEN 1 ELSE i + 1
<1>1. N \in Nat /\ Lcores = 0..(N - 1)
  BY DEF Contiguous
<1>2. Cardinality(Lcores) = N /\ N >= 4
  <2>1. Cardinality(0..(N - 1)) = IF 0 > N - 1 THEN 0 ELSE N - 1 - 0 + 1
    <3>1. 0 \in Int /\ N - 1 \in Int
      BY <1>1
    <3> QED
      BY <3>1, FS_Interval
  <2>2. Cardinality(Lcores) >= 4
    BY LifecycleAssumption
  <2> QED
    BY <1>1, <2>1, <2>2
<1>3. MainLcore = 0
  <2>1. 0 \in Lcores /\ \A k \in Lcores : 0 <= k
    BY <1>1, <1>2
  <2>2. \A l \in Lcores : (\A k \in Lcores : l <= k) => l = 0
    BY <1>1, <2>1
  <2> QED
    BY <2>1, <2>2 DEF MainLcore
<1>4. ASSUME NEW i \in -1..(N - 2)
      PROVE  NextLcore(i) = IF i = -1 THEN 1 ELSE i + 1
  <2> DEFINE n == IF i = -1 THEN 1 ELSE i + 1
             Is(l) == l > i /\ \A k \in Lcores \ {MainLcore} : k > i => l <= k
  <2>1. n \in Lcores \ {MainLcore} /\ Is(n)
    BY <1>1, <1>2, <1>3
  <2>2. \A l \in Lcores \ {MainLcore} : Is(l) => l = n
    BY <1>1, <2>1
  <2>3. NextLcore(i) = CHOOSE l \in Lcores \ {MainLcore} : Is(l)
    BY DEF NextLcore
  <2> HIDE DEF n, Is
  <2>4. NextLcore(i) = n
    BY <2>1, <2>2, <2>3
  <2> QED
    BY <2>4 DEF n
<1> QED
  BY <1>1, <1>2, <1>3, <1>4

Lcs == Cardinality(Lcores)

(* The lcores that launch_software_forwarder gives the two threads.        *)
RxLcore == NextLcore(NextLcore(-1))
TxLcore == NextLcore(RxLcore)

(* for (lcore_id = 1; lcore_id < rte_lcore_count(); ...) comes past both.  *)
Counted == RxLcore \in 1..(Lcs - 1) /\ TxLcore \in 1..(Lcs - 1)

LEMMA ContiguousIsCounted ==
  ASSUME NEW N, Contiguous(N) PROVE Counted /\ NextLcore(-1) = 1
<1>1. Cardinality(Lcores) = N /\ N >= 4 /\ N \in Nat
  BY ContiguousLcores
<1>2. -1 \in -1..(N - 2) /\ 1 \in -1..(N - 2) /\ 2 \in -1..(N - 2)
  BY <1>1
<1>3. NextLcore(-1) = 1 /\ NextLcore(1) = 2 /\ NextLcore(2) = 3
  BY <1>2, ContiguousLcores
<1> QED
  BY <1>1, <1>3 DEF Counted, RxLcore, TxLcore, Lcs

(* The strengthening: only the two lcores launched leave WAIT, main has    *)
(* waited for every lcore below lcore_id, launches nothing after the       *)
(* monitor loop and dismantles nothing before every thread is in WAIT.     *)
LInv ==
  /\ worker \in [Lcores -> ({"WAIT", "check"} \cup Calls)]
  /\ stopped \subseteq Contexts
  /\ \A l \in Lcores : worker[l] # "WAIT" => l \in {RxLcore, TxLcore}
  /\ main_pc = "launch_rx" => lcore_id = NextLcore(-1)
  /\ main_pc = "launch_tx" => lcore_id = RxLcore
  /\ main_pc # "launch_rx" => lcore_id \in Nat
  /\ main_pc = "wait" =>
        /\ lcore_id >= 1
        /\ \A l \in Lcores : l < lcore_id => worker[l] = "WAIT"
  /\ main_pc \in {"delay", "teardown", "returned"} => \A l \in Lcores : worker[l] = "WAIT"
  /\ main_pc \in {"wait", "delay", "teardown", "returned"} => stopped = Contexts
  /\ main_pc \notin {"teardown", "returned"} => ports = Ports /\ reset = {}

(* main's waiting loop waits for every thread it launched, and only then   *)
(* are the cards reset and the ports removed.                              *)
LEMMA LifecycleInvariant ==
  ASSUME Counted PROVE Spec => []LInv
<1>0. /\ RxLcore \in 1..(Lcs - 1) /\ TxLcore \in 1..(Lcs - 1)
      /\ Lcs \in Nat /\ Lcores \subseteq Nat
  BY LifecycleAssumption, FS_CardinalityType DEF Counted, Lcs
<1>1. Init => LInv
  BY DEF Init, LInv, Contexts
<1>2. ASSUME LInv, [Next]_vars PROVE LInv'
  <2> USE <1>0, <1>2 DEF LInv, mainVars, devVars
  <2>1. CASE LaunchRx
    <3>1. /\ lcore_id' = RxLcore /\ worker' = [worker EXCEPT ![RxLcore] = "check"]
          /\ main_pc' = "launch_tx"
      BY <2>1 DEF LaunchRx, RemoteLaunch, RxLcore
    <3>2. \A l \in Lcores : worker'[l] # "WAIT" => l \in {RxLcore, TxLcore}
      BY <3>1
    <3>3. worker' \in [Lcores -> ({"WAIT", "check"} \cup Calls)]
      BY <3>1
    <3>4. UNCHANGED <<stopped, ports, reset>> /\ lcore_id' \in Nat
      BY <2>1, <3>1 DEF LaunchRx
    <3>5. main_pc = "launch_rx"
      BY <2>1 DEF LaunchRx
    <3> QED
      BY <3>1, <3>2, <3>3, <3>4, <3>5
  <2>2. CASE LaunchTx
    <3>1. /\ lcore_id' = TxLcore /\ worker' = [worker EXCEPT ![TxLcore] = "check"]
          /\ main_pc' = "monitor"
      BY <2>2 DEF LaunchTx, RemoteLaunch, TxLcore
    <3>2. \A l \in Lcores : worker'[l] # "WAIT" => l \in {RxLcore, TxLcore}
      BY <3>1
    <3>3. worker' \in [Lcores -> ({"WAIT", "check"} \cup Calls)]
      BY <3>1
    <3>4. UNCHANGED <<stopped, ports, reset>> /\ lcore_id' \in Nat
      BY <2>2, <3>1 DEF LaunchTx
    <3>5. main_pc = "launch_tx"
      BY <2>2 DEF LaunchTx
    <3> QED
      BY <3>1, <3>2, <3>3, <3>4, <3>5
  <2>3. CASE CheckSigkill \/ ReadStats
    BY <2>3 DEF CheckSigkill, ReadStats
  <2>4. CASE StopContext
    <3>1. UNCHANGED <<worker, ports, reset>> /\ stopped' \subseteq Contexts /\ main_pc = "stop"
      BY <2>4 DEF StopContext
    <3>2. CASE stopped' = Contexts
      <4>1. main_pc' = "wait" /\ lcore_id' = 1
        BY <2>4, <3>2 DEF StopContext
      <4>2. \A l \in Lcores : l < 1 => l \notin {RxLcore, TxLcore}
        OBVIOUS
      <4> QED
        BY <3>1, <3>2, <4>1, <4>2
    <3>3. CASE stopped' # Contexts
      <4>1. UNCHANGED <<main_pc, lcore_id>>
        BY <2>4, <3>3 DEF StopContext
      <4> QED
        BY <3>1, <4>1
    <3> QED
      BY <3>2, <3>3
  <2>5. CASE WaitLcore
    <3>1. /\ main_pc = "wait" /\ lcore_id' = lcore_id + 1
          /\ lcore_id \in Lcores => worker[lcore_id] = "WAIT"
          /\ UNCHANGED <<main_pc, stopped, worker, reset, ports>>
      BY <2>5 DEF WaitLcore
    <3>2. \A l \in Lcores : l < lcore_id + 1 => l < lcore_id \/ l = lcore_id
      BY <3>1
    <3>3. \A l \in Lcores : l < lcore_id' => worker'[l] = "WAIT"
      BY <3>1, <3>2
    <3> QED
      BY <3>1, <3>3
  <2>6. CASE EndWait
    <3>1. /\ main_pc = "wait" /\ lcore_id >= Lcs /\ main_pc' = "delay"
          /\ UNCHANGED <<lcore_id, stopped, worker, reset, ports>>
      BY <2>6 DEF EndWait, Lcs
    <3>2. \A l \in Lcores : l \in {RxLcore, TxLcore} => l < lcore_id
      BY <3>1
    <3> QED
      BY <3>1, <3>2
  <2>7. CASE Delay
    BY <2>7 DEF Delay
  <2>8. CASE Teardown
    <3>1. /\ main_pc = "teardown" /\ main_pc' \in {"teardown", "returned"}
          /\ UNCHANGED <<lcore_id, stopped, worker>>
      BY <2>8 DEF Teardown, ResetOnic, RemovePort, Return
    <3> QED
      BY <3>1
  <2>9. ASSUME NEW l \in Lcores, Thread(l) PROVE LInv'
    <3>1. /\ worker[l] # "WAIT" /\ UNCHANGED <<main_pc, lcore_id, stopped, reset, ports>>
          /\ \E s \in ({"WAIT", "check"} \cup Calls) : worker' = [worker EXCEPT ![l] = s]
      BY <2>9 DEF Thread, CheckStop, Iterate, AfterCall, Calls
    <3>2. \A k \in Lcores : worker[k] = "WAIT" => worker'[k] = "WAIT"
      BY <3>1
    <3>3. worker' \in [Lcores -> ({"WAIT", "check"} \cup Calls)]
      BY <3>1
    <3> QED
      BY <3>1, <3>2, <3>3
  <2>10. CASE Sigint
    BY <2>10 DEF Sigint
  <2>11. CASE UNCHANGED vars
    BY <2>11 DEF vars
  <2> QED
    BY <2>1, <2>2, <2>3, <2>4, <2>5, <2>6, <2>7, <2>8, <2>9, <2>10, <2>11 DEF Next, Main
<1> QED
  BY <1>1, <1>2, PTL DEF Spec

(* What holds of the values whatever the lcores are.                       *)
Values ==
  /\ main_pc \in {"launch_rx", "launch_tx", "monitor", "stats0", "stats1", "sleep",
                  "stop", "wait", "delay", "teardown", "returned"}
  /\ sigkill \in BOOLEAN
  /\ job \in [Lcores -> {"none", "rx", "tx"}]
  /\ reset \subseteq {0, 1} /\ ports \subseteq Ports

LEMMA LifecycleValues == Spec => []Values
<1>1. Init => Values
  BY DEF Init, Values
<1>2. ASSUME Values, [Next]_vars PROVE Values'
  <2> USE <1>2 DEF Values, mainVars, devVars
  <2>1. CASE LaunchRx \/ LaunchTx
    <3>1. ASSUME NEW l, NEW j \in {"rx", "tx"}, RemoteLaunch(l, j)
          PROVE  job' \in [Lcores -> {"none", "rx", "tx"}]
      BY <3>1 DEF RemoteLaunch
    <3> QED
      BY <2>1, <3>1 DEF LaunchRx, LaunchTx
  <2>2. CASE CheckSigkill \/ ReadStats \/ StopContext
    BY <2>2 DEF CheckSigkill, ReadStats, StopContext
  <2>3. CASE WaitLcore \/ EndWait \/ Delay \/ Sigint
    BY <2>3 DEF WaitLcore, EndWait, Delay, Sigint
  <2>4. CASE Teardown
    BY <2>4 DEF Teardown, ResetOnic, RemovePort, Return
  <2>5. ASSUME NEW l \in Lcores, Thread(l) PROVE Values'
    BY <2>5 DEF Thread, CheckStop, Iterate
  <2>6. CASE UNCHANGED vars
    BY <2>6 DEF vars
  <2> QED
    BY <2>1, <2>2, <2>3, <2>4, <2>5, <2>6 DEF Next, Main
<1> QED
  BY <1>1, <1>2, PTL DEF Spec

(* With lcores numbered from 0, main counts lcores and nothing else, and   *)
(* an lcore is waiting or at a call of the thread it was given.            *)
THEOREM LifecycleTypeOK ==
  ASSUME NEW N, Contiguous(N) PROVE Spec => []TypeOK
<1>1. Counted /\ NextLcore(-1) = 1
  BY ContiguousIsCounted
<1>2. LInv /\ Values => TypeOK
  BY <1>1 DEF LInv, Values, TypeOK
<1> QED
  BY <1>1, <1>2, LifecycleInvariant, LifecycleValues, PTL

(* If both threads run on lcores whose ids are below rte_lcore_count(),    *)
(* rte_eal_wait_lcore is called for each of them, as the comment in main   *)
(* says; the other ids may be anything.                                    *)
THEOREM LifecycleWaitsForWorkers ==
  ASSUME Counted PROVE Spec => []WaitedFor
<1>1. LInv => WaitedFor
  BY DEF LInv, WaitedFor
<1> QED
  BY <1>1, LifecycleInvariant, PTL

(* Then no thread touches a card, a port or a mempool that the destructors *)
(* have already dismantled.                                                *)
THEOREM LifecycleNoUseAfterTeardown ==
  ASSUME Counted PROVE Spec => []NoUseAfterTeardown
<1>1. ASSUME LInv PROVE NoUseAfterTeardown
  <2> SUFFICES ASSUME main_pc # "returned", NEW l \in Lcores, NEW p \in Uses(worker[l])
               PROVE  p \in ports /\ OnicOf(p) \notin reset
    BY DEF NoUseAfterTeardown
  <2>1. worker[l] # "WAIT" /\ p \in Ports
    BY DEF Uses, Ports
  <2>2. ports = Ports /\ reset = {}
    BY <1>1, <2>1 DEF LInv
  <2> QED
    BY <2>1, <2>2
<1> QED
  BY <1>1, LifecycleInvariant, PTL

(* In particular with lcores numbered from 0, as with EAL option -l 0-n.   *)
THEOREM LifecycleContiguous ==
  ASSUME NEW N, Contiguous(N) PROVE Spec => [](WaitedFor /\ NoUseAfterTeardown)
<1>1. Counted
  BY ContiguousIsCounted
<1> QED
  BY <1>1, LifecycleWaitsForWorkers, LifecycleNoUseAfterTeardown, PTL

-----------------------------------------------------------------------------
(* What SigintExits needs of each step, for every set of lcores: main and  *)
(* the threads get nearer to their end whatever the others do.             *)

(* The steps main has left when SIGINT has come: a card and a port are     *)
(* dismantled once, a context is stopped once, a number is passed once.    *)
MainLeft ==
  CASE main_pc = "returned"  -> 0
    [] main_pc = "teardown"  -> 1 + Cardinality({0, 1} \ reset) + Cardinality(ports)
    [] main_pc = "delay"     -> 8
    [] main_pc = "wait"      -> 9 + (IF lcore_id < Lcs THEN Lcs - lcore_id ELSE 0)
    [] main_pc = "stop"      -> 10 + Lcs + Cardinality(Contexts \ stopped)
    [] main_pc = "monitor"   -> 15 + Lcs
    [] main_pc = "sleep"     -> 16 + Lcs
    [] main_pc = "stats1"    -> 17 + Lcs
    [] main_pc = "stats0"    -> 18 + Lcs
    [] main_pc = "launch_tx" -> 19 + Lcs
    [] main_pc = "launch_rx" -> 20 + Lcs

(* After SIGINT every step of main brings it nearer to its return, and no  *)
(* step of a thread takes it further away.                                 *)
MainDescends ==
  [][sigkill => /\ sigkill'
                /\ MainLeft <= 20 + Lcs
                /\ IF Main THEN MainLeft' < MainLeft ELSE MainLeft' = MainLeft]_vars

(* The steps a thread whose context is stopped has left.                   *)
ThreadLeft(at) ==
  CASE at = "WAIT"                   -> 0
    [] at = "check"                  -> 1
    [] at \in {"enqueue", "tx_burst"} -> 2
    [] at \in {"count", "rx_burst"}   -> 3
    [] at = "dequeue"                -> 4

(* Once its context is stopped a thread is back in WAIT within four steps  *)
(* of its own, and nothing launches it again.                              *)
ThreadDescends ==
  [][(Launched \in stopped) =>
       /\ Launched \in stopped'
       /\ \A l \in Lcores :
            IF Thread(l) THEN ThreadLeft(worker'[l]) < ThreadLeft(worker[l])
                         ELSE worker'[l] = worker[l]]_vars

(* For every set of lcores: the loop of main counts from 1, nothing is     *)
(* stopped before the loop over the contexts, and threads are where their  *)
(* loop bodies allow.                                                      *)
EndInv ==
  /\ main_pc = "wait" => lcore_id \in Nat
  /\ stopped \subseteq Contexts
  /\ main_pc \in {"launch_rx", "launch_tx", "monitor", "stats0", "stats1", "sleep"} => stopped = {}
  /\ worker \in [Lcores -> ({"WAIT", "check"} \cup Calls)]

LEMMA LifecycleEndInvariant == Spec => []EndInv
<1>1. Init => EndInv
  BY DEF Init, EndInv, Contexts
<1>2. ASSUME EndInv, [Next]_vars PROVE EndInv'
  <2> USE <1>2 DEF EndInv, mainVars, devVars
  <2>1. CASE LaunchRx
    BY <2>1 DEF LaunchRx, RemoteLaunch
  <2>2. CASE LaunchTx
    BY <2>2 DEF LaunchTx, RemoteLaunch
  <2>3. CASE CheckSigkill \/ ReadStats
    BY <2>3 DEF CheckSigkill, ReadStats
  <2>4. CASE StopContext
    BY <2>4 DEF StopContext
  <2>5. CASE WaitLcore \/ EndWait \/ Delay \/ Sigint
    BY <2>5 DEF WaitLcore, EndWait, Delay, Sigint
  <2>6. CASE Teardown
    BY <2>6 DEF Teardown, ResetOnic, RemovePort, Return
  <2>7. ASSUME NEW l \in Lcores, Thread(l) PROVE EndInv'
    <3>1. UNCHANGED <<main_pc, lcore_id, stopped>>
      BY <2>7 DEF Thread, CheckStop, Iterate
    <3>2. \E s \in ({"WAIT", "check"} \cup Calls) : worker' = [worker EXCEPT ![l] = s]
      BY <2>7 DEF Thread, CheckStop, Iterate, AfterCall, Calls
    <3> QED
      BY <3>1, <3>2
  <2>8. CASE UNCHANGED vars
    BY <2>8 DEF vars
  <2> QED
    BY <2>1, <2>2, <2>3, <2>4, <2>5, <2>6, <2>7, <2>8 DEF Next, Main
<1> QED
  BY <1>1, <1>2, PTL DEF Spec

(* A part of 0..m has at most m + 1 elements, and one fewer without any.   *)
LEMMA PartOf ==
  ASSUME NEW m \in Nat, NEW S, S \subseteq 0..m
  PROVE  /\ Cardinality(S) \in 0..(m + 1)
         /\ \A x \in S : Cardinality(S \ {x}) = Cardinality(S) - 1
<1>1. IsFiniteSet(0..m) /\ Cardinality(0..m) = m + 1
  BY FS_Interval
<1>2. IsFiniteSet(S) /\ Cardinality(S) <= m + 1
  BY ZenonT(30), <1>1, FS_Subset
<1>3. Cardinality(S) \in Nat
  BY <1>2, FS_CardinalityType
<1> QED
  BY <1>2, <1>3, FS_RemoveElement

(* SIGINT, the part that is safety: from any state main has at most        *)
(* 20 + rte_lcore_count() steps to take before it returns, whatever lcores *)
(* are enabled and however the threads interleave with it.                 *)
THEOREM LifecycleMainDescends == Spec => MainDescends
<1> DEFINE Step == sigkill => /\ sigkill'
                             /\ MainLeft <= 20 + Lcs
                             /\ IF Main THEN MainLeft' < MainLeft ELSE MainLeft' = MainLeft
<1>0. Lcs \in Nat /\ Lcs' = Lcs
  BY LifecycleAssumption, FS_CardinalityType DEF Lcs
<1>1. ASSUME EndInv, Values, [Next]_vars PROVE Step
  <2> SUFFICES ASSUME sigkill PROVE Step
    OBVIOUS
  <2> DEFINE cards == Cardinality({0, 1} \ reset)
             devs  == Cardinality(ports)
             ctxs  == Cardinality(Contexts \ stopped)
  <2>0. /\ cards \in 0..2 /\ devs \in 0..4 /\ ctxs \in 0..4
        /\ \A x \in {0, 1} \ reset : Cardinality(({0, 1} \ reset) \ {x}) = cards - 1
        /\ \A x \in ports : Cardinality(ports \ {x}) = devs - 1
        /\ \A x \in Contexts \ stopped : Cardinality((Contexts \ stopped) \ {x}) = ctxs - 1
    <3>1. {0, 1} \ reset \subseteq 0..1 /\ ports \subseteq 0..3 /\ Contexts \ stopped \subseteq 0..3
      BY <1>1 DEF Values, Ports, Contexts
    <3>2. 1 \in Nat /\ 3 \in Nat
      OBVIOUS
    <3>3. cards \in 0..2 /\ \A x \in {0, 1} \ reset : Cardinality(({0, 1} \ reset) \ {x}) = cards - 1
      <4> DEFINE S == {0, 1} \ reset
      <4>1. S \subseteq 0..1
        BY <3>1
      <4> HIDE DEF S
      <4>2. Cardinality(S) \in 0..(1 + 1) /\ \A x \in S : Cardinality(S \ {x}) = Cardinality(S) - 1
        BY <3>2, <4>1, PartOf
      <4> QED
        BY <4>2 DEF S
    <3>4. devs \in 0..4 /\ \A x \in ports : Cardinality(ports \ {x}) = devs - 1
      <4>1. Cardinality(ports) \in 0..(3 + 1) /\ \A x \in ports : Cardinality(ports \ {x}) = Cardinality(ports) - 1
        BY <3>1, <3>2, PartOf
      <4> QED
        BY <4>1
    <3>5. ctxs \in 0..4 /\ \A x \in Contexts \ stopped : Cardinality((Contexts \ stopped) \ {x}) = ctxs - 1
      <4> DEFINE S == Contexts \ stopped
      <4>1. S \subseteq 0..3
        BY <3>1
      <4> HIDE DEF S
      <4>2. Cardinality(S) \in 0..(3 + 1) /\ \A x \in S : Cardinality(S \ {x}) = Cardinality(S) - 1
        BY <3>2, <4>1, PartOf
      <4> QED
        BY <4>2 DEF S
    <3> QED
      BY <3>3, <3>4, <3>5
  <2> HIDE DEF cards, devs, ctxs
  <2>1. sigkill'
    BY <1>1 DEF Next, Main, Thread, vars, mainVars, devVars, LaunchRx, LaunchTx, CheckSigkill,
                ReadStats, StopContext, WaitLcore, EndWait, Delay, Teardown, ResetOnic,
                RemovePort, Return, CheckStop, Iterate, Sigint
  <2>2. MainLeft <= 20 + Lcs
    BY <1>0, <1>1, <2>0 DEF MainLeft, Values, EndInv, cards, devs, ctxs
  <2>3. ASSUME Main PROVE MainLeft' < MainLeft
    <3>1. CASE LaunchRx \/ LaunchTx \/ CheckSigkill \/ ReadStats
      <4>1. \/ main_pc = "launch_rx" /\ main_pc' = "launch_tx"
            \/ main_pc = "launch_tx" /\ main_pc' = "monitor"
            \/ main_pc = "stats0" /\ main_pc' = "stats1"
            \/ main_pc = "stats1" /\ main_pc' = "sleep"
            \/ main_pc = "sleep" /\ main_pc' = "monitor"
            \/ main_pc = "monitor" /\ main_pc' = "stop" /\ UNCHANGED stopped
        BY <3>1 DEF LaunchRx, LaunchTx, CheckSigkill, ReadStats
      <4>2. /\ main_pc = "launch_rx" => MainLeft = 20 + Lcs
            /\ main_pc = "launch_tx" => MainLeft = 19 + Lcs
            /\ main_pc = "stats0" => MainLeft = 18 + Lcs
            /\ main_pc = "stats1" => MainLeft = 17 + Lcs
            /\ main_pc = "sleep" => MainLeft = 16 + Lcs
            /\ main_pc = "monitor" => MainLeft = 15 + Lcs
        BY DEF MainLeft
      <4>3. /\ main_pc' = "launch_tx" => MainLeft' = 19 + Lcs
            /\ main_pc' = "stats1" => MainLeft' = 17 + Lcs
            /\ main_pc' = "sleep" => MainLeft' = 16 + Lcs
            /\ main_pc' = "monitor" => MainLeft' = 15 + Lcs
            /\ main_pc' = "stop" /\ UNCHANGED stopped => MainLeft' = 10 + Lcs + ctxs
        BY <1>0 DEF MainLeft, ctxs
      <4> QED
        BY <1>0, <2>0, <4>1, <4>2, <4>3
    <3>2. CASE StopContext
      <4>1. PICK c \in Contexts \ stopped : stopped' = stopped \cup {c}
        BY <3>2 DEF StopContext
      <4>2. Cardinality(Contexts \ stopped') = ctxs - 1
        <5>1. Contexts \ stopped' = (Contexts \ stopped) \ {c}
          BY <4>1
        <5> QED
          BY <2>0, <5>1
      <4>3. main_pc = "stop" /\ (\/ main_pc' = "wait" /\ lcore_id' = 1
                               \/ main_pc' = "stop")
        BY <3>2 DEF StopContext, mainVars
      <4>4. MainLeft = 10 + Lcs + ctxs
        BY <4>3 DEF MainLeft, ctxs
      <4>5. CASE main_pc' = "wait" /\ lcore_id' = 1
        <5>1. MainLeft' = 9 + (IF 1 < Lcs THEN Lcs - 1 ELSE 0)
          BY <1>0, <4>5 DEF MainLeft
        <5>2. ctxs >= 1
          <6> DEFINE S == Contexts \ stopped'
          <6>1. S \subseteq 0..3 /\ 3 \in Nat
            BY DEF Contexts
          <6>2. Cardinality(S) = ctxs - 1
            BY <4>2
          <6> HIDE DEF S
          <6>3. Cardinality(S) \in 0..(3 + 1)
            BY <6>1, PartOf
          <6> QED
            BY <2>0, <6>2, <6>3
        <5> QED
          BY <1>0, <2>0, <4>4, <5>1, <5>2
      <4>6. CASE main_pc' = "stop"
        <5>1. MainLeft' = 10 + Lcs + (ctxs - 1)
          BY <1>0, <4>2, <4>6 DEF MainLeft
        <5> QED
          BY <1>0, <2>0, <4>4, <5>1
      <4> QED
        BY <4>3, <4>5, <4>6
    <3>3. CASE WaitLcore \/ EndWait
      <4>1. /\ main_pc = "wait" /\ lcore_id \in Nat
            /\ \/ lcore_id < Lcs /\ main_pc' = "wait" /\ lcore_id' = lcore_id + 1
               \/ main_pc' = "delay"
        BY <1>1, <3>3 DEF WaitLcore, EndWait, EndInv, Lcs
      <4>2. MainLeft = 9 + (IF lcore_id < Lcs THEN Lcs - lcore_id ELSE 0)
        BY <4>1 DEF MainLeft
      <4>3. /\ main_pc' = "wait" => MainLeft' = 9 + (IF lcore_id' < Lcs THEN Lcs - lcore_id' ELSE 0)
            /\ main_pc' = "delay" => MainLeft' = 8
        BY <1>0 DEF MainLeft
      <4> QED
        BY <1>0, <4>1, <4>2, <4>3
    <3>4. CASE Delay
      <4>1. MainLeft = 8 /\ MainLeft' = 1 + cards + devs
        BY <3>4 DEF Delay, MainLeft, devVars, cards, devs
      <4> QED
        BY <2>0, <4>1
    <3>5. ASSUME NEW o \in {0, 1}, ResetOnic(o) PROVE MainLeft' < MainLeft
      <4>1. Cardinality({0, 1} \ reset') = cards - 1
        <5>1. {0, 1} \ reset' = ({0, 1} \ reset) \ {o} /\ o \in {0, 1} \ reset
          BY <3>5 DEF ResetOnic
        <5> QED
          BY <2>0, <5>1
      <4>2. /\ MainLeft = 1 + cards + devs
            /\ MainLeft' = 1 + Cardinality({0, 1} \ reset') + devs
        BY <3>5 DEF ResetOnic, MainLeft, mainVars, cards, devs
      <4> QED
        BY <2>0, <4>1, <4>2
    <3>6. ASSUME NEW p \in Ports, RemovePort(p) PROVE MainLeft' < MainLeft
      <4>1. Cardinality(ports') = devs - 1
        BY <2>0, <3>6 DEF RemovePort
      <4>2. MainLeft = 1 + cards + devs /\ MainLeft' = 1 + cards + Cardinality(ports')
        BY <3>6 DEF RemovePort, MainLeft, mainVars, cards, devs
      <4> QED
        BY <2>0, <4>1, <4>2
    <3>7. CASE Return
      <4>1. MainLeft = 1 + cards + devs /\ MainLeft' = 0
        BY <3>7 DEF Return, MainLeft, cards, devs
      <4> QED
        BY <2>0, <4>1
    <3> QED
      BY <2>3, <3>1, <3>2, <3>3, <3>4, <3>5, <3>6, <3>7 DEF Main, Teardown
  <2>4. ASSUME ~Main PROVE MainLeft' = MainLeft
    <3>1. UNCHANGED <<main_pc, lcore_id, stopped, reset, ports>>
      BY <1>1, <2>4 DEF Next, Thread, CheckStop, Iterate, Sigint, vars, mainVars, devVars
    <3> QED
      BY <1>0, <3>1 DEF MainLeft
  <2> QED
    BY <2>1, <2>2, <2>3, <2>4
<1>2. EndInv /\ Values /\ [Next]_vars => [Step]_vars
  BY <1>1
<1> QED
  BY <1>2, LifecycleEndInvariant, LifecycleValues, PTL DEF Spec, MainDescends

(* After its stop_flag is set a thread that makes a step is at most three  *)
(* steps from rte_eal_wait_lcore's WAIT; with LifecycleMainDescends this   *)
(* leaves of SigintExits only that fair steps are taken.                   *)
THEOREM LifecycleThreadDescends == Spec => ThreadDescends
<1> DEFINE Step == (Launched \in stopped) =>
             /\ Launched \in stopped'
             /\ \A l \in Lcores :
                  IF Thread(l) THEN ThreadLeft(worker'[l]) < ThreadLeft(worker[l])
                               ELSE worker'[l] = worker[l]
<1>1. ASSUME EndInv, Values, [Next]_vars PROVE Step
  <2> SUFFICES ASSUME Launched \in stopped PROVE Step
    OBVIOUS
  <2>1. Launched \in stopped' /\ (UNCHANGED worker \/ \E l \in Lcores : Thread(l))
    <3>1. main_pc \notin {"launch_rx", "launch_tx"}
      BY <1>1 DEF EndInv
    <3> QED
      BY <1>1, <3>1 DEF Next, Main, Thread, vars, mainVars, devVars, LaunchRx, LaunchTx,
         CheckSigkill, ReadStats, StopContext, WaitLcore, EndWait, Delay, Teardown, ResetOnic,
         RemovePort, Return, CheckStop, Iterate, Sigint
  <2>2. ASSUME NEW l \in Lcores, Thread(l)
        PROVE  /\ ThreadLeft(worker'[l]) < ThreadLeft(worker[l])
               /\ \A k \in Lcores : k # l => worker'[k] = worker[k]
    <3>1. PICK s \in IF worker[l] = "check" THEN {"WAIT"} ELSE AfterCall(worker[l]) :
             worker' = [worker EXCEPT ![l] = s]
      BY <2>2 DEF Thread, CheckStop, Iterate, Calls
    <3>2. worker[l] \in Calls \cup {"check"}
      BY <2>2 DEF Thread, CheckStop, Iterate
    <3>3. worker'[l] = s /\ \A k \in Lcores : k # l => worker'[k] = worker[k]
      BY <1>1, <3>1 DEF EndInv
    <3> QED
      BY <3>1, <3>2, <3>3 DEF AfterCall, Calls, ThreadLeft
  <2>3. ASSUME NEW l \in Lcores, ~Thread(l) PROVE worker'[l] = worker[l]
    BY <2>1, <2>2, <2>3
  <2> QED
    BY <2>1, <2>2, <2>3
<1>2. EndInv /\ Values /\ [Next]_vars => [Step]_vars
  BY <1>1
<1> QED
  BY <1>2, LifecycleEndInvariant, LifecycleValues, PTL DEF Spec, ThreadDescends
=============================================================================
