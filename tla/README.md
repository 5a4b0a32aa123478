# A TLA+ model of P2P-MFS traffic inspection

The repository is a traffic-inspection prototype: FPGA cards (OpenNIC shell with
two user plugins) receive and send packets, a DPDK application on the server
forwards packets between the ports of a card, and a clock-synchronisation packet
lets the cards count common periods and stamp packets with them.  This directory
holds TLA+ modules of its parts, TLC configurations that check them on small
instances, and TLAPS proofs of the main results for every value of the constants.

Paths below are relative to `src/`.

## Inventory

| Part | State it keeps | Operations | What makes it correct |
|---|---|---|---|
| Software forwarder, `server/src/pipeline.cpp` | two threads with local mbuf arrays; `Onic::mbuf_ring` (SP/SC); the rx port's mempool; the tx queue; `stop_flag` | rx burst, bulk enqueue, free; dequeue burst, tx burst, free the rest | each mbuf has one owner; packets leave in the order they came; the ring is served; both threads stop |
| Application life cycle, `server/src/main.cpp` | contexts and their stop flags, lcores, `sigkill`, the cards `onic0`, `onic1` on main's stack | launch, monitor, stop, wait for lcores, return (destroys the cards) | nothing is dismantled under a running thread; SIGINT ends the process |
| QDMA port, `onic_port.h/.cpp` | `PortInfo` with lock and queue count; device, queues, mempool in DPDK | init, close, reset, remove, event callbacks, destructor | one thread at a time works on the device; queues keep their mempool; the lock is released |
| Card, `onic.h/.cpp` | ring, ports, CMAC registers | init hardware, read CMAC counters, reset | no reset hits a CMAC that is up; polling ends; counters add up to what arrived |
| Sync counter, `fpga/hw/IPs/clk_sync_pulse` | mode, period and their synchronisers, `nb_sync`, `curr_tick`, registered comparison | one clock edge | a counter with a fixed period (master) or one that follows pulses (slave) |
| Sync detection, `packet_detect.sv`, `p2p_322mhz.sv` | `in_packet` per stream, two registers behind an OR | one clock edge | one pulse per sync packet |
| Timestamp injection, `timestamp_inject.sv` | none | choose a slot, overwrite it | each hop uses the next free slot |
| Sync packet generator, `server/src_clk_sync/main.cpp` | next send time, the packet, clones in the queue | set up, send when due | one packet per period, none early; no mbuf is lost |
| Timestamp receiver (`fpga_rx_final_thread` in `pipeline.cpp`) and statistics, `stats.h/.cpp` | `stats_ring`, previous time, Kafka handles | receive and hand over timestamp packets; read, format, produce; extract latencies | an mbuf handed over is not freed; intervals tile the time; both threads stop |
| QDMA command line, `commands.c` | its port table `pinfo`, open files, a transfer under way | register and queue access, DMA to/from queues, port init/reset/close/remove, command files | transfers move each byte once; files are closed; nothing reaches a device that is gone |
| 250 MHz box, address maps, plugin instances, register maps, test benches, scripts, containers | wiring and constants | - | - |

How they interact: `main` builds two `Onic`s, each with a ring and two `OnicPort`s;
a `ForwardingContext` names an rx and a tx port of a card; its two threads share
that card's ring and nothing else with `main` but the stop flag.  `~Onic` and
`~OnicPort` run when `main` returns.  On the card, `packet_detect` watches the four
streams between the CMACs and the adapters, and its detections drive
`clk_sync_pulse`, whose counts `timestamp_inject` writes into the packet.

The hard behaviours are the two forwarding threads sharing mbufs, a full ring, a
device that sends part of a burst or never completes, shutdown while the threads
are in DPDK calls, resets of a port from several threads, driver calls failing
half way, registers without reset, pipelined comparisons, counters that wrap,
packets that overlap, stall or are cut by a reset, statistics that reading destroys,
locals that a transfer over several queues keeps in step, and pacing after a stall.  `PROJECT.json` lists each under
"hazards" at its line, with the properties that cover it or the reason none does.

## Modules

* `ForwardChannel` - what forwarding promises: packets received join a waiting
  line, are posted in order, and may be dropped only as a whole new burst or as the
  unsent rest of one.
* `MbufPipeline` - `fpga_rx_thread` and `fpga_tx_thread`, one action per call
  (`RxCheck RxBurst RxEnqueue RxFree`, `TxCheck TxDequeue TxPost TxFree`), the
  completions of the driver (`PmdReclaim`, part of `rte_eth_tx_burst`) and the stop
  flag.  An mbuf is a model value; the state holds the *references* to it: how many
  the mempool has, and the sequences in the arrays, the ring and the tx queue.
  `BulkResult` is what the four-argument `rte_ring_enqueue_bulk` that the code calls
  returns: the number of objects it has taken, all or none.
* `AppLifecycle` - `main`, and the threads reduced to the calls they make and the
  ports those touch.  Actions are `LaunchRx LaunchTx CheckSigkill ReadStats
  StopContext WaitLcore EndWait Delay ResetOnic RemovePort Return`, per thread
  `CheckStop Iterate`, and `Sigint`.  `Lcores` is the set of lcore ids of option `-l`.
* `OnicPort` - one port.  The methods share `port_init` and `port_close`, so a
  thread is described by the method it is in (`op`) and its place (`pc`).  `Faults` are
  the driver calls that may fail, `LockGarbage` what the uninitialised lock of the
  member may hold (the constructor initialises the lock of its parameter).  A
  thread other than the owner stands for DPDK's interrupt thread in a callback or
  for any other caller.  `Destroy` is `~OnicPort`: it takes no lock and may come while
  another thread is in a method.  That no call *begins* after it has begun is an
  obligation of the callers, and the guard `Usable` of `Call`.
* `SyncCounter` - a counter of periods or pulses, without pipeline registers.
* `ClkSyncPulse` - every register of `clk_sync_pulse_regs.sv`, one action per edge
  in and out of reset, plus the reset itself; wires are operators.  Registers hold
  any value of `PowerUp` before the first reset.
* `SyncPath` - extends `ClkSyncPulse` with `packet_detect` on the two streams of CMAC
  port 0 and the OR with its two registers.  A beat is its `tlast` and its bytes 12
  to 15.  The reset of `packet_detect` is left unconnected, which synthesis ties to 0,
  so that `in_packet` is held in reset and every beat is looked at like a first one.
  The detections of port 1 come from another clock domain: `far` is the level that an
  edge finds, any at any edge.  A reset clears the streams and may cut a packet.
* `CmacMonitor` - the CMACs of the cards.  `WaitShell ResetCmac WaitReset CheckVersion
  EnableReset WaitAgain Configure AllCmacs` are `init_hardware` with `enable_cmac`, card
  after card; `ResetDone` is the shell.  Afterwards each reader goes through `Tick
  ReadTotal ReadGood GetCmacDebugStats GetCmacStats` for its CMACs, register by register
  while packets arrive, and ends a round with `Monitor` (the loop of `main`, whose
  comparison of `rx_total_pkts` only decides about printing) or `Produce`
  (`run_cmac_producer`); `Leave` is the end of a reader's loop.  `total` and `good` stand for each pair of counters.  Ghosts
  hold what arrived and what was returned.
* `SyncSender` - the program that sends sync packets: `SetUp` (each call may fail),
  `Build` or `BuildFails` (the packet does not fit), and the loop `Poll Clone CloneFails Burst` against a timer that runs as it
  likes, a mempool, and a transmit queue that completes any number of packets at a
  burst.
* `StatsPath` - `fpga_rx_final_thread` (`RxCheck RxBurst Look`) and `run_stats_producer`
  (`ProdCheck GetStats ProduceStats Extract Delay DestroyCopies`), with `stats_ring` as
  the sequence of mbufs it points to.  `Extract` reads the forwarder's ring and not
  `stats_ring` (`stats.cpp:130`); the first mbuf it gets fails an assertion of
  `Timestamps` (`stats.h:55`, false on any little-endian host), which ends the process.
  `DestroyCopies` is the return of the producer, which destroys its copies of the two
  ports (`stats.cpp:13`) and thereby closes and removes live ones.  The order of packets
  in a queue is left out, and `rte_delay_ms` is a step of any length.
* `QdmaCommands` - the terminal of `commands.c`, one action per command.  A transfer
  opens its file first: `request` holds its arguments while the guards of the handler
  look at them (`RefusePort RefuseCount RefuseNone RefuseMemory RefuseLength`, each with
  its own `Close`, or `Accept`), then `xfer` the handler's locals, and `QueueDone
  EndpointFails SeekFails MoveFails SeekEndFails EndIteration` are the body of its inner
  loop and its ends.  An address is what `strtoull` with base 0 (`dma_to_device`) and
  `atoi` (`dma_from_device`) make of the same text.  `pinfo` is the only thing the commands
  know of a port, `removed` the devices that are gone.  `port_init`, `port_reset`,
  `port_close`, `port_remove`, `do_xmit` and `do_recv_*` are not in the repository; where a
  handler drops their result they may have any outcome.
* `MC...` modules instantiate them for TLC; `...Proofs` modules hold the theorems.

Definitions named `X_<Fault>` next to a definition `X` are faulty variants of it; no
specification uses them.  They show that the checks notice such a fault.

## Runs

| Run | What it asks | Result |
|---|---|---|
| `pipeline_count` | With the ring API compiled against: where can references to mbufs appear or vanish? Is it still a FIFO channel, is the ring served, do both threads stop? | only in the rx freeing loop, at a full ring and at a full mempool; yes to the rest |
| `pipeline_overflow` | `SingleOwner` with the API compiled against | violated: taken bursts are freed, refused ones forgotten (`pipeline.cpp:45`) |
| `sync_path` | Masters and slaves through power-up, resets and wrap, with traffic on both ports: does a slave count each sync packet of port 0 once, and does its tick count stay 0? Is a master a counter with periods of one length, and does it pulse for ever? | yes; beats inside packets and port 1 add to the count, and are accounted for |
| `clk_sync_period` | Has a master's period `DEFAULT_PERIOD` ticks, as the comments and the test bench say? | violated: one more (`clk_sync_pulse_regs.sv:236`) |
| `sync_path_vlan` | Are the sync application's packets detected? | violated: byte order of the constants |
| `lifecycle_contiguous` | With lcores 0 to 14: are threads waited for, is nothing used after teardown, does SIGINT end the process? | yes |
| `lifecycle_script` | The same waiting with lcore ids above their number, like the ids of `run_onicapp.sh` | violated: nobody is waited for |
| `port_calls` | Owner and two callers, failing driver calls, a destructor in the middle: exclusion, backing of queues, mempool names. What does a reset leave? Is the lock given back? | holds, the destructor's exclusion excepted; a port without queues, after every reset; yes, if its memory looked free |
| `cmac_monitor` | Are exactly the right CMACs left up? Do the statistics of a CMAC with one reader add up and show one instant? Do the constructors return? | yes |
| `sync_sender` | Is a packet ever early, a period skipped, an mbuf or reference lost? Has the loop caught up when it waits? Can the pool be empty? | no; yes; a pool two mbufs larger than the queue cannot, a smaller one can |
| `stats_ring` | Is an mbuf that `stats_ring` points to the stats core's, as the comments say? | violated: it is freed at once (`pipeline.cpp:98`) |
| `commands` | After any commands: are files closed, does nothing reach a device that is gone, do transfers match file and memory, move each byte once, and return? | yes, for at least one byte per queue and but for a stale `ld_size` |

The five violated runs are the findings of `PROJECT.json`: code and comment disagree
there, and the model follows the code.  One more disagreement has no behaviour to check:
`clk_sync_pulse_regs.sv:31` gives the mode `SLAVE` the comment "in master mode by default".

### Bounds and why they are enough

* Pipeline: three mbufs, bursts of up to two, a ring of two and one descriptor
  (two in `pipeline_overflow`).  Then the ring can be empty, partly and completely
  full, a burst can fit exactly or be refused, a transmission can be partial, and an mbuf
  can be in the mempool twice.
  The mempool of `pipeline_count` has exactly as many slots as mbufs, so that a
  surplus reference meets a full mempool.  The safety results are proved for all sizes.
* Sync counter: words of 2 bits and a period of 2 with packets, of 3 bits and a period of 4
  in `clk_sync_period`, so that counts wrap within a few periods; the reset lasts 4
  edges, the least that settles the pipeline (`RESET_DURATION` is 100); power-up values
  include one inside and one outside the period.
* Sync path: the header that the constants match and the application's (in `sync_path_vlan`
  another one too, which the detector treats like the second), single- and multi-beat
  packets, stalls on tx, any level of port 1, and a master as well as a slave.
* Life cycle: 15 lcores as in the script.  `lifecycle_script` uses 16 to 31
  without 23 instead of 168 to 183 without 175: only "larger than 15" matters.
* Port: three threads, two queues, and either content of the uninitialised lock.
* CMACs: two cards of two CMACs as in `main`, every combination of core versions,
  two readers of which one shares a CMAC with the other, two packets and fields of two
  values: a packet can arrive between any two register reads, and fields wrap.
* Sender: period 3, two descriptors, pools of 3 (which can run empty) and 4 (which
  cannot), 16 cycles, so that stalls of several periods fit.
* Statistics: three mbufs, bursts of two and a `stats_ring` of one; one packet suffices for
  the violation.  The arithmetic of the intervals is proved and not run.
* Commands: two ports, and an id beyond them; set-ups of 2 queues (both streaming, buffers
  of 2) and 3 queues (one streaming, buffers of 3); a memory of 9; sizes 0, 1, 4, 7 and
  9 give remainders, full and partial last descriptors, a stale `ld_size`, fewer bytes
  than queues and a transfer that ends at the end of the memory; loop counts 0 and 2;
  one command file.  Addresses are read alike and differently by the two commands ("0",
  "2", "0x2").  A port id, queue id or size is only compared, divided or added, and the
  theorems hold for all of them.

### Fairness

* Pipeline: weak fairness of each thread, which runs alone on its lcore
  (`rte_eal_remote_launch`).  The device and SIGINT owe nothing.
* Life cycle: weak fairness of `main` and of each thread; SIGINT is not fair.
* Sync counter: the clock runs and `generic_reset` ends the resets it begins.
* CMACs: the polling loops run on, and the shell ends every reset it was asked for.
  Without that the code does not return: it has no time limit.
* Sender: the program has a core of its own, and the timer runs.
* Commands: a handler that has begun a transfer runs on; the user need type nothing.
* Port: a thread inside a method keeps running.  Nobody need call, and the
  spinlock is not fair, so `LockReleased` says that the lock is released, not that a
  given caller gets it.

`CHECK_DEADLOCK FALSE` is set where the threads or the process end, and for the sender,
whose set-up may fail.

## What is proved

Constants range over everything the named `ASSUME` of a module allows.
Each of these modules has a type invariant; it is only a matter of types, so the
proof stands for it and no run repeats it.  Every safety invariant that a passing run
checks, every action property and both refinements are theorems.

* `MbufPipelineProofs`.  Assumption: the mempool has at least as many slots as
  there are mbufs, a burst at least one.  `PipelineTypeOK` is inductive as it stands
  (it ties the program counters to the arrays being empty).  `PipelineConserved` follows
  step by step from it.  `PipelineImplementsChannel` maps the waiting line to the tx array
  followed by the ring; it needs only the typing.
* `ClkSyncPulseProofs`, the block.  Assumption: the reset lasts at least four edges.  The
  properties of a running block are not inductive: the values come from the reset.
  The invariant `IInv` adds `ResetSettles` (itself a theorem), which says how far the
  defaults have travelled after k edges of a reset; at release it gives the initial
  case of `RunsOnDefaults`, that no power-up value is left.  `ClkSyncImplementsCounter` then
  shows each edge to be a step of `SyncCounter`, with the period of the circuit
  (`LastTick + 1`, which is `DEFAULT_PERIOD + 1` for any period above 1).
* `ClkSyncPulseProofs`, the path.  `PathImplementsClkSync` composes: whatever packets come,
  the detectors, the OR and the registers drive the block as `ClkSyncPulse` allows, so
  all of its theorems hold of the path.  `PathSyncsCounted` needs that what the two
  registers hold at the end of a reset is put to the second count, and that counts
  are added modulo the word; it holds of any traffic on both ports and through resets
  that cut packets.  `PathMissesApplication` is the consequence of the finding of
  `sync_path_vlan`: a port that carries nothing but the bytes of the sync application is
  never detected.
* `AppLifecycleProofs`.  The waiting loop of `main` counts to `rte_lcore_count()`.  It does its
  work under one condition on the ids of option `-l`, `Counted`: the two lcores
  that get a thread have ids below that count.  The code does not check it, ids 0 to n-1
  satisfy it (`LifecycleContiguous`) and those of `run_onicapp.sh` do not.  The
  invariant says that only these two lcores leave WAIT, and that below `lcore_id` every
  one is back in it.
* `OnicPortProofs`.  For any number of threads, any faults and any initial content of
  the lock.  `PortSoleOperator` needs that the lock is held while a method is under
  way, and that construction excludes calls; the destructor, which takes no lock, is
  its exception and not one of the other theorems'.  `PortQueuesBacked` adds what
  each place of `port_close` and `port_init` has already done.  `PortNoNameClash` needs
  `PoolGone`: from the end of `port_close` to `port_init` there is no mempool.  It assumes
  that the capabilities can be read (`"capabilities" \notin Faults`); otherwise
  `port_close` returns early, the mempool stays, and a reset exits.  `PortResetLosesQueues`
  follows from what `num_queues` is at each place of a method (`QueueCount`).  `PortMethodReturns`
  and `PortLockReleased` (see below) are about what becomes of a caller.
* `QdmaCommandsProofs`.  For any ports, queues, sizes, addresses and loop counts.
  `FileMatchesMemory`, `SplitExact` and `NeverTooMuch` speak of one place in a transfer and need
  `XferOK`, which gives address, bytes left and bytes moved as functions of the queues
  served, and says when `ld_size` is 0.  `NothingForRemoved` needs that a device that is gone
  has no queues in `pinfo`, which every command keeps, failing or not, and that a request
  names a port with queues once it is accepted.  `FilesClosed` goes through all ways out.
* `CmacMonitorProofs`.  For any cards, readers and reading orders.  `MonitorCmacsUp` needs
  what is up in the middle of `init_hardware` (`HwInv`).  `MonitorNothingLost` keeps a
  balance for each CMAC, modulo the field's width, and `MonitorOneInstant` that what a
  reader has copied is still latched; both only for CMACs with one reader.
* `SyncSenderProofs`.  `SenderNeverEarly` needs that `next_tsc` is a whole number of periods
  from the start (`OnGrid`).  `SenderDueWhenWaiting` needs in addition that the loop is never
  more than one period ahead of the clock, and `SenderNoneSkipped` that what has been due
  has been counted (`Counted`).  `SenderCloneSucceeds` follows from the count of mbufs.
* `StatsPathProofs`.  `StatsTypeOK` is the type invariant; `StatsDeltaTiles` says that the
  reported intervals tile the time, which no run repeats.  The invariant adds to `DeltaTiles` that `old_time` equals
  `curr_time` between two messages and the clock is never behind (`Times`); the truncation
  of each division is bounded by `DeltaBounds`.

One liveness property is proved.  `PortMethodReturns` and `PortLockReleased` assume `FairSpec`
and `[]NeverBlocked`: a thread past the lock can take a step.  It is a hypothesis because
the prover cannot expand `ENABLED`; the guards of `Step` show it, of which exactly one is
true at each place past the lock, and `port_calls` checks `LockReleased` itself without it.
From there the argument is for any threads and faults.  A method is at most nine
statements without a loop (`PortMethodEnds`); nobody else moves the thread, so its fairness
takes it from each level to a lower one or out.  A holder of the lock stays inside until it
unlocks, does not stay inside for ever, and so unlocks or the process exits.

The other liveness properties have measures as large as a burst, a file or the number of
lcores, and would need induction over temporal formulas, which the prover does not have.
Most of them rest on a measure that every
step of a thread lowers and no other step raises, and that part is safety.  It is proved
for every value of the constants; that the steps are taken at all is fairness, and
stays with TLC.

| Checked | Theorem | Measure |
|---|---|---|
| `StopTerminates` | `PipelineStopDescends` | steps to the end of each loop body, at most `Burst` + 3 |
| `SigintExits` | `LifecycleMainDescends`, `LifecycleThreadDescends` | steps of `main`, at most 20 and one per lcore; calls left of a stopped thread, at most 4; for any lcores |
| `MasterPulses` | `ClkSyncMasterTicks` | ticks to the end of the period |
| `InitReturns` | `MonitorInitAdvances` | place in `init_hardware`: card, CMAC, call |
| `CommandReturns` | `CommandsTransferDescends` | iterations, then queues, left |
| `RingServed` | `PipelineRingDescends` | place in the ring, which nothing overtakes; then steps of the tx thread to the ring, at most `Burst` + 2 |
| `EveryPeriod` | `SenderDueWhenWaiting` | none: the loop waits only when every period that has begun has been due |

Only model-checked: the properties of this table.

## Not modelled

* `timestamp_inject.sv` (combinational; its hazard is listed in `PROJECT.json`),
  the streams of the second CMAC port beyond the level of their detections, and the
  register slices.
* The arithmetic of `Timestamps` (`stats.h`): it works on bytes that its constructor has
  just appended, and on `timestamp_curr_tick`, which is never written.
* `create_kafka_topic`, the Kafka client, the wording of messages, log lines and printed
  counters, and the debug fields of `CmacStats`.  What the console shows: `main.cpp:198` compares
  `rx_total_pkts` only, so that a change of the other seven counters alone is not printed.
* What a caller of a port finds whose uninitialised lock looks taken: it waits for ever.
* Ports left open by a `port_close` that could not read the capabilities, as the command
  line sees them: it clears `num_queues` and says "closed successfully" (`commands.c:322`).
* Token tables, help and quit of `commands.c`; negative or malformed numbers; the reads of
  `pinfo` beyond its end that precede the comparison with `num_ports`.  The file is
  derived from the QDMA test application and not built by the Makefile.
* Address and register maps, the 250 MHz box, test benches, scripts, patches and
  containers: they have no behaviour of their own here.
* Queue selection (round robin over one queue), and the contents of packets other than
  the bytes the detectors read.

`StatsPath`'s threads, the CMAC producer and the command line are modelled although `main`
launches none of them in this version.

## Plan

1. `TimestampInject`: the slots of a stamped packet over several hops (inverted
   slot test, header overwritten when all slots are empty); then `SyncPath` with the
   packets of the second clock domain.
2. Composition of life cycle, port and pipeline: ownership of mbufs across
   teardown; and of the pipeline with a producer that takes from its ring.
3. Latency arithmetic modulo 2^64, once the timestamps are read from the packet.
4. Proofs of the compositions of point 2.
