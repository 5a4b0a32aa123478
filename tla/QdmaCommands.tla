---------------------------- MODULE QdmaCommands ----------------------------
(***************************************************************************)
(* The command line of the QDMA test application (server/src/commands.c):  *)
(* commands that set ports up, reset, close and remove them, access        *)
(* registers and queues, and move a file to or from the card over several  *)
(* queues.  One thread reads commands from the terminal and, through       *)
(* load_cmds, from files that may again contain load_cmds.                 *)
(*                                                                         *)
(* port_init, port_reset, port_close, port_remove, do_xmit, do_recv_* and  *)
(* the driver are not in the repository: they are modelled from how the    *)
(* handlers use them, and where a handler drops a result, with every       *)
(* outcome.  A number that is typed is a natural number here.              *)
(***************************************************************************)
EXTENDS Integers

CONSTANTS
  NumPorts,    (* num_ports                                                *)
  MaxQueues,   (* MAX_NUM_QUEUES                                           *)
  BramSize,    (* BRAM_SIZE                                                *)
  PortIds,     (* port ids typed                                           *)
  PortArgs,    (* num_queues, st_queues and buff_size typed                *)
  Queues,      (* numbers and ids of queues typed                          *)
  Addresses,   (* dst_addr and src_addr typed, as what strtoull with base  *)
               (* 0 and atoi make of them: 4096 and 0 for "0x1000"         *)
  Sizes,       (* size typed                                               *)
  LoopCounts,  (* loops typed                                              *)
  MaxScripts   (* bound on load_cmds within load_cmds                      *)

ASSUME CommandAssumption ==
  /\ NumPorts \in Nat /\ MaxQueues \in Nat /\ BramSize \in Nat \ {0}
  /\ PortIds \subseteq Nat
  /\ PortArgs \subseteq
        [num_queues : Nat, st_queues : Nat, buff_size : Nat \ {0}]
  /\ Queues \subseteq Nat /\ Addresses \subseteq [strtoull : Nat, atoi : Nat]
  /\ Sizes \subseteq Nat /\ LoopCounts \subseteq Nat
  /\ MaxScripts \in Nat

VARIABLES
  pinfo,     (* num_queues, st_queues and buff_size of each port           *)
  removed,   (* the ports whose device is gone                             *)
  loopback,  (* ST_LOOPBACK_EN is set in the port's C2H_CONTROL_REG        *)
  files,     (* files that are open                                        *)
  scripts,   (* calls of load_cmds under way                               *)
  call,      (* the port a diagnostic command has just asked for           *)
  request,   (* the arguments of a transfer that is not accepted yet       *)
  xfer       (* the locals of a transfer under way                         *)

portVars == <<pinfo, removed, loopback>>
vars == <<portVars, files, scripts, call, request, xfer>>

Ports     == 0..(NumPorts - 1)
NoCall    == -1
NoRequest == [dir |-> "none"]
Idle      == [dir |-> "none"]

(* The prompt: a command can start.                                        *)
Prompt == request = NoRequest /\ xfer = Idle

-----------------------------------------------------------------------------
ValidCount(a) == a.num_queues >= 1 /\ a.num_queues <= MaxQueues

(* port_init: refused on a port that has queues; nothing happens to a      *)
(* device that is gone.  The handler only prints whether it has failed, so *)
(* that pinfo may or may not have been filled in.                          *)
PortInit(p, a) ==
  /\ Prompt /\ p \in Ports
  /\ pinfo[p].num_queues = 0 /\ ValidCount(a)
  /\ \/ p \notin removed /\ pinfo' = [pinfo EXCEPT ![p] = a]
     \/ UNCHANGED pinfo
  /\ call' = NoCall
  /\ UNCHANGED <<removed, loopback, files, scripts, request, xfer>>

(* The handler clears num_queues, and says "closed successfully", whether  *)
(* or not port_close has come as far as closing the device.                *)
PortClose(p) ==
  /\ Prompt /\ p \in Ports
  /\ pinfo[p].num_queues # 0
  /\ pinfo' = [pinfo EXCEPT ![p].num_queues = 0]
  /\ call' = NoCall
  /\ UNCHANGED <<removed, loopback, files, scripts, request, xfer>>

(* port_reset: of any port, initialised or not; it closes the port and     *)
(* initialises it, and may fail before, between or after.                  *)
PortReset(p, a) ==
  /\ Prompt /\ p \in Ports /\ ValidCount(a)
  /\ \/ p \notin removed
        /\ pinfo' \in {[pinfo EXCEPT ![p].num_queues = 0], [pinfo EXCEPT ![p] = a]}
     \/ UNCHANGED pinfo
  /\ call' = NoCall
  /\ UNCHANGED <<removed, loopback, files, scripts, request, xfer>>

(* Faulty variants, named ..._<fault>, stand before the definitions they   *)
(* vary; the specification does not use them.                              *)
PortRemove_Forgets(p) ==
  /\ Prompt /\ p \in Ports
  /\ removed' \in {removed, removed \cup {p}}
  /\ call' = NoCall
  /\ UNCHANGED <<pinfo, loopback, files, scripts, request, xfer>>

(* port_remove: the device is gone, unless that fails; num_queues is       *)
(* cleared either way.                                                     *)
PortRemove(p) ==
  /\ Prompt /\ p \in Ports
  /\ removed' \in {removed, removed \cup {p}}
  /\ pinfo' = [pinfo EXCEPT ![p].num_queues = 0]
  /\ call' = NoCall
  /\ UNCHANGED <<loopback, files, scripts, request, xfer>>

-----------------------------------------------------------------------------
(* reg_write of an aligned address: of the registers only C2H_CONTROL_REG  *)
(* matters to another command.                                             *)
RegWrite(p) ==
  /\ Prompt /\ p \in Ports
  /\ \E bit \in BOOLEAN : loopback' = [loopback EXCEPT ![p] = bit]
  /\ call' = NoCall
  /\ UNCHANGED <<pinfo, removed, files, scripts, request, xfer>>

(* The commands that only read registers: they change nothing.             *)
RegCommand(p) ==
  /\ Prompt /\ p \in Ports
  /\ call' = NoCall
  /\ UNCHANGED <<portVars, files, scripts, request, xfer>>

RegRead(p)     == RegCommand(p)
RegDump(p)     == RegCommand(p)
RegInfoRead(p) == RegCommand(p)

(* The commands that hand a queue id to the driver.                        *)
QueueCommand(p, q) ==
  /\ Prompt /\ p \in Ports
  /\ q < pinfo[p].num_queues
  /\ call' = p
  /\ UNCHANGED <<portVars, files, scripts, request, xfer>>

QueueDump(p, q) == QueueCommand(p, q)
Qstats(p, q)    == QueueCommand(p, q)
QstatsClr(p, q) == QueueCommand(p, q)
DescDump(p, q)  == QueueCommand(p, q)

-----------------------------------------------------------------------------
(* A transfer of `input` bytes over the queues 0 to n - 1.  The handler    *)
(* opens the file before it looks at its arguments; every way out of it    *)
(* has a close() of its own.                                               *)
Close == files' = files - 1

Open(dir, p, n, start, input, loops) ==
  /\ Prompt
  /\ files' = files + 1
  /\ request' = [dir |-> dir, port |-> p, n |-> n, start |-> start, input |-> input,
                 loops |-> loops]
  /\ call' = NoCall
  /\ UNCHANGED <<portVars, scripts, xfer>>

DmaToDevice(p, n, addr, input, loops) == Open("to", p, n, addr.strtoull, input, loops)

DmaFromDevice(p, n, addr, input, loops) == Open("from", p, n, addr.atoi, input, loops)

(* The arguments as far as the guards of the handler have let them pass.   *)
Asked       == request # NoRequest
PortKnown   == Asked /\ request.port \in Ports
QueuesThere == PortKnown /\ request.n <= pinfo[request.port].num_queues
SomeQueue   == QueuesThere /\ request.n # 0
InMemory    == SomeQueue /\ request.start + request.input <= BramSize
Accepted    == InMemory /\ (request.input = 0 => request.n <= pinfo[request.port].st_queues)

Refused == request' = NoRequest /\ UNCHANGED <<portVars, scripts, call, xfer>>

RefusePort   == Asked /\ ~PortKnown /\ Close /\ Refused
RefuseCount  == PortKnown /\ ~QueuesThere /\ Close /\ Refused
RefuseNone   == QueuesThere /\ ~SomeQueue /\ Close /\ Refused
RefuseMemory == SomeQueue /\ ~InMemory /\ Close /\ Refused

(* Fault: a length of zero is refused without close().                     *)
RefuseLength_Leaks == InMemory /\ ~Accepted /\ Refused /\ UNCHANGED files

RefuseLength == InMemory /\ ~Accepted /\ Close /\ Refused

Transfer(q) ==
  [dir |-> q.dir, port |-> q.port, n |-> q.n, start |-> q.start, input |-> q.input,
   loops |-> q.loops, size |-> q.input \div q.n, r |-> q.input % q.n,
   loopback |-> loopback[q.port],
   loop |-> 0, i |-> 0, total |-> q.input, addr |-> q.start, q_data |-> 0,
   ld |-> 0, moved |-> 0]

Accept ==
  /\ Accepted
  /\ xfer' = Transfer(request) /\ request' = NoRequest
  /\ UNCHANGED <<portVars, files, scripts, call>>

Buff(x)      == pinfo[x.port].buff_size
Streaming(x) == x.i < pinfo[x.port].st_queues

(* The memory address of queue x.i.                                        *)
Address(x) == (x.addr + x.q_data) % BramSize

(* Where in the file the bytes of queue x.i are: a streaming queue sends   *)
(* the beginning of the file unless the card loops its data back.          *)
FileOffset(x) ==
  IF x.dir = "to" /\ Streaming(x) /\ ~x.loopback THEN 0
  ELSE (x.input \div x.n) * x.i

(* Fault: the remainder is dropped.                                        *)
ToDeviceShare_DropsRest(x) == IF x.total = 0 THEN Buff(x) ELSE x.size

(* The bytes of queue x.i: size, with the remainder for the one that has   *)
(* that much left, and a whole buffer for those that have nothing left to  *)
(* send.                                                                   *)
ToDeviceShare(x) ==
  IF x.total = 0 THEN Buff(x)
  ELSE IF x.total = x.r + x.size THEN x.total ELSE x.size

FromDeviceShare(x) == IF x.total = x.r + x.size THEN x.total ELSE x.size

Share(x) == IF x.dir = "to" THEN ToDeviceShare(x) ELSE FromDeviceShare(x)

Left(x) == IF x.total = 0 \/ x.total = x.r + x.size THEN 0 ELSE x.total - x.size

(* Fault: one descriptor too many when the last one is full.               *)
Descs_OneMore(q, b) == IF q < b THEN 1 ELSE q \div b + 1

(* tot_num_desc for q bytes in buffers of b bytes.                         *)
Descs(q, b) == IF q < b THEN 1 ELSE q \div b + (IF q % b = 0 THEN 0 ELSE 1)

(* ld_size: when the descriptors are all full it is not assigned and keeps *)
(* what an earlier queue, of this or of the previous iteration, has left.  *)
LastSize(q, b, ld) == IF q >= b /\ q % b = 0 THEN ld ELSE q % b

(* do_xmit, do_recv_mm: all descriptors are full if ld is 0; else the last *)
(* one has ld bytes.  do_recv_st is told the number of bytes.              *)
Moved(x, q, b, ld) ==
  IF x.dir = "from" /\ Streaming(x) THEN q
  ELSE (IF ld = 0 THEN Descs(q, b) ELSE Descs(q, b) - 1) * b + ld

Returned == xfer' = Idle /\ UNCHANGED <<portVars, scripts, call, request>>

(* Fault: the next queue starts where this one started.                    *)
QueueDone_KeepsAddress ==
  /\ xfer # Idle
  /\ xfer.i < xfer.n
  /\ LET q  == Share(xfer)
         ld == LastSize(q, Buff(xfer), xfer.ld)
     IN  xfer' = [xfer EXCEPT !.i = @ + 1, !.addr = Address(xfer),
                              !.q_data = 0, !.total = Left(xfer), !.ld = ld,
                              !.moved = @ + Moved(xfer, q, Buff(xfer), ld)]
  /\ UNCHANGED <<portVars, files, scripts, call, request>>

(* One queue of the inner loop.                                            *)
QueueDone ==
  /\ xfer # Idle
  /\ xfer.i < xfer.n
  /\ LET q  == Share(xfer)
         ld == LastSize(q, Buff(xfer), xfer.ld)
     IN  xfer' = [xfer EXCEPT !.i = @ + 1, !.addr = Address(xfer),
                              !.q_data = q, !.total = Left(xfer), !.ld = ld,
                              !.moved = @ + Moved(xfer, q, Buff(xfer), ld)]
  /\ UNCHANGED <<portVars, files, scripts, call, request>>

(* The address of a memory-mapped queue cannot be set, the position in the *)
(* file cannot, before or (from the device) after the move, or do_xmit,    *)
(* do_recv_st or do_recv_mm fails.                                         *)
InQueue       == xfer # Idle /\ xfer.i < xfer.n
EndpointFails == InQueue /\ ~Streaming(xfer) /\ Close /\ Returned
SeekFails     == InQueue /\ Close /\ Returned
MoveFails     == InQueue /\ Close /\ Returned
SeekEndFails  == InQueue /\ xfer.dir = "from" /\ Close /\ Returned

EndOfBody == xfer # Idle /\ xfer.i = xfer.n

NextIteration(loop) ==
  /\ xfer' = [xfer EXCEPT !.loop = loop, !.i = 0, !.total = xfer.input,
                          !.addr = xfer.start, !.q_data = 0, !.moved = 0]
  /\ UNCHANGED <<portVars, files, scripts, call, request>>

(* Fault: the iterations are not counted.                                  *)
EndIteration_NoCount ==
  /\ EndOfBody
  /\ \/ 1 < xfer.loops /\ NextIteration(1)
     \/ 1 >= xfer.loops /\ Close /\ Returned

(* The end of the body of do ... while (loop < num_loops).                 *)
EndIteration ==
  /\ EndOfBody
  /\ \/ xfer.loop + 1 < xfer.loops /\ NextIteration(xfer.loop + 1)
     \/ xfer.loop + 1 >= xfer.loops /\ Close /\ Returned

TransferStep ==
  \/ RefusePort \/ RefuseCount \/ RefuseNone \/ RefuseMemory \/ RefuseLength \/ Accept
  \/ QueueDone \/ EndIteration
  \/ EndpointFails \/ SeekFails \/ MoveFails \/ SeekEndFails

-----------------------------------------------------------------------------
(* load_cmds: the commands of a file are fed to the parser one after the   *)
(* other, from within the command.                                         *)
LoadCmds ==
  /\ Prompt /\ scripts < MaxScripts
  /\ files' = files + 1 /\ scripts' = scripts + 1
  /\ call' = NoCall
  /\ UNCHANGED <<portVars, request, xfer>>

EndOfFile ==
  /\ Prompt /\ scripts > 0
  /\ Close /\ scripts' = scripts - 1
  /\ call' = NoCall
  /\ UNCHANGED <<portVars, request, xfer>>

Init ==
  /\ pinfo = [p \in Ports |-> [num_queues |-> 0, st_queues |-> 0, buff_size |-> 1]]
  /\ removed = {}
  /\ loopback = [p \in Ports |-> FALSE]
  /\ files = 0 /\ scripts = 0
  /\ call = NoCall /\ request = NoRequest /\ xfer = Idle

PortCommand ==
  \E p \in PortIds :
     \/ \E a \in PortArgs : PortInit(p, a) \/ PortReset(p, a)
     \/ PortClose(p) \/ PortRemove(p)
     \/ RegRead(p) \/ RegWrite(p) \/ RegDump(p) \/ RegInfoRead(p)
     \/ \E q \in Queues : QueueDump(p, q) \/ Qstats(p, q) \/ QstatsClr(p, q) \/ DescDump(p, q)

DmaCommand ==
  \E p \in PortIds, n \in Queues, addr \in Addresses, input \in Sizes, loops \in LoopCounts :
     \/ DmaToDevice(p, n, addr, input, loops)
     \/ DmaFromDevice(p, n, addr, input, loops)

Next == PortCommand \/ DmaCommand \/ TransferStep \/ LoadCmds \/ EndOfFile

Spec == Init /\ [][Next]_vars

(* A handler that has started runs on: do_xmit and do_recv return.         *)
FairSpec == Spec /\ WF_vars(TransferStep)

-----------------------------------------------------------------------------
PortInfo == [num_queues : Nat, st_queues : Nat, buff_size : Nat \ {0}]

Requests ==
  [dir : {"to", "from"}, port : Nat, n : Nat, start : Nat, input : Nat, loops : Nat]

Transfers ==
  [dir : {"to", "from"}, port : Ports, n : Nat \ {0}, start : Nat, input : Nat,
   loops : Nat, size : Nat, r : Nat, loopback : BOOLEAN,
   loop : Nat, i : Nat, total : Nat, addr : Nat, q_data : Nat,
   ld : Nat, moved : Nat]

TypeOK ==
  /\ pinfo \in [Ports -> PortInfo]
  /\ removed \subseteq Ports
  /\ loopback \in [Ports -> BOOLEAN]
  /\ files \in Nat /\ scripts \in Nat
  /\ call \in Ports \cup {NoCall}
  /\ request \in Requests \cup {NoRequest}
  /\ xfer \in Transfers \cup {Idle}
  /\ request = NoRequest \/ xfer = Idle

(* Every file is closed exactly once, whichever of the five guards refuses *)
(* a transfer, whichever call for whichever queue of whichever iteration   *)
(* fails, and from within any script.                                      *)
FilesClosed == files = scripts + (IF Prompt THEN 0 ELSE 1)

(* Once a device is gone neither a queue command nor a transfer reaches    *)
(* it, whatever was typed before and after and whichever of the commands   *)
(* on ports failed: of the device the handlers look at num_queues only.    *)
NothingForRemoved ==
  /\ call # NoCall => call \notin removed
  /\ xfer # Idle => xfer.port \notin removed

(* Every queue of the transfer has at least a byte to carry.               *)
Spread == xfer # Idle /\ xfer.size >= 1

(* A queue's part of the memory starts as far from the address that the    *)
(* command has made of what was typed as its part of the file does from    *)
(* the beginning, and ends within the memory: the parts neither overlap    *)
(* nor wrap.  Exempt are streaming queues that are not looped back, which  *)
(* have no part of the memory.                                             *)
FileMatchesMemory ==
  Spread /\ xfer.i < xfer.n =>
     /\ \/ Address(xfer) = xfer.start + FileOffset(xfer)
        \/ Streaming(xfer) /\ FileOffset(xfer) = 0
     /\ Address(xfer) + Share(xfer) <= BramSize

(* No queue has a full last descriptor where another one's is partial,     *)
(* which is when LastSize hands on a stale ld_size.                        *)
SameRest ==
  xfer.size % Buff(xfer) = 0 <=> (xfer.size + xfer.r) % Buff(xfer) = 0

(* "transmit data on the number of Queues configured from the input file": *)
(* every iteration moves the whole input, each byte once, if every queue   *)
(* has something to carry and no stale ld_size is used.                    *)
SplitExact == Spread /\ SameRest /\ xfer.i = xfer.n => xfer.moved = xfer.input

(* Even with a stale ld_size no iteration moves more than the input.       *)
NeverTooMuch == Spread => xfer.moved <= xfer.input

(* A transfer command returns to the prompt, however many iterations were  *)
(* asked for.                                                              *)
CommandReturns == ~Prompt ~> Prompt
=============================================================================
