------------------------- MODULE QdmaCommandsProofs -------------------------
(***************************************************************************)
(* Theorems about QdmaCommands for any number of ports and queues, any     *)
(* memory, any buffers and whatever is typed.                              *)
(*                                                                         *)
(* The transfer needs the strengthening XferOK: in the middle of an        *)
(* iteration the address, the bytes left and the bytes moved are functions *)
(* of the number of queues served, and ld_size is 0 as long as every share *)
(* is a multiple of the buffer.                                            *)
(***************************************************************************)
EXTENDS QdmaCommands, TLAPS

(* Before queue x.i of an iteration in which every queue has something.    *)
Underway(x) ==
  /\ x.addr + x.q_data = x.start + x.size * x.i
  /\ x.total = x.input - x.size * x.i
  /\ x.moved <= x.size * x.i

(* What is exact when no stale ld_size can be used.                        *)
Exact(x) ==
  /\ x.i < x.n => x.moved = x.size * x.i
  /\ x.i = x.n => x.moved = x.input
  /\ x.size % Buff(x) = 0 => x.ld = 0

Same(x) == x.size % Buff(x) = 0 <=> (x.size + x.r) % Buff(x) = 0

XferOK(x) ==
  /\ x.i <= x.n
  /\ x.size = x.input \div x.n /\ x.r < x.n
  /\ x.input = x.size * x.n + x.r
  /\ x.start + x.input <= BramSize
  /\ x.ld < Buff(x)
  /\ x.size >= 1 =>
       /\ x.i < x.n => Underway(x)
       /\ x.i = x.n => x.moved <= x.input
       /\ Same(x) => Exact(x)

IInv ==
  /\ TypeOK
  /\ FilesClosed
  /\ xfer # Idle => XferOK(xfer)

-----------------------------------------------------------------------------
(* Integer division by a positive number (the loops of commands.c divide   *)
(* by the number of queues and by the size of a buffer).                   *)
LEMMA DivMod ==
  ASSUME NEW a \in Nat, NEW b \in Nat, b # 0
  PROVE  /\ a \div b \in Nat /\ a % b \in Nat /\ a % b < b
         /\ a = b * (a \div b) + (a % b)
         /\ a < b => a % b = a
  OBVIOUS

(* What Transfer's quotient and remainder are of its input.                *)
LEMMA Quotient ==
  ASSUME NEW a \in Nat, NEW n \in Nat, n # 0
  PROVE  /\ a \div n \in Nat /\ a % n \in Nat /\ a % n < n
         /\ a = (a \div n) * n + (a % n)
  BY DivMod

(* Going on to the next queue, and the queues that are still to come.      *)
LEMMA Products ==
  ASSUME NEW s \in Nat, NEW i \in Nat, NEW n \in Nat, i < n
  PROVE  /\ s * i \in Nat /\ s * n \in Nat
         /\ s * (i + 1) = s * i + s
         /\ s * i + s <= s * n
         /\ i + 1 = n => s * n = s * i + s
         /\ s >= 1 /\ i + 1 < n => s * i + s < s * n
  <1>1. s * i \in Nat /\ s * n \in Nat /\ s * (i + 1) = s * i + s
    OBVIOUS
  <1>2. s * (i + 1) <= s * n
    OBVIOUS
  <1>3. s >= 1 /\ i + 1 < n => s * (i + 1) < s * n
    OBVIOUS
  <1> QED BY <1>1, <1>2, <1>3

(* The descriptors of q bytes: the last one is never full in ld_size, and  *)
(* they carry q bytes, or fewer when a stale ld_size is used.              *)
Carried(q, b, l) == (IF l = 0 THEN Descs(q, b) ELSE Descs(q, b) - 1) * b + l

LEMMA Descriptors ==
  ASSUME NEW q \in Nat, NEW b \in Nat, b # 0, NEW ld \in Nat, ld < b
  PROVE  LET l == LastSize(q, b, ld)
         IN  /\ l \in Nat /\ l < b
             /\ Carried(q, b, l) \in Nat
             /\ q >= 1 => Carried(q, b, l) <= q
             /\ q >= 1 /\ (q % b # 0 \/ ld = 0) => Carried(q, b, l) = q
             /\ q % b = 0 /\ ld = 0 => l = 0
  <1> DEFINE l == LastSize(q, b, ld)
  <1>1. CASE q < b
    <2>1. q % b = q /\ Descs(q, b) = 1 /\ l = q
      BY <1>1, DivMod DEF Descs, LastSize
    <2>2. Carried(q, b, l) = IF q = 0 THEN b ELSE q
      BY <2>1 DEF Carried
    <2> QED BY <1>1, <2>1, <2>2
  <1>2. CASE q >= b /\ q % b = 0
    <2> DEFINE d == q \div b
    <2>1. d \in Nat /\ q = b * d /\ d >= 1
      BY <1>2, DivMod
    <2>2. Descs(q, b) = d /\ l = ld
      BY <1>2, <2>1 DEF Descs, LastSize
    <2>3. (d - 1) * b + ld \in Nat /\ (d - 1) * b + ld <= q /\ d * b = q
      BY <2>1
    <2> QED BY <1>2, <2>1, <2>2, <2>3 DEF Carried
  <1>3. CASE q >= b /\ q % b # 0
    <2> DEFINE d == q \div b
    <2>1. d \in Nat /\ q % b \in Nat /\ q % b < b /\ q = b * d + (q % b)
      BY DivMod
    <2>2. Descs(q, b) = d + 1 /\ l = q % b
      BY <1>3, <2>1 DEF Descs, LastSize
    <2>3. Carried(q, b, l) = d * b + (q % b)
      BY <1>3, <2>1, <2>2 DEF Carried
    <2> QED BY <1>3, <2>1, <2>2, <2>3
  <1> QED BY <1>1, <1>2, <1>3
-----------------------------------------------------------------------------
LEMMA InitIInv == Init => IInv
  BY CommandAssumption DEF Init, IInv, TypeOK, FilesClosed, PortInfo, Ports, Prompt

(* What closing a port does to pinfo.                                      *)
LEMMA Emptied ==
  ASSUME NEW info \in [Ports -> PortInfo], NEW p \in Ports
  PROVE  /\ [info EXCEPT ![p].num_queues = 0] \in [Ports -> PortInfo]
         /\ [info EXCEPT ![p].num_queues = 0][p].num_queues = 0
         /\ \A o \in Ports \ {p} : [info EXCEPT ![p].num_queues = 0][o] = info[o]
  <1>1. info[p] \in PortInfo
    OBVIOUS
  <1>2. /\ [info[p] EXCEPT !.num_queues = 0] \in PortInfo
        /\ [info[p] EXCEPT !.num_queues = 0].num_queues = 0
    BY <1>1 DEF PortInfo
  <1>3. [info EXCEPT ![p].num_queues = 0]
          = [info EXCEPT ![p] = [info[p] EXCEPT !.num_queues = 0]]
    OBVIOUS
  <1> HIDE DEF PortInfo
  <1> QED BY <1>2, <1>3

(* The commands on ports: no transfer is under way, before or after.       *)
LEMMA PortStep ==
  ASSUME IInv, NEW p \in PortIds,
         \/ \E a \in PortArgs : PortInit(p, a) \/ PortReset(p, a)
         \/ PortClose(p) \/ PortRemove(p)
  PROVE  IInv'
  <1>1. /\ Prompt /\ p \in Ports /\ call' = NoCall
        /\ UNCHANGED <<loopback, files, scripts, request, xfer>>
    BY DEF PortInit, PortReset, PortClose, PortRemove
  <1>2. PortArgs \subseteq PortInfo
    BY CommandAssumption DEF PortInfo
  <1>3. pinfo' \in [Ports -> PortInfo]
    <2>1. pinfo \in [Ports -> PortInfo]
      BY DEF IInv, TypeOK
    <2>2. \/ pinfo' = pinfo
          \/ pinfo' = [pinfo EXCEPT ![p].num_queues = 0]
          \/ \E a \in PortArgs : pinfo' = [pinfo EXCEPT ![p] = a]
      BY DEF PortInit, PortReset, PortClose, PortRemove
    <2> QED BY <1>1, <1>2, <2>1, <2>2, Emptied
  <1>4. removed' \subseteq Ports
    <2>1. removed' \in {removed, removed \cup {p}}
      BY DEF PortInit, PortReset, PortClose, PortRemove
    <2> QED BY <1>1, <2>1 DEF IInv, TypeOK
  <1> QED BY <1>1, <1>3, <1>4 DEF IInv, TypeOK, FilesClosed, Prompt

(* Registers, diagnostics and scripts leave ports and transfers alone.     *)
LEMMA OtherStep ==
  ASSUME IInv,
         \/ \E p \in PortIds :
               \/ RegRead(p) \/ RegWrite(p) \/ RegDump(p) \/ RegInfoRead(p)
               \/ \E q \in Queues : \/ QueueDump(p, q) \/ Qstats(p, q)
                                    \/ QstatsClr(p, q) \/ DescDump(p, q)
         \/ LoadCmds \/ EndOfFile
  PROVE  IInv'
  <1> USE CommandAssumption DEF IInv, TypeOK, FilesClosed, Ports, Prompt, portVars
  <1>1. ASSUME NEW p \in PortIds, RegRead(p) \/ RegDump(p) \/ RegInfoRead(p)
        PROVE  IInv'
    BY <1>1 DEF RegRead, RegDump, RegInfoRead, RegCommand
  <1>2. ASSUME NEW p \in PortIds, RegWrite(p) PROVE IInv'
    BY <1>2 DEF RegWrite
  <1>3. ASSUME NEW p \in PortIds, NEW q \in Queues,
               QueueDump(p, q) \/ Qstats(p, q) \/ QstatsClr(p, q) \/ DescDump(p, q)
        PROVE  IInv'
    BY <1>3 DEF QueueDump, Qstats, QstatsClr, DescDump, QueueCommand
  <1>4. CASE LoadCmds
    BY <1>4 DEF LoadCmds
  <1>5. CASE EndOfFile
    BY <1>5 DEF EndOfFile, Close
  <1> QED BY <1>1, <1>2, <1>3, <1>4, <1>5
-----------------------------------------------------------------------------
(* The file is opened and the arguments are kept.                          *)
LEMMA OpenStep ==
  ASSUME IInv, NEW dir \in {"to", "from"}, NEW p \in PortIds, NEW n \in Queues,
         NEW start \in Nat, NEW input \in Sizes, NEW loops \in LoopCounts,
         Open(dir, p, n, start, input, loops)
  PROVE  IInv'
  <1> DEFINE q == [dir |-> dir, port |-> p, n |-> n, start |-> start, input |-> input,
                   loops |-> loops]
  <1>1. /\ request = NoRequest /\ xfer = Idle /\ request' = q /\ files' = files + 1
        /\ call' = NoCall /\ UNCHANGED <<pinfo, removed, loopback, scripts, xfer>>
    BY DEF Open, Prompt, portVars
  <1>2. q \in Requests
    BY CommandAssumption DEF Requests
  <1>3. q # NoRequest
    BY DEF NoRequest
  <1> HIDE DEF q
  <1> QED BY <1>1, <1>2, <1>3 DEF IInv, TypeOK, FilesClosed, Prompt

(* A guard refuses the transfer: its close() leaves the scripts' files.    *)
Refusal == RefusePort \/ RefuseCount \/ RefuseNone \/ RefuseMemory \/ RefuseLength

LEMMA RefuseStep ==
  ASSUME IInv, Refusal
  PROVE  IInv'
  <1>1. /\ request # NoRequest /\ files' = files - 1 /\ request' = NoRequest
        /\ UNCHANGED <<pinfo, removed, loopback, scripts, call, xfer>>
    BY DEF Refusal, RefusePort, RefuseCount, RefuseNone, RefuseMemory, RefuseLength, InMemory,
       SomeQueue, QueuesThere, PortKnown, Asked, Refused, Close, portVars
  <1> QED BY <1>1 DEF IInv, TypeOK, FilesClosed, Prompt

(* The guards let the transfer pass.                                       *)
LEMMA AcceptStep ==
  ASSUME IInv, Accept
  PROVE  IInv'
  <1> DEFINE x == Transfer(request)
             n == request.n
             input == request.input
  <1>1. /\ request # NoRequest /\ request \in Requests /\ request.port \in Ports
        /\ n # 0 /\ request.start + input <= BramSize
    BY DEF Accept, Accepted, InMemory, SomeQueue, QueuesThere, PortKnown, Asked, IInv, TypeOK
  <1>2. /\ n \in Nat \ {0} /\ input \in Nat /\ request.start \in Nat
        /\ request.loops \in Nat /\ request.dir \in {"to", "from"}
    BY <1>1 DEF Requests
  <1>3. /\ xfer = Idle /\ xfer' = x /\ request' = NoRequest
        /\ UNCHANGED <<pinfo, removed, loopback, files, scripts, call>>
    BY <1>1 DEF Accept, IInv, TypeOK, portVars
  <1>4. /\ input \div n \in Nat /\ input % n \in Nat /\ input % n < n
        /\ input = (input \div n) * n + (input % n)
    <2> HIDE DEF n, input
    <2> QED BY <1>2, Quotient
  <1>5. loopback[request.port] \in BOOLEAN /\ pinfo[request.port].buff_size \in Nat \ {0}
    BY <1>1 DEF IInv, TypeOK, PortInfo
  <1>6. x \in Transfers
    BY <1>1, <1>2, <1>4, <1>5 DEF Transfer, Transfers
  <1>7. x # Idle
    BY DEF Transfer, Idle
  <1>8. TypeOK' /\ FilesClosed'
    <2> HIDE DEF x
    <2> QED BY <1>1, <1>3, <1>6, <1>7 DEF IInv, TypeOK, FilesClosed, Prompt
  <1>9. XferOK(xfer)'
    <2>1. /\ x.i = 0 /\ x.n = n /\ x.size = input \div n /\ x.r = input % n
          /\ x.input = input /\ x.start = request.start /\ x.ld = 0 /\ x.moved = 0
          /\ x.total = input /\ x.addr = request.start /\ x.q_data = 0
          /\ x.port = request.port
      BY DEF Transfer
    <2> HIDE DEF x, n, input
    <2>2. x.size * x.i = 0
      BY <1>4, <2>1
    <2>3. Underway(x)
      BY <1>2, <2>1, <2>2 DEF Underway
    <2>4. Exact(x)
      BY <1>2, <2>1, <2>2 DEF Exact
    <2>5. XferOK(x)
      <3>1. x.ld < Buff(x)
        BY <1>5, <2>1 DEF Buff
      <3>2. x.input = x.size * x.n + x.r /\ x.r < x.n /\ x.size = x.input \div x.n
        BY <1>4, <2>1
      <3>3. x.i <= x.n /\ x.i # x.n /\ x.start + x.input <= BramSize
        BY <1>1, <1>2, <2>1
      <3> QED BY <2>3, <2>4, <3>1, <3>2, <3>3 DEF XferOK
    <2>6. xfer' = x /\ pinfo' = pinfo
      BY <1>3
    <2>7. Buff(xfer)' = Buff(x)
      BY <2>6 DEF Buff
    <2>8. (Same(xfer)' <=> Same(x)) /\ (Exact(xfer)' <=> Exact(x))
      BY <2>6, <2>7 DEF Same, Exact
    <2>9. Underway(xfer)' <=> Underway(x)
      BY <2>6 DEF Underway
    <2> QED BY <2>5, <2>6, <2>7, <2>8, <2>9 DEF XferOK
  <1> QED BY <1>3, <1>8, <1>9 DEF IInv

(* A queue of the inner loop: its share, and what that leaves.             *)
LEMMA ShareOK ==
  ASSUME TypeOK, xfer # Idle, XferOK(xfer), xfer.i < xfer.n
  PROVE  /\ Share(xfer) \in Nat /\ Left(xfer) \in Nat
         /\ xfer.size >= 1 =>
              /\ xfer.i + 1 < xfer.n =>
                   /\ Share(xfer) = xfer.size
                   /\ Left(xfer) = xfer.input - xfer.size * (xfer.i + 1)
              /\ xfer.i + 1 = xfer.n => /\ Share(xfer) = xfer.size + xfer.r
                                        /\ Left(xfer) = 0
              /\ Share(xfer) >= 1
              /\ xfer.size * xfer.i + Share(xfer) <= xfer.input
              /\ xfer.i + 1 = xfer.n =>
                   xfer.size * xfer.i + Share(xfer) = xfer.input
  <1>1. xfer \in Transfers /\ Buff(xfer) \in Nat \ {0}
    BY DEF TypeOK, PortInfo, Transfers, Buff
  <1> DEFINE s == xfer.size
             i == xfer.i
             n == xfer.n
  <1>2. /\ s \in Nat /\ i \in Nat /\ n \in Nat /\ xfer.r \in Nat
        /\ xfer.total \in Nat /\ xfer.input \in Nat /\ i < n
    BY <1>1 DEF Transfers
  <1>3. CASE s = 0
    BY <1>1, <1>2, <1>3
       DEF Share, ToDeviceShare, FromDeviceShare, Left
  <1>4. CASE s >= 1
    <2>1. /\ s * i \in Nat /\ s * n \in Nat /\ s * (i + 1) = s * i + s
          /\ s * i + s <= s * n
          /\ i + 1 = n => s * n = s * i + s
          /\ i + 1 < n => s * i + s < s * n
      <3> HIDE DEF s, i, n
      <3> QED BY <1>2, <1>4, Products
    <2>2. /\ xfer.total = xfer.input - s * i
          /\ xfer.input = s * n + xfer.r
      BY <1>2, <1>4 DEF XferOK, Underway
    <2>3. /\ xfer.total # 0 /\ xfer.total >= s
          /\ i + 1 < n => xfer.total # xfer.r + s
          /\ i + 1 = n => xfer.total = xfer.r + s
      <3> DEFINE a == s * i
                 c == s * n
      <3>1. /\ a \in Nat /\ c \in Nat /\ a + s <= c
            /\ xfer.total = xfer.input - a /\ xfer.input = c + xfer.r
            /\ i + 1 = n => c = a + s
            /\ i + 1 < n => a + s < c
        BY <2>1, <2>2
      <3> HIDE DEF a, c
      <3> QED BY <1>2, <1>4, <3>1
    <2>4. /\ i + 1 < n => Share(xfer) = s /\ Left(xfer) = xfer.total - s
          /\ i + 1 = n => Share(xfer) = s + xfer.r /\ Left(xfer) = 0
      BY <1>2, <2>3 DEF Share, ToDeviceShare, FromDeviceShare, Left
    <2> DEFINE a == s * i
               a1 == s * (i + 1)
               c == s * n
    <2>5. /\ a \in Nat /\ c \in Nat /\ a1 = a + s /\ a + s <= c
          /\ xfer.total = xfer.input - a /\ xfer.input = c + xfer.r
          /\ i + 1 = n => c = a + s
      BY <2>1, <2>2
    <2>6. /\ Share(xfer) \in Nat /\ Left(xfer) \in Nat /\ Share(xfer) >= 1
          /\ i + 1 < n => Left(xfer) = xfer.input - a1
          /\ a + Share(xfer) <= xfer.input
          /\ i + 1 = n => a + Share(xfer) = xfer.input
      <3> HIDE DEF a, a1, c
      <3>1. i + 1 < n \/ i + 1 = n
        BY <1>2
      <3> QED BY <1>2, <1>4, <2>3, <2>4, <2>5, <3>1
    <2> QED BY <1>4, <2>4, <2>6
  <1> QED BY <1>2, <1>3, <1>4

(* Its address: its share of the file, as far into the memory.             *)
LEMMA AddressOK ==
  ASSUME TypeOK, xfer # Idle, XferOK(xfer), xfer.i < xfer.n
  PROVE  /\ Address(xfer) \in Nat
         /\ xfer.size >= 1 =>
              /\ Address(xfer) = xfer.start + xfer.size * xfer.i
              /\ Address(xfer) + Share(xfer) <= BramSize
  <1> DEFINE a == xfer.size * xfer.i
  <1>1. /\ xfer.addr \in Nat /\ xfer.q_data \in Nat /\ xfer.start \in Nat
        /\ xfer.size \in Nat /\ xfer.i \in Nat /\ xfer.input \in Nat
        /\ BramSize \in Nat \ {0}
    BY CommandAssumption DEF TypeOK, Transfers
  <1>2. xfer.addr + xfer.q_data \in Nat
    BY <1>1
  <1>3. Address(xfer) \in Nat
    <2> HIDE DEF a
    <2> QED BY <1>1, <1>2, DivMod DEF Address
  <1>4. CASE xfer.size >= 1
    <2>1. /\ xfer.addr + xfer.q_data = xfer.start + a
          /\ xfer.start + xfer.input <= BramSize
      BY <1>1, <1>4 DEF XferOK, Underway
    <2>2. /\ Share(xfer) \in Nat /\ Share(xfer) >= 1 /\ a + Share(xfer) <= xfer.input
      BY <1>4, ShareOK
    <2>3. a \in Nat
      BY <1>1
    <2> HIDE DEF a
    <2>4. xfer.addr + xfer.q_data < BramSize
      BY <1>1, <2>1, <2>2, <2>3
    <2>5. Address(xfer) = xfer.addr + xfer.q_data
      BY <1>1, <1>2, <2>4, DivMod DEF Address
    <2>6. Address(xfer) = xfer.start + a /\ Address(xfer) + Share(xfer) <= BramSize
      BY <1>1, <2>1, <2>2, <2>3, <2>5
    <2> QED BY <1>3, <2>6 DEF a
  <1> QED BY <1>1, <1>3, <1>4

(* What do_xmit and do_recv are given to carry.                            *)
LEMMA MovedOK ==
  ASSUME TypeOK, xfer # Idle, XferOK(xfer), xfer.i < xfer.n
  PROVE  LET q == Share(xfer)
             b == Buff(xfer)
             l == LastSize(q, b, xfer.ld)
             m == Moved(xfer, q, b, l)
         IN  /\ l \in Nat /\ l < b /\ m \in Nat
             /\ q >= 1 => m <= q
             /\ q >= 1 /\ (q % b # 0 \/ xfer.ld = 0) => m = q
             /\ q % b = 0 /\ xfer.ld = 0 => l = 0
  <1> DEFINE q == Share(xfer)
             b == Buff(xfer)
             l == LastSize(q, b, xfer.ld)
             m == Moved(xfer, q, b, l)
  <1>1. xfer \in Transfers /\ b \in Nat /\ b # 0 /\ xfer.ld \in Nat
    BY DEF TypeOK, PortInfo, Transfers, Buff
  <1>2. q \in Nat /\ xfer.ld < b
    BY ShareOK DEF XferOK
  <1>3. m = q \/ m = Carried(q, b, l)
    BY DEF Moved, Carried
  <1> HIDE DEF q, b, m
  <1>4. /\ l \in Nat /\ l < b
        /\ Carried(q, b, l) \in Nat
        /\ q >= 1 => Carried(q, b, l) <= q
        /\ q >= 1 /\ (q % b # 0 \/ xfer.ld = 0) => Carried(q, b, l) = q
        /\ q % b = 0 /\ xfer.ld = 0 => l = 0
    BY <1>1, <1>2, Descriptors
  <1> HIDE DEF l
  <1>5. /\ l \in Nat /\ l < b /\ m \in Nat
        /\ q >= 1 => m <= q
        /\ q >= 1 /\ (q % b # 0 \/ xfer.ld = 0) => m = q
        /\ q % b = 0 /\ xfer.ld = 0 => l = 0
    BY <1>2, <1>3, <1>4
  <1> QED BY <1>5 DEF q, b, l, m

(* A local of the transfer is given another value.                         *)
LEMMA Updated ==
  ASSUME NEW x \in Transfers, NEW k \in Nat
  PROVE  /\ [x EXCEPT !.loop = k] \in Transfers
         /\ [x EXCEPT !.i = k] \in Transfers
         /\ [x EXCEPT !.addr = k] \in Transfers
         /\ [x EXCEPT !.q_data = k] \in Transfers
         /\ [x EXCEPT !.total = k] \in Transfers
         /\ [x EXCEPT !.ld = k] \in Transfers
         /\ [x EXCEPT !.moved = k] \in Transfers
  BY DEF Transfers

(* A queue is served: the next one finds everything as XferOK says.        *)
LEMMA QueueDoneStep ==
  ASSUME IInv, QueueDone
  PROVE  IInv'
  <1> DEFINE q == Share(xfer)
             b == Buff(xfer)
             l == LastSize(q, b, xfer.ld)
             m == Moved(xfer, q, b, l)
             s == xfer.size
             i == xfer.i
             n == xfer.n
  <1>1. /\ xfer \in Transfers /\ xfer # Idle /\ XferOK(xfer) /\ i < n /\ TypeOK
        /\ UNCHANGED <<pinfo, removed, loopback, files, scripts, call, request>>
    BY DEF QueueDone, IInv, TypeOK, portVars
  <1>2. xfer' = [xfer EXCEPT !.i = @ + 1, !.addr = Address(xfer), !.q_data = q,
                             !.total = Left(xfer), !.ld = l, !.moved = @ + m]
    BY DEF QueueDone
  <1>3. /\ s \in Nat /\ i \in Nat /\ n \in Nat /\ xfer.r \in Nat /\ b \in Nat \ {0}
        /\ xfer.input \in Nat /\ xfer.start \in Nat /\ xfer.moved \in Nat
        /\ xfer.ld \in Nat
    BY <1>1 DEF Transfers, TypeOK, PortInfo, Buff
  <1>4. /\ q \in Nat /\ Left(xfer) \in Nat /\ Address(xfer) \in Nat
        /\ l \in Nat /\ l < b /\ m \in Nat
    BY <1>1, ShareOK, AddressOK, MovedOK
  <1>5. /\ xfer'.i = i + 1 /\ xfer'.addr = Address(xfer) /\ xfer'.q_data = q
        /\ xfer'.total = Left(xfer) /\ xfer'.ld = l /\ xfer'.moved = xfer.moved + m
        /\ xfer'.size = s /\ xfer'.n = n /\ xfer'.r = xfer.r
        /\ xfer'.input = xfer.input /\ xfer'.start = xfer.start
        /\ xfer'.port = xfer.port
    <2> HIDE DEF q, l, m
    <2> QED BY <1>1, <1>2 DEF Transfers
  <1>6. xfer' \in Transfers
    <2>1. i + 1 \in Nat /\ xfer.moved + m \in Nat
      BY <1>3, <1>4
    <2> DEFINE x1 == [xfer EXCEPT !.i = i + 1]
               x2 == [x1 EXCEPT !.addr = Address(xfer)]
               x3 == [x2 EXCEPT !.q_data = q]
               x4 == [x3 EXCEPT !.total = Left(xfer)]
               x5 == [x4 EXCEPT !.ld = l]
    <2> HIDE DEF q, l, m
    <2>2. x1 \in Transfers /\ x2 \in Transfers /\ x3 \in Transfers
      <3>1. x1 \in Transfers
        BY <1>1, <2>1, Updated
      <3> HIDE DEF x1
      <3>2. x2 \in Transfers
        BY <1>4, <3>1, Updated
      <3> HIDE DEF x2
      <3> QED BY <1>4, <3>1, <3>2, Updated
    <2>3. x5 \in Transfers
      <3> HIDE DEF x3
      <3>1. x4 \in Transfers
        BY <1>4, <2>2, Updated
      <3> HIDE DEF x4
      <3> QED BY <1>4, <3>1, Updated
    <2>4. xfer' = [x5 EXCEPT !.moved = xfer.moved + m]
      BY <1>1, <1>2 DEF Transfers
    <2> HIDE DEF x5
    <2> QED BY <2>1, <2>3, <2>4, Updated
  <1>7. xfer' # Idle
    BY <1>5, <1>6 DEF Transfers, Idle
  <1>8. TypeOK' /\ FilesClosed'
    BY <1>1, <1>6, <1>7 DEF IInv, TypeOK, FilesClosed, Prompt
  <1>9. Buff(xfer)' = b
    BY <1>1, <1>5 DEF Buff
  <1>10. ASSUME s >= 1
         PROVE  /\ i + 1 < n => Underway(xfer)'
                /\ i + 1 = n => xfer'.moved <= xfer.input
                /\ Same(xfer) => Exact(xfer)'
    <2> DEFINE a == s * i
               a1 == s * (i + 1)
    <2>1. a \in Nat /\ a1 = a + s
      BY <1>1, <1>3, Products
    <2>2. /\ xfer.moved <= a
          /\ Same(xfer) => Exact(xfer)
      BY <1>1, <1>10 DEF XferOK, Underway
    <2>3. /\ i + 1 < n => q = s /\ Left(xfer) = xfer.input - a1
          /\ i + 1 = n => q = s + xfer.r
          /\ q >= 1
          /\ a + q <= xfer.input
          /\ i + 1 = n => a + q = xfer.input
      BY <1>1, <1>10, ShareOK
    <2>4. Address(xfer) = xfer.start + a
      BY <1>1, <1>10, AddressOK
    <2>5. /\ m <= q
          /\ q % b # 0 \/ xfer.ld = 0 => m = q
          /\ q % b = 0 /\ xfer.ld = 0 => l = 0
      BY <1>1, <2>3, MovedOK
    <2>6. i + 1 < n \/ i + 1 = n
      BY <1>1, <1>3
    <2> HIDE DEF q, b, l, m, s, i, n, a, a1
    <2>7. i + 1 < n => /\ Address(xfer) + q = xfer.start + a1
                       /\ xfer.moved + m <= a1
      BY <1>3, <1>4, <2>1, <2>2, <2>3, <2>4, <2>5
    <2>8. i + 1 = n => xfer.moved + m <= xfer.input
      BY <1>3, <1>4, <2>1, <2>2, <2>3, <2>5
    <2>9. i + 1 < n => Underway(xfer)'
      BY <1>5, <2>3, <2>7 DEF Underway, a1
    <2>10. ASSUME Same(xfer)
           PROVE  /\ i + 1 < n => xfer.moved + m = a1
                  /\ i + 1 = n => xfer.moved + m = xfer.input
                  /\ s % b = 0 => l = 0
      <3>1. /\ xfer.moved = a
            /\ s % b = 0 => xfer.ld = 0
        BY <1>1, <2>2, <2>10 DEF Exact, a, s, i, n, b
      <3>2. s % b = 0 <=> (s + xfer.r) % b = 0
        BY <2>10 DEF Same, s, b
      <3>3. s % b = 0 <=> q % b = 0
        BY <2>3, <2>6, <3>2
      <3>4. m = q
        BY <2>5, <3>1, <3>3
      <3> QED BY <1>3, <1>4, <2>1, <2>3, <2>5, <3>1, <3>3, <3>4
    <2>11. ASSUME Same(xfer) PROVE Exact(xfer)'
      BY <1>3, <1>5, <1>9, <2>6, <2>10, <2>11 DEF Exact, a1
    <2> QED BY <1>5, <2>8, <2>9, <2>11
  <1>11. XferOK(xfer)'
    <2> HIDE DEF q, l, m
    <2>1. Same(xfer)' <=> Same(xfer)
      BY <1>5, <1>9 DEF Same
    <2>2. i + 1 <= n
      BY <1>1, <1>3
    <2> QED BY <1>1, <1>4, <1>5, <1>9, <1>10, <2>1, <2>2 DEF XferOK
  <1> QED BY <1>7, <1>8, <1>11 DEF IInv

(* close() and the end of the handler.                                     *)
LEMMA ReturnStep ==
  ASSUME IInv, xfer # Idle, Close, Returned
  PROVE  IInv'
  <1>1. /\ files' = files - 1 /\ xfer' = Idle
        /\ UNCHANGED <<pinfo, removed, loopback, scripts, call, request>>
    BY DEF Close, Returned, portVars
  <1>2. request = NoRequest
    BY DEF IInv, TypeOK
  <1> QED BY <1>1, <1>2 DEF IInv, TypeOK, FilesClosed, Prompt

LEMMA EndIterationStep ==
  ASSUME IInv, EndIteration
  PROVE  IInv'
  <1>1. xfer \in Transfers /\ xfer # Idle /\ XferOK(xfer) /\ TypeOK
    BY DEF EndIteration, EndOfBody, IInv, TypeOK
  <1>2. CASE Close /\ Returned
    BY <1>1, <1>2, ReturnStep
  <1>3. CASE NextIteration(xfer.loop + 1)
    <2>0. /\ xfer' = [xfer EXCEPT !.loop = xfer.loop + 1, !.i = 0, !.total = xfer.input,
                                  !.addr = xfer.start, !.q_data = 0, !.moved = 0]
          /\ UNCHANGED <<pinfo, removed, loopback, files, scripts, call, request>>
      BY <1>3 DEF NextIteration, portVars
    <2>1. /\ xfer.loop \in Nat /\ xfer.input \in Nat /\ xfer.start \in Nat
          /\ xfer.size \in Nat /\ xfer.n \in Nat /\ 0 < xfer.n /\ xfer.i \in Nat
          /\ xfer.r \in Nat
      BY <1>1 DEF Transfers
    <2>2. xfer' \in Transfers
      <3> DEFINE x1 == [xfer EXCEPT !.loop = xfer.loop + 1]
                 x2 == [x1 EXCEPT !.i = 0]
                 x3 == [x2 EXCEPT !.total = xfer.input]
                 x4 == [x3 EXCEPT !.addr = xfer.start]
                 x5 == [x4 EXCEPT !.q_data = 0]
      <3>1. x1 \in Transfers
        <4>1. xfer.loop + 1 \in Nat
          BY <2>1
        <4> QED BY <1>1, <4>1, Updated
      <3> HIDE DEF x1
      <3>2. x2 \in Transfers
        BY <3>1, Updated
      <3> HIDE DEF x2
      <3>3. x3 \in Transfers
        BY <2>1, <3>2, Updated
      <3> HIDE DEF x3
      <3>4. x4 \in Transfers
        BY <2>1, <3>3, Updated
      <3> HIDE DEF x4
      <3>5. x5 \in Transfers
        BY <3>4, Updated
      <3>6. xfer' = [x5 EXCEPT !.moved = 0]
        BY <1>1, <2>0 DEF x1, x2, x3, x4, Transfers
      <3> HIDE DEF x5
      <3> QED BY <3>5, <3>6, Updated
    <2>3. /\ xfer'.i = 0 /\ xfer'.addr = xfer.start /\ xfer'.q_data = 0
          /\ xfer'.total = xfer.input /\ xfer'.ld = xfer.ld /\ xfer'.moved = 0
          /\ xfer'.size = xfer.size /\ xfer'.n = xfer.n /\ xfer'.r = xfer.r
          /\ xfer'.input = xfer.input /\ xfer'.start = xfer.start
          /\ xfer'.port = xfer.port
      BY <1>1, <2>0 DEF Transfers
    <2>4. xfer' # Idle
      BY <2>2 DEF Transfers, Idle
    <2>5. TypeOK' /\ FilesClosed'
      BY <1>1, <2>0, <2>2, <2>4 DEF IInv, TypeOK, FilesClosed, Prompt
    <2>6. Buff(xfer)' = Buff(xfer)
      BY <2>0, <2>3 DEF Buff
    <2>7. xfer.size * 0 = 0
      BY <2>1
    <2>8. ASSUME xfer.size >= 1 PROVE Underway(xfer)'
      BY <2>1, <2>3, <2>7 DEF Underway
    <2>9. ASSUME xfer.size >= 1, Same(xfer)' PROVE Exact(xfer)'
      <3>1. Same(xfer)
        BY <2>3, <2>6, <2>9 DEF Same
      <3>2. xfer.size % Buff(xfer) = 0 => xfer.ld = 0
        BY <1>1, <2>9, <3>1 DEF XferOK, Exact
      <3> QED BY <2>1, <2>3, <2>6, <2>7, <3>2 DEF Exact
    <2>10. XferOK(xfer)'
      <3>1. /\ xfer.size = xfer.input \div xfer.n /\ xfer.r < xfer.n
            /\ xfer.input = xfer.size * xfer.n + xfer.r
            /\ xfer.start + xfer.input <= BramSize
            /\ xfer.ld < Buff(xfer)
        BY <1>1 DEF XferOK
      <3>2. 0 <= xfer.n /\ xfer'.i # xfer'.n
        BY <2>1, <2>3
      <3>3. /\ xfer'.i <= xfer'.n
            /\ xfer'.size = xfer'.input \div xfer'.n /\ xfer'.r < xfer'.n
            /\ xfer'.input = xfer'.size * xfer'.n + xfer'.r
            /\ xfer'.start + xfer'.input <= BramSize
            /\ xfer'.ld < Buff(xfer)'
        BY <2>3, <2>6, <3>1, <3>2
      <3>4. xfer'.size >= 1 =>
              /\ xfer'.i < xfer'.n => Underway(xfer)'
              /\ xfer'.i = xfer'.n => xfer'.moved <= xfer'.input
              /\ Same(xfer)' => Exact(xfer)'
        BY <2>3, <2>8, <2>9, <3>2
      <3> QED BY <3>3, <3>4 DEF XferOK
    <2> QED BY <2>4, <2>5, <2>10 DEF IInv
  <1> QED BY <1>2, <1>3 DEF EndIteration

LEMMA NextIInv == IInv /\ [Next]_vars => IInv'
  <1> SUFFICES ASSUME IInv, [Next]_vars PROVE IInv'
    OBVIOUS
  <1>1. CASE PortCommand
    BY <1>1, PortStep, OtherStep DEF PortCommand
  <1>2. CASE DmaCommand
    BY <1>2, OpenStep, CommandAssumption DEF DmaCommand, DmaToDevice, DmaFromDevice
  <1>3. CASE TransferStep
    BY <1>3, RefuseStep, AcceptStep, QueueDoneStep, EndIterationStep, ReturnStep
       DEF TransferStep, Refusal, InQueue, EndpointFails, SeekFails, MoveFails, SeekEndFails
  <1>4. CASE LoadCmds \/ EndOfFile
    BY <1>4, OtherStep
  <1>5. CASE UNCHANGED vars
    BY <1>5 DEF vars, portVars, IInv, TypeOK, FilesClosed, Prompt, XferOK, Underway, Exact, Same, Buff
  <1> QED BY <1>1, <1>2, <1>3, <1>4, <1>5 DEF Next

LEMMA CommandsInvariant == Spec => []IInv
  BY InitIInv, NextIInv, PTL DEF Spec

-----------------------------------------------------------------------------
(* The tables of ports and the locals of a transfer keep their types: no   *)
(* byte count or address of the inner loop becomes negative.               *)
THEOREM CommandsTypeOK == Spec => []TypeOK
  <1>1. IInv => TypeOK
    BY DEF IInv
  <1> QED BY <1>1, CommandsInvariant, PTL

(* Every file of dma_to_device, dma_from_device and load_cmds is closed    *)
(* exactly once, by whichever of their close() calls.                      *)
THEOREM CommandsFilesClosed == Spec => []FilesClosed
  <1>1. IInv => FilesClosed
    BY DEF IInv
  <1> QED BY <1>1, CommandsInvariant, PTL

(* A queue's part of the memory is its part of the file, moved by the      *)
(* address that was typed, and never wraps.                                *)
THEOREM CommandsFileMatchesMemory == Spec => []FileMatchesMemory
  <1>1. IInv => FileMatchesMemory
    <2> SUFFICES ASSUME IInv, xfer # Idle, xfer.size >= 1, xfer.i < xfer.n
                 PROVE  /\ \/ Address(xfer) = xfer.start + FileOffset(xfer)
                           \/ Streaming(xfer) /\ FileOffset(xfer) = 0
                        /\ Address(xfer) + Share(xfer) <= BramSize
      BY DEF FileMatchesMemory, Spread
    <2>1. /\ Address(xfer) = xfer.start + xfer.size * xfer.i
          /\ Address(xfer) + Share(xfer) <= BramSize
      BY AddressOK DEF IInv
    <2>2. xfer.size = xfer.input \div xfer.n
      BY DEF IInv, XferOK
    <2> QED BY <2>1, <2>2 DEF FileOffset
  <1> QED BY <1>1, CommandsInvariant, PTL

(* Without a stale ld_size every iteration moves the whole input.          *)
THEOREM CommandsSplitExact == Spec => []SplitExact
  <1>1. IInv => SplitExact
    BY DEF IInv, XferOK, Exact, Same, SplitExact, SameRest, Spread
  <1> QED BY <1>1, CommandsInvariant, PTL

(* With or without, no iteration moves more than the input.                *)
THEOREM CommandsNeverTooMuch == Spec => []NeverTooMuch
  <1>1. IInv => NeverTooMuch
    <2> SUFFICES ASSUME IInv, xfer # Idle, xfer.size >= 1
                 PROVE  xfer.moved <= xfer.input
      BY DEF NeverTooMuch, Spread
    <2>1. /\ xfer \in Transfers /\ XferOK(xfer)
      BY DEF IInv, TypeOK
    <2>2. /\ xfer.size \in Nat /\ xfer.i \in Nat /\ xfer.n \in Nat /\ xfer.r \in Nat
          /\ xfer.moved \in Nat /\ xfer.input \in Nat
      BY <2>1 DEF Transfers
    <2>3. CASE xfer.i = xfer.n
      BY <2>1, <2>3 DEF XferOK
    <2>4. CASE xfer.i < xfer.n
      <3> DEFINE a == xfer.size * xfer.i
                 c == xfer.size * xfer.n
      <3>1. a \in Nat /\ c \in Nat /\ a + xfer.size <= c
        BY <2>2, <2>4, Products
      <3>2. xfer.moved <= a /\ xfer.input = c + xfer.r
        BY <2>1, <2>4 DEF XferOK, Underway
      <3> HIDE DEF a, c
      <3> QED BY <2>2, <3>1, <3>2
    <2>5. xfer.i <= xfer.n
      BY <2>1 DEF XferOK
    <2> QED BY <2>2, <2>3, <2>4, <2>5
  <1> QED BY <1>1, CommandsInvariant, PTL

-----------------------------------------------------------------------------
(* What keeps commands from a device that is gone.                         *)
NoQueuesLeft == \A p \in removed : pinfo[p].num_queues = 0

LEMMA RemovedPort ==
  ASSUME TypeOK, NoQueuesLeft, NEW p \in PortIds,
         \/ \E a \in PortArgs : PortInit(p, a) \/ PortReset(p, a)
         \/ PortClose(p) \/ PortRemove(p)
  PROVE  NoQueuesLeft'
  <1>1. p \in Ports /\ pinfo \in [Ports -> PortInfo] /\ removed \subseteq Ports
    BY DEF TypeOK, PortInit, PortReset, PortClose, PortRemove
  <1> DEFINE Closed == [pinfo EXCEPT ![p].num_queues = 0]
  <1>2. /\ Closed[p].num_queues = 0
        /\ \A o \in Ports \ {p} : Closed[o] = pinfo[o]
    BY <1>1, Emptied
  <1> HIDE DEF Closed
  <1>3. \/ removed' = removed /\ pinfo' = pinfo
        \/ removed' = removed /\ pinfo' = Closed
        \/ p \notin removed /\ removed' = removed
             /\ \E a \in PortArgs : pinfo' = [pinfo EXCEPT ![p] = a]
        \/ removed' = removed \cup {p} /\ pinfo' = Closed
    BY DEF PortInit, PortReset, PortClose, PortRemove, Closed
  <1>4. \A o \in removed : pinfo[o].num_queues = 0
    BY DEF NoQueuesLeft
  <1>5. CASE p \notin removed /\ removed' = removed
             /\ \E a \in PortArgs : pinfo' = [pinfo EXCEPT ![p] = a]
    <2>1. \A o \in removed : pinfo'[o] = pinfo[o]
      BY <1>1, <1>5
    <2> QED BY <1>4, <1>5, <2>1 DEF NoQueuesLeft
  <1> QED BY <1>1, <1>2, <1>3, <1>4, <1>5 DEF NoQueuesLeft

LEMMA RemovedStep ==
  TypeOK /\ NoQueuesLeft /\ NothingForRemoved /\ [Next]_vars
     => NoQueuesLeft' /\ NothingForRemoved'
  <1> SUFFICES ASSUME TypeOK, NoQueuesLeft, NothingForRemoved, [Next]_vars
               PROVE  NoQueuesLeft' /\ NothingForRemoved'
    OBVIOUS
  <1>1. ASSUME NEW p \in PortIds,
               \/ \E a \in PortArgs : PortInit(p, a) \/ PortReset(p, a)
               \/ PortClose(p) \/ PortRemove(p)
        PROVE  NoQueuesLeft' /\ NothingForRemoved'
    <2>1. call' = NoCall /\ xfer' = Idle
      BY <1>1 DEF PortInit, PortReset, PortClose, PortRemove, Prompt
    <2> QED BY <1>1, <2>1, RemovedPort DEF NothingForRemoved
  <1>2. ASSUME UNCHANGED <<pinfo, removed>>, call' \in {NoCall, call},
               xfer' # Idle => xfer # Idle /\ xfer'.port = xfer.port
        PROVE  NoQueuesLeft' /\ NothingForRemoved'
    BY <1>2 DEF NoQueuesLeft, NothingForRemoved
  <1>3. ASSUME NEW p \in PortIds,
               RegRead(p) \/ RegWrite(p) \/ RegDump(p) \/ RegInfoRead(p)
        PROVE  NoQueuesLeft' /\ NothingForRemoved'
    BY <1>2, <1>3 DEF RegRead, RegWrite, RegDump, RegInfoRead, RegCommand, portVars
  <1>4. ASSUME NEW p \in PortIds, NEW q \in Queues, QueueCommand(p, q)
        PROVE  NoQueuesLeft' /\ NothingForRemoved'
    <2>1. /\ p \in Ports /\ q \in Nat /\ q < pinfo[p].num_queues
          /\ call' = p /\ UNCHANGED <<pinfo, removed, xfer>>
      BY <1>4, CommandAssumption DEF QueueCommand, portVars
    <2>2. p \notin removed
      BY <2>1 DEF NoQueuesLeft
    <2> QED BY <2>1, <2>2 DEF NoQueuesLeft, NothingForRemoved
  <1>5. CASE PortCommand
    BY <1>1, <1>3, <1>4, <1>5
       DEF PortCommand, QueueDump, Qstats, QstatsClr, DescDump
  <1>6. CASE DmaCommand
    BY <1>2, <1>6 DEF DmaCommand, DmaToDevice, DmaFromDevice, Open, Prompt, portVars
  <1>7. CASE Accept
    <2>1. /\ UNCHANGED <<pinfo, removed, call>> /\ xfer'.port = request.port
          /\ request # NoRequest
      BY <1>7 DEF Accept, Transfer, portVars, Accepted, InMemory, SomeQueue, QueuesThere,
         PortKnown, Asked
    <2>2. request \in Requests /\ request.port \in Ports
      BY <1>7, <2>1 DEF TypeOK, Accept, Accepted, InMemory, SomeQueue, QueuesThere, PortKnown
    <2>3. request.n # 0 /\ request.n \in Nat /\ request.n <= pinfo[request.port].num_queues
      BY <1>7, <2>2 DEF Accept, Accepted, InMemory, SomeQueue, QueuesThere, Requests
    <2>4. request.port \notin removed
      BY <2>3 DEF NoQueuesLeft
    <2> QED BY <2>1, <2>4 DEF NoQueuesLeft, NothingForRemoved
  <1>8. CASE QueueDone \/ (EndOfBody /\ NextIteration(xfer.loop + 1))
    <2>1. xfer \in Transfers /\ xfer # Idle
      BY <1>8 DEF TypeOK, QueueDone, EndOfBody
    <2>2. UNCHANGED <<pinfo, removed, call>> /\ xfer'.port = xfer.port
      BY <1>8, <2>1 DEF QueueDone, NextIteration, Transfers, portVars
    <2> QED BY <1>2, <2>1, <2>2
  <1>9. CASE Close /\ (Refused \/ Returned)
    BY <1>2, <1>9 DEF Refused, Returned, portVars
  <1>10. CASE TransferStep
    <2>1. CASE \/ RefusePort \/ RefuseCount \/ RefuseNone \/ RefuseMemory \/ RefuseLength
               \/ EndpointFails \/ SeekFails \/ MoveFails \/ SeekEndFails
      BY <1>9, <2>1 DEF RefusePort, RefuseCount, RefuseNone, RefuseMemory, RefuseLength,
         EndpointFails, SeekFails, MoveFails, SeekEndFails
    <2>2. CASE EndIteration
      BY <1>8, <1>9, <2>2 DEF EndIteration
    <2> QED BY <1>7, <1>8, <1>10, <2>1, <2>2 DEF TransferStep
  <1>11. CASE LoadCmds \/ EndOfFile
    BY <1>2, <1>11 DEF LoadCmds, EndOfFile, portVars
  <1>12. CASE UNCHANGED vars
    BY <1>2, <1>12 DEF vars, portVars
  <1> QED BY <1>5, <1>6, <1>10, <1>11, <1>12 DEF Next

(* No command reaches a device that is gone, although the handlers only    *)
(* look at num_queues and drop what the port functions return.             *)
THEOREM CommandsNothingForRemoved == Spec => []NothingForRemoved
  <1>1. Init => NoQueuesLeft /\ NothingForRemoved
    BY DEF Init, NoQueuesLeft, NothingForRemoved
  <1>2. TypeOK /\ (NoQueuesLeft /\ NothingForRemoved) /\ [Next]_vars
           => (NoQueuesLeft /\ NothingForRemoved)'
    BY RemovedStep
  <1>3. Spec => [](NoQueuesLeft /\ NothingForRemoved)
    BY <1>1, <1>2, CommandsTypeOK, PTL DEF Spec
  <1> QED BY <1>3, PTL

-----------------------------------------------------------------------------
(* What CommandReturns needs of each step.  Rounds: iterations of the      *)
(* do ... while loop that are not over, which is one even if none is asked *)
(* for.                                                                    *)
Rounds(x) == IF x.loop < x.loops THEN x.loops - x.loop ELSE 1

(* Until a transfer returns no other command changes what it works with:   *)
(* the number of queues, their buffers and the registers stay, and each of *)
(* its steps serves one of the queues left in the iteration, or begins one *)
(* of the iterations left, or returns and closes the file.                 *)
TransferDescends ==
  [][xfer # Idle =>
       /\ UNCHANGED <<pinfo, removed, loopback, scripts>>
       /\ \/ xfer' = Idle /\ files' = files - 1
          \/ /\ xfer' # Idle /\ files' = files
             /\ xfer'.n = xfer.n /\ xfer'.loops = xfer.loops
             /\ xfer'.i \in 0..xfer.n
             /\ \/ xfer'.loop = xfer.loop /\ xfer'.i > xfer.i
                \/ Rounds(xfer') \in 1..(Rounds(xfer) - 1)]_vars

(* A transfer under way is left alone and comes nearer to its end with     *)
(* every step, for any number of queues and of iterations; that it is      *)
(* given those steps is the fairness of CommandReturns.                    *)
THEOREM CommandsTransferDescends == Spec => TransferDescends
  <1> DEFINE Fewer == /\ xfer' # Idle /\ files' = files
                      /\ xfer'.n = xfer.n /\ xfer'.loops = xfer.loops
                      /\ xfer'.i \in 0..xfer.n
                      /\ \/ xfer'.loop = xfer.loop /\ xfer'.i > xfer.i
                         \/ Rounds(xfer') \in 1..(Rounds(xfer) - 1)
             Step == xfer # Idle =>
                       /\ UNCHANGED <<pinfo, removed, loopback, scripts>>
                       /\ \/ xfer' = Idle /\ files' = files - 1
                          \/ Fewer
  <1>1. ASSUME IInv, IInv', Next PROVE Step
    <2> SUFFICES ASSUME xfer # Idle PROVE Step
      OBVIOUS
    <2>1. xfer \in Transfers /\ xfer.i <= xfer.n
      BY <1>1 DEF IInv, TypeOK, XferOK
    <2>2. /\ xfer.n \in Nat /\ xfer.i \in Nat /\ xfer.loop \in Nat /\ xfer.loops \in Nat
          /\ 0 < xfer.n
      BY <2>1 DEF Transfers
    <2>3. request = NoRequest
      BY <1>1 DEF IInv, TypeOK
    <2>4. TransferStep
      BY <1>1 DEF Next, PortCommand, DmaCommand, LoadCmds, EndOfFile, Prompt, PortInit, PortReset,
         PortClose, PortRemove, RegCommand, RegRead, RegWrite, RegDump, RegInfoRead, QueueCommand,
         QueueDump, Qstats, QstatsClr, DescDump, DmaToDevice, DmaFromDevice, Open
    <2>5. CASE Close /\ Returned
      BY <2>5 DEF Close, Returned, portVars
    <2>6. ASSUME UNCHANGED <<files, scripts, request>> PROVE xfer' # Idle
      <3>1. files = scripts + 1 /\ files \in Nat /\ scripts \in Nat
        BY <1>1 DEF IInv, FilesClosed, TypeOK, Prompt
      <3>2. Prompt' => files' = scripts' + 0
        BY <1>1 DEF IInv, FilesClosed
      <3> QED BY <2>3, <2>6, <3>1, <3>2 DEF Prompt
    <2>7. CASE QueueDone
      <3>1. /\ UNCHANGED <<pinfo, removed, loopback, scripts, files, request>>
            /\ xfer.i < xfer.n
            /\ xfer'.i = xfer.i + 1 /\ xfer'.n = xfer.n /\ xfer'.loops = xfer.loops
            /\ xfer'.loop = xfer.loop
        BY <2>1, <2>7 DEF QueueDone, Transfers, portVars
      <3>2. xfer' # Idle
        BY <2>6, <3>1
      <3> QED BY <2>2, <3>1, <3>2
    <2>8. CASE xfer.loop + 1 < xfer.loops /\ NextIteration(xfer.loop + 1)
      <3>1. /\ UNCHANGED <<pinfo, removed, loopback, scripts, files, request>>
            /\ xfer'.i = 0 /\ xfer'.n = xfer.n /\ xfer'.loops = xfer.loops
            /\ xfer'.loop = xfer.loop + 1
        BY <2>1, <2>8 DEF NextIteration, Transfers, portVars
      <3>2. xfer' # Idle
        BY <2>6, <3>1
      <3>3. Rounds(xfer) = xfer.loops - xfer.loop /\ Rounds(xfer') = xfer.loops - (xfer.loop + 1)
        BY <2>2, <2>8, <3>1 DEF Rounds
      <3> QED BY <2>2, <2>8, <3>1, <3>2, <3>3
    <2> QED BY <2>3, <2>4, <2>5, <2>7, <2>8
            DEF TransferStep, RefusePort, RefuseCount, RefuseNone, RefuseMemory, RefuseLength,
            Accept, Accepted, InMemory, SomeQueue, QueuesThere, PortKnown, Asked, EndIteration,
            EndpointFails, SeekFails, MoveFails, SeekEndFails
  <1>2. IInv /\ IInv' /\ [Next]_vars => [Step]_vars
    BY <1>1
  <1> QED BY <1>2, CommandsInvariant, PTL DEF Spec, TransferDescends
=============================================================================
