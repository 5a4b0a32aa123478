------------------------- MODULE CmacMonitorProofs -------------------------
(***************************************************************************)
(* Theorems about CmacMonitor for any number of cards, CMACs and readers.  *)
(*                                                                         *)
(* CmacsUp speaks of the cards that are finished; HwInv says in addition   *)
(* what is up in the middle of init_hardware: the CMACs below `cmac` of    *)
(* the card under way, all of the right version, and none after it.        *)
(***************************************************************************)
EXTENDS CmacMonitor, TLAPS

HwType ==
  /\ card \in 0..NbCards /\ cmac \in 0..NB_CMAC
  /\ step \in {"shell", "reset", "wait", "version", "enable", "again", "conf", "done"}
  /\ version \in [Cmacs -> BOOLEAN] /\ status \in [Cmacs -> BOOLEAN]
  /\ conf \in [Cmacs -> BOOLEAN]

(* Where init_hardware is.                                                 *)
Progress ==
  /\ step = "done" <=> card = NbCards
  /\ step \notin {"shell", "reset", "done"} => cmac < NB_CMAC
  /\ step \in {"shell", "done"} => cmac = 0
  /\ step \in {"enable", "again", "conf"} => version[Here]
  /\ step = "conf" => status[Here]

Up(k, i) == conf[<<k, i>>] /\ status[<<k, i>>]

(* Which CMACs are up.                                                     *)
Brought ==
  \A k \in 0..(NbCards - 1), i \in 0..(NB_CMAC - 1) :
     /\ conf[<<k, i>>] => status[<<k, i>>]
     /\ k > card \/ (k = card /\ i >= cmac) => ~conf[<<k, i>>]
     /\ k = card /\ i < cmac => Up(k, i) /\ version[<<k, i>>]

HwInv == HwType /\ Progress /\ Brought /\ CmacsUp

-----------------------------------------------------------------------------
LEMMA HwInitInv == Init => HwInv
  BY MonitorAssumption
     DEF Init, HwInv, HwType, Progress, Brought, CmacsUp, Cmacs

(* The reset of a CMAC that is not configured yet disturbs no other.       *)
LEMMA ResetKeeps ==
  ASSUME HwInv, card < NbCards, cmac < NB_CMAC, Reset(Here),
         UNCHANGED <<card, cmac, version>>
  PROVE  /\ status' \in [Cmacs -> BOOLEAN] /\ conf' \in [Cmacs -> BOOLEAN]
         /\ Brought' /\ CmacsUp'
  <1>1. /\ card \in 0..(NbCards - 1) /\ cmac \in 0..(NB_CMAC - 1)
        /\ status \in [Cmacs -> BOOLEAN] /\ conf \in [Cmacs -> BOOLEAN]
        /\ Here \in Cmacs
    BY MonitorAssumption DEF HwInv, HwType, Here, Cmacs
  <1>2. /\ status' \in [Cmacs -> BOOLEAN] /\ conf' \in [Cmacs -> BOOLEAN]
        /\ ~conf'[Here]
        /\ \A c \in Cmacs \ {Here} : status'[c] = status[c] /\ conf'[c] = conf[c]
    BY <1>1 DEF Reset
  <1>3. ASSUME NEW k \in 0..(NbCards - 1), NEW i \in 0..(NB_CMAC - 1),
               k # card \/ i # cmac
        PROVE  /\ status'[<<k, i>>] = status[<<k, i>>]
               /\ conf'[<<k, i>>] = conf[<<k, i>>]
    BY <1>2, <1>3 DEF Cmacs, Here
  <1>4. Brought'
    <2> SUFFICES ASSUME NEW k \in 0..(NbCards - 1), NEW i \in 0..(NB_CMAC - 1)
                 PROVE  /\ conf'[<<k, i>>] => status'[<<k, i>>]
                        /\ k > card \/ (k = card /\ i >= cmac) => ~conf'[<<k, i>>]
                        /\ k = card /\ i < cmac => Up(k, i)' /\ version[<<k, i>>]
      BY DEF Brought
    <2>1. CASE k = card /\ i = cmac
      BY <1>1, <1>2, <2>1 DEF Here
    <2>2. CASE k # card \/ i # cmac
      BY <1>3, <2>2 DEF HwInv, Brought, Up
    <2> QED BY <2>1, <2>2
  <1>5. CmacsUp'
    BY <1>1, <1>3 DEF HwInv, CmacsUp
  <1> QED BY <1>2, <1>4, <1>5

(* A card is finished when the next CMAC is missing or there is none.      *)
LEMMA CardDone ==
  ASSUME HwInv, card < NbCards, NextCard, UNCHANGED <<version, status, conf>>,
         cmac < NB_CMAC => ~version[Here]
  PROVE  HwInv'
  <1>1. /\ card \in 0..(NbCards - 1) /\ cmac \in 0..NB_CMAC
        /\ card' = card + 1 /\ cmac' = 0
        /\ NbCards \in Nat \ {0} /\ NB_CMAC \in Nat \ {0}
    BY MonitorAssumption DEF HwInv, HwType, NextCard
  <1>2. HwType' /\ Progress'
    BY <1>1 DEF HwInv, HwType, Progress, NextCard
  <1>3. Brought'
    <2> SUFFICES ASSUME NEW k \in 0..(NbCards - 1), NEW i \in 0..(NB_CMAC - 1)
                 PROVE  /\ conf'[<<k, i>>] => status'[<<k, i>>]
                        /\ k > card' \/ (k = card' /\ i >= cmac') => ~conf'[<<k, i>>]
                        /\ k = card' /\ i < cmac' => Up(k, i)' /\ version'[<<k, i>>]
      BY DEF Brought
    <2>1. /\ conf[<<k, i>>] => status[<<k, i>>]
          /\ k > card => ~conf[<<k, i>>]
      BY DEF HwInv, Brought
    <2>2. /\ k > card' \/ k = card' => k > card
          /\ ~(i < cmac')
      BY <1>1
    <2> QED BY <2>1, <2>2
  <1>4. CmacsUp'
    <2> SUFFICES ASSUME NEW k \in 0..(NbCards - 1), NEW i \in 0..(NB_CMAC - 1),
                        k < card'
                 PROVE  Up(k, i) <=> \A j \in 0..i : version[<<k, j>>]
      BY DEF CmacsUp, Up
    <2>1. CASE k < card
      BY <2>1 DEF HwInv, CmacsUp, Up
    <2>2. CASE k = card /\ i < cmac
      <3>1. \A j \in 0..i : version[<<k, j>>]
        BY <1>1, <2>2 DEF HwInv, Brought
      <3> QED BY <2>2, <3>1 DEF HwInv, Brought
    <2>3. CASE k = card /\ i >= cmac
      <3>1. cmac \in 0..i /\ ~version[<<k, cmac>>]
        BY <1>1, <2>3 DEF Here
      <3>2. ~Up(k, i)
        BY <2>3 DEF HwInv, Brought, Up
      <3> QED BY <3>1, <3>2
    <2> QED BY <1>1, <2>1, <2>2, <2>3
  <1> QED BY <1>2, <1>3, <1>4 DEF HwInv

LEMMA HwStep == HwInv /\ [Next]_vars => HwInv'
  <1> SUFFICES ASSUME HwInv, [Next]_vars PROVE HwInv'
    OBVIOUS
  <1> USE MonitorAssumption
  <1>1. CASE UNCHANGED <<card, cmac, version, status, conf>>
             /\ \/ step' = step
                \/ step = "wait" /\ step' = "version"
                \/ step = "again" /\ step' = "conf" /\ status[Here]
                \/ step = "version" /\ step' = "enable" /\ version[Here]
    BY <1>1 DEF HwInv, HwType, Progress, Brought, CmacsUp, Up, Here
  <1>2. ASSUME NEW c \in Cmacs, ResetDone(c) PROVE HwInv'
    <2>1. /\ status \in [Cmacs -> BOOLEAN] /\ ~status[c]
          /\ status' = [status EXCEPT ![c] = TRUE]
          /\ UNCHANGED <<card, cmac, step, version, conf>>
      BY <1>2 DEF ResetDone, HwInv, HwType
    <2>2. status' \in [Cmacs -> BOOLEAN] /\ \A d \in Cmacs : status[d] => status'[d]
      BY <2>1
    <2>3. HwType' /\ Progress'
      <3>1. step = "conf" => Here \in Cmacs
        BY DEF HwInv, HwType, Progress, Here, Cmacs
      <3> QED BY <2>1, <2>2, <3>1 DEF HwInv, HwType, Progress, Here
    <2>4. \A k \in 0..(NbCards - 1), i \in 0..(NB_CMAC - 1) : <<k, i>> \in Cmacs
      BY DEF Cmacs
    <2>5. Brought'
      BY <2>1, <2>2, <2>4 DEF HwInv, Brought, Up
    <2>6. ~conf[c]
      BY MonitorAssumption, <2>1 DEF HwInv, Brought, Cmacs
    <2>7. \A d \in Cmacs \ {c} : status'[d] = status[d]
      BY <2>1
    <2>8. CmacsUp'
      BY <2>1, <2>4, <2>6, <2>7 DEF HwInv, CmacsUp
    <2> QED BY <2>3, <2>5, <2>8 DEF HwInv
  <1>3. CASE WaitShell
    BY <1>3 DEF WaitShell, HwInv, HwType, Progress, Brought, CmacsUp, Up, Here, statVars
  <1>4. CASE ResetCmac \/ EnableReset
    <2>1. /\ card < NbCards /\ cmac < NB_CMAC /\ Reset(Here)
          /\ UNCHANGED <<card, cmac, version>>
          /\ \/ step = "reset" /\ step' = "wait"
             \/ step = "enable" /\ step' = "again"
      BY <1>4 DEF ResetCmac, EnableReset, HwInv, HwType, Progress
    <2>2. /\ status' \in [Cmacs -> BOOLEAN] /\ conf' \in [Cmacs -> BOOLEAN]
          /\ Brought' /\ CmacsUp'
      BY <2>1, ResetKeeps
    <2> QED BY <2>1, <2>2 DEF HwInv, HwType, Progress, Here
  <1>5. CASE CheckVersion /\ ~version[Here]
    <2>1. /\ card < NbCards /\ NextCard /\ UNCHANGED <<version, status, conf>>
      BY <1>5 DEF CheckVersion, HwInv, HwType, Progress
    <2> QED BY <1>5, <2>1, CardDone
  <1>6. CASE AllCmacs
    <2>1. /\ card < NbCards /\ NextCard /\ UNCHANGED <<version, status, conf>>
          /\ ~(cmac < NB_CMAC)
      BY <1>6 DEF AllCmacs, HwInv, HwType, Progress
    <2> QED BY <2>1, CardDone
  <1>7. CASE Configure
    <2>1. /\ card \in 0..(NbCards - 1) /\ cmac \in 0..(NB_CMAC - 1)
          /\ step = "conf" /\ version[Here] /\ status[Here] /\ Here \in Cmacs
          /\ conf \in [Cmacs -> BOOLEAN] /\ conf' = [conf EXCEPT ![Here] = TRUE]
          /\ step' = "reset" /\ cmac' = cmac + 1
          /\ UNCHANGED <<card, version, status>>
      BY <1>7 DEF Configure, HwInv, HwType, Progress, Here, Cmacs
    <2>2. /\ conf' \in [Cmacs -> BOOLEAN] /\ conf'[Here]
          /\ \A k \in 0..(NbCards - 1), i \in 0..(NB_CMAC - 1) :
                k # card \/ i # cmac => conf'[<<k, i>>] = conf[<<k, i>>]
      BY <2>1 DEF Here, Cmacs
    <2>3. HwType' /\ Progress'
      BY <2>1, <2>2 DEF HwInv, HwType, Progress
    <2>4. Brought'
      <3> SUFFICES ASSUME NEW k \in 0..(NbCards - 1), NEW i \in 0..(NB_CMAC - 1)
                   PROVE  /\ conf'[<<k, i>>] => status[<<k, i>>]
                          /\ k > card \/ (k = card /\ i >= cmac + 1) => ~conf'[<<k, i>>]
                          /\ k = card /\ i < cmac + 1 =>
                               conf'[<<k, i>>] /\ status[<<k, i>>] /\ version[<<k, i>>]
        BY <2>1 DEF Brought, Up
      <3>1. CASE k = card /\ i = cmac
        BY <2>1, <2>2, <3>1 DEF Here
      <3>2. CASE k # card \/ i # cmac
        <4>1. conf'[<<k, i>>] = conf[<<k, i>>]
          BY <2>2, <3>2
        <4>2. /\ conf[<<k, i>>] => status[<<k, i>>]
              /\ k > card \/ (k = card /\ i >= cmac) => ~conf[<<k, i>>]
              /\ k = card /\ i < cmac =>
                   conf[<<k, i>>] /\ status[<<k, i>>] /\ version[<<k, i>>]
          BY DEF HwInv, Brought, Up
        <4>3. /\ k = card /\ i >= cmac + 1 => i >= cmac
              /\ k = card /\ i < cmac + 1 => i < cmac
          BY <2>1, <3>2
        <4> QED BY <4>1, <4>2, <4>3
      <3> QED BY <3>1, <3>2
    <2>5. CmacsUp'
      <3> SUFFICES ASSUME NEW k \in 0..(NbCards - 1), NEW i \in 0..(NB_CMAC - 1),
                          k < card
                   PROVE  (conf'[<<k, i>>] /\ status[<<k, i>>])
                             <=> \A j \in 0..i : version[<<k, j>>]
        BY <2>1 DEF CmacsUp
      <3>1. conf'[<<k, i>>] = conf[<<k, i>>]
        <4>1. k # card
          BY <2>1
        <4> QED BY <2>2, <4>1
      <3> QED BY <3>1 DEF HwInv, CmacsUp
    <2> QED BY <2>3, <2>4, <2>5 DEF HwInv
  <1>8. CASE UNCHANGED hwVars
    BY <1>1, <1>8 DEF hwVars
  <1>9. CASE WaitReset \/ WaitAgain \/ (CheckVersion /\ version[Here])
    BY <1>1, <1>9 DEF WaitReset, WaitAgain, CheckVersion
  <1>10. ASSUME NEW r \in Readers, Read(r) PROVE UNCHANGED hwVars
    BY <1>10 DEF Read, Tick, ReadTotal, ReadGood, GetCmacDebugStats, GetCmacStats,
                 Produce, Monitor, Leave
  <1>11. ASSUME NEW c \in Cmacs, NEW good \in {0, 1}, Arrive(c, good)
         PROVE  UNCHANGED hwVars
    BY <1>11 DEF Arrive
  <1>12. CASE InitHardware
    BY <1>3, <1>4, <1>5, <1>6, <1>7, <1>9, <1>12 DEF InitHardware
  <1> QED BY <1>2, <1>8, <1>10, <1>11, <1>12 DEF Next, vars

LEMMA HwInvariant == Spec => []HwInv
  BY HwInitInv, HwStep, PTL DEF Spec

(* init_hardware leaves exactly the CMACs before the first one of another  *)
(* version up, on every card.                                              *)
THEOREM MonitorCmacsUp == Spec => []CmacsUp
  <1>1. HwInv => CmacsUp
    BY DEF HwInv
  <1> QED BY <1>1, HwInvariant, PTL

-----------------------------------------------------------------------------
(* Arithmetic of uint32_t, or of any other width.                          *)
LEMMA Division ==
  ASSUME NEW a \in Nat
  PROVE  /\ a \div W \in Nat /\ a % W \in Nat /\ a % W < W
         /\ a = W * (a \div W) + (a % W)
         /\ a < W => a % W = a
  BY SMTT(30), MonitorAssumption

LEMMA Remainder ==
  ASSUME NEW q \in Nat, NEW r \in Nat, r < W
  PROVE  (W * q + r) % W = r
  BY MonitorAssumption

(* An overflow of one of the summands is an overflow of the sum.           *)
LEMMA AddMod ==
  ASSUME NEW a \in Nat, NEW k \in Nat
  PROVE  ((a % W) + k) % W = (a + k) % W
  <1> DEFINE q == a \div W
             r == a % W
             b == r + k
             p == b \div W
             s == b % W
  <1>1. q \in Nat /\ r \in Nat /\ a = W * q + r
    BY Division
  <1>2. b \in Nat
    BY <1>1
  <1>3. p \in Nat /\ s \in Nat /\ s < W /\ b = W * p + s
    <2> HIDE DEF b
    <2> QED BY <1>2, Division
  <1> HIDE DEF q, r, p, s
  <1>4. W * (q + p) = W * q + W * p /\ q + p \in Nat
    BY <1>1, <1>3, MonitorAssumption
  <1>5. a + k = W * (q + p) + s
    BY <1>1, <1>3, <1>4, MonitorAssumption
  <1>6. (W * (q + p) + s) % W = s
    BY <1>3, <1>4, Remainder
  <1> QED BY <1>5, <1>6 DEF s, b, r

(* What was returned, is latched and is pending makes up what arrived.     *)
Balanced(s, u, p, a) == (s + u + p) % W = a % W

LEMMA BalancedArrive ==
  ASSUME NEW s \in Nat, NEW u \in Nat, NEW p \in Nat, NEW a \in Nat, NEW k \in Nat,
         Balanced(s, u, p, a)
  PROVE  Balanced(s, u, p + k, a + k)
  <1>1. s + u + p \in Nat /\ s + u + (p + k) = (s + u + p) + k
    OBVIOUS
  <1>2. (((s + u + p) % W) + k) % W = ((s + u + p) + k) % W
    BY <1>1, AddMod
  <1>3. ((a % W) + k) % W = (a + k) % W
    BY AddMod
  <1>4. ((s + u + p) + k) % W = (a + k) % W
    BY <1>2, <1>3, Zenon DEF Balanced
  <1> QED BY <1>1, <1>4 DEF Balanced

LEMMA BalancedReturn ==
  ASSUME NEW s \in Nat, NEW l \in Nat, NEW p \in Nat, NEW a \in Nat,
         Balanced(s, l, p, a)
  PROVE  Balanced((s + (l % W)) % W, 0, p, a)
  <1> DEFINE r == l % W
             t == s + r
  <1>1. r \in Nat /\ t \in Nat /\ s + p \in Nat
    BY Division
  <1>2. ((t % W) + p) % W = (t + p) % W
    <2> HIDE DEF t
    <2> QED BY <1>1, AddMod
  <1>3. (r + (s + p)) % W = (l + (s + p)) % W
    BY <1>1, AddMod
  <1>4. t % W \in Nat
    <2> HIDE DEF t
    <2> QED BY <1>1, Division
  <1> HIDE DEF r
  <1>5. t + p = r + (s + p) /\ l + (s + p) = s + l + p
    BY <1>1
  <1>6. ((t % W) + 0 + p) = (t % W) + p
    <2> HIDE DEF t
    <2> QED BY <1>4
  <1> HIDE DEF t
  <1> QED BY <1>2, <1>3, <1>5, <1>6 DEF Balanced, t, r

-----------------------------------------------------------------------------
(* The invariant of the statistics.                                        *)
StatType ==
  /\ pending \in [Cmacs -> Stats] /\ latch \in [Cmacs -> Stats]
  /\ seen \in [Cmacs -> Stats] /\ arrived \in [Cmacs -> Stats]
  /\ packets \in Nat
  /\ reader = [r \in Readers |-> reader[r]]
  /\ \A r \in Readers :
        /\ reader[r] \in Locals(r)
        /\ reader[r].pos = Len(Reads[r]) + 1 <=> reader[r].next = "report"

(* The good packets are among all that are counted.                        *)
Among ==
  \A c \in Cmacs : /\ pending[c].good <= pending[c].total
                   /\ latch[c].good <= latch[c].total

BalancedAt(s, u, p, a) ==
  Balanced(s.total, u.total, p.total, a.total) /\ Balanced(s.good, u.good, p.good, a.good)

Balance ==
  \A c \in Cmacs : Exclusive(c) =>
     BalancedAt(seen[c], Unread(c), pending[c], arrived[c])

(* The fields that have been read are what the registers hold.             *)
Copied(x, l) ==
  /\ x.next = "good" => x.stats.total = l.total % W
  /\ x.next = "return" => x.stats.total = l.total % W /\ x.stats.good = l.good % W

AllCopied ==
  \A r \in Readers : reader[r].next # "report" /\ Exclusive(Target(r))
     => Copied(reader[r], latch[Target(r)])

StatInv == StatType /\ Among /\ Balance /\ AllCopied

-----------------------------------------------------------------------------
(* Unread of a CMAC depends on its one reader only.                        *)
ReadBy(r, c) == \E i \in DOMAIN Reads[r] : Reads[r][i] = c

Busy == {"total", "good", "return"}

ReadingAt(x, r, c) == x.next \in Busy /\ Reads[r][x.pos] = c

UnreadAt(rd, la, c) == IF \E r \in Readers : ReadingAt(rd[r], r, c) THEN la[c] ELSE Zero

LEMMA UnreadIs == /\ \A c : Unread(c) = UnreadAt(reader, latch, c)
                  /\ \A c : Unread(c)' = UnreadAt(reader', latch', c)
  BY DEF Unread, UnreadAt, Reading, ReadingAt, Busy, Target

(* A reader that is not at the end of its round is at one of its CMACs.    *)
LEMMA InRound ==
  ASSUME NEW r \in Readers, NEW x \in Locals(r),
         x.pos = Len(Reads[r]) + 1 <=> x.next = "report", x.next # "report"
  PROVE  x.pos \in DOMAIN Reads[r] /\ Reads[r][x.pos] \in Cmacs /\ ReadBy(r, Reads[r][x.pos])
  <1>1. Reads[r] \in Seq(Cmacs)
    BY MonitorAssumption
  <1>2. x.pos \in 1..(Len(Reads[r]) + 1) /\ x.pos # Len(Reads[r]) + 1
    BY DEF Locals
  <1>3. x.pos \in DOMAIN Reads[r] /\ Reads[r][x.pos] \in Cmacs
    BY <1>1, <1>2
  <1> QED BY <1>3 DEF ReadBy

Valid(rd) ==
  \A r \in Readers : rd[r].next \in Busy => ReadBy(r, Reads[r][rd[r].pos])

LEMMA StatValid == /\ StatType => Valid(reader)
                   /\ StatType' => Valid(reader')
  BY InRound DEF StatType, Valid, Busy

LEMMA UnreadOfReader ==
  ASSUME NEW rd, NEW la, NEW r \in Readers, NEW c, Valid(rd), Exclusive(c), ReadBy(r, c)
  PROVE  UnreadAt(rd, la, c) = IF ReadingAt(rd[r], r, c) THEN la[c] ELSE Zero
  <1>1. \A o \in Readers : ReadingAt(rd[o], o, c) => o = r
    BY DEF Valid, Exclusive, ReadBy, ReadingAt
  <1> QED BY <1>1 DEF UnreadAt

LEMMA UnreadOfOthers ==
  ASSUME NEW rd, NEW la, NEW rd1, NEW la1, NEW r \in Readers, NEW c,
         Valid(rd), Valid(rd1), ~ReadBy(r, c), la1[c] = la[c],
         \A o \in Readers \ {r} : rd1[o] = rd[o]
  PROVE  UnreadAt(rd1, la1, c) = UnreadAt(rd, la, c)
  <1>1. \A o \in Readers : ReadingAt(rd1[o], o, c) <=> ReadingAt(rd[o], o, c)
    BY DEF Valid, ReadingAt
  <1> QED BY <1>1 DEF UnreadAt

(* A step of a reader only has to keep the balance of its own CMACs.       *)
LEMMA BalanceOfReader ==
  ASSUME StatInv, StatType', NEW r \in Readers,
         \A o \in Readers \ {r} : reader'[o] = reader[o],
         \A c \in Cmacs : ~ReadBy(r, c) =>
            /\ latch'[c] = latch[c] /\ pending'[c] = pending[c]
            /\ seen'[c] = seen[c] /\ arrived'[c] = arrived[c],
         ASSUME NEW c \in Cmacs, Exclusive(c), ReadBy(r, c),
                BalancedAt(seen[c], IF ReadingAt(reader[r], r, c) THEN latch[c] ELSE Zero,
                           pending[c], arrived[c])
         PROVE  BalancedAt(seen'[c], IF ReadingAt(reader'[r], r, c) THEN latch'[c] ELSE Zero,
                           pending'[c], arrived'[c])
  PROVE  Balance'
  <1> SUFFICES ASSUME NEW c \in Cmacs, Exclusive(c)
               PROVE  BalancedAt(seen'[c], Unread(c)', pending'[c], arrived'[c])
    BY DEF Balance, Exclusive, BalancedAt, Balanced
  <1>1. Valid(reader) /\ Valid(reader')
    BY StatValid DEF StatInv
  <1>2. BalancedAt(seen[c], Unread(c), pending[c], arrived[c])
    BY DEF StatInv, Balance
  <1>3. CASE ReadBy(r, c)
    <2>1. /\ Unread(c) = IF ReadingAt(reader[r], r, c) THEN latch[c] ELSE Zero
          /\ Unread(c)' = IF ReadingAt(reader'[r], r, c) THEN latch'[c] ELSE Zero
      BY <1>1, <1>3, UnreadIs, UnreadOfReader
    <2> QED BY <1>2, <1>3, <2>1
  <1>4. CASE ~ReadBy(r, c)
    <2>1. Unread(c)' = Unread(c)
      BY <1>1, <1>4, UnreadIs, UnreadOfOthers
    <2> QED BY <1>2, <1>4, <2>1
  <1> QED BY <1>3, <1>4

-----------------------------------------------------------------------------
LEMMA StatInitInv == Init => StatInv
  <1> SUFFICES ASSUME Init PROVE StatInv
    OBVIOUS
  <1>1. /\ Zero \in Stats /\ 0 \in Field /\ Zero \in [total : Field, good : Field]
        /\ Balanced(0, 0, 0, 0)
    BY MonitorAssumption DEF Zero, Stats, Field, Balanced
  <1>2. ASSUME NEW r \in Readers
        PROVE  /\ reader[r] \in Locals(r)
               /\ reader[r].pos = 1 /\ reader[r].next = "tick"
               /\ Len(Reads[r]) \in Nat /\ 1 # Len(Reads[r]) + 1
    <2>1. Reads[r] \in Seq(Cmacs) /\ Reads[r] # <<>>
      BY <1>2, MonitorAssumption
    <2>2. Len(Reads[r]) \in Nat /\ Len(Reads[r]) # 0
      BY <2>1
    <2> QED BY <1>1, <1>2, <2>2 DEF Init, Locals
  <1>3. StatType
    BY <1>1, <1>2, MonitorAssumption DEF Init, StatType
  <1>4. Among
    BY DEF Init, Among, Zero
  <1>5. \A c \in Cmacs : Unread(c) = Zero
    BY DEF Init, Unread
  <1>6. Balance
    BY <1>1, <1>5 DEF Init, Balance, BalancedAt, Zero
  <1>7. AllCopied
    BY <1>2 DEF AllCopied, Copied
  <1> QED BY <1>3, <1>4, <1>6, <1>7 DEF StatInv

(* A packet is counted twice: in the CMAC and in the ghost.                *)
LEMMA ArriveStep ==
  ASSUME StatInv, NEW c \in Cmacs, NEW good \in {0, 1}, Arrive(c, good)
  PROVE  StatInv'
  <1>1. /\ pending \in [Cmacs -> Stats] /\ arrived \in [Cmacs -> Stats]
        /\ latch \in [Cmacs -> Stats] /\ seen \in [Cmacs -> Stats] /\ packets \in Nat
    BY DEF StatInv, StatType
  <1>2. /\ pending' = [pending EXCEPT ![c] = Add(@, good)]
        /\ arrived' = [arrived EXCEPT ![c] = Add(@, good)]
        /\ packets' = packets + 1
        /\ UNCHANGED <<latch, reader, seen>>
    BY DEF Arrive
  <1>3. ASSUME NEW s \in Stats
        PROVE  /\ Add(s, good) \in Stats /\ Add(s, good).total = s.total + 1
               /\ Add(s, good).good = s.good + good
    BY DEF Add, Stats
  <1>4. /\ pending' \in [Cmacs -> Stats] /\ arrived' \in [Cmacs -> Stats]
        /\ pending'[c] = Add(pending[c], good) /\ arrived'[c] = Add(arrived[c], good)
        /\ \A d \in Cmacs \ {c} : pending'[d] = pending[d] /\ arrived'[d] = arrived[d]
    BY <1>1, <1>2, <1>3
  <1>5. StatType'
    BY <1>2, <1>4, <1>1 DEF StatInv, StatType
  <1>6. Among'
    <2>1. pending'[c].good <= pending'[c].total
      BY <1>1, <1>3, <1>4 DEF StatInv, Among, Stats
    <2> QED BY <1>2, <1>4, <2>1 DEF StatInv, Among
  <1>7. \A d \in Cmacs : Unread(d)' = Unread(d) /\ Unread(d) \in Stats
    BY <1>1, <1>2 DEF Unread, Reading, Target, Zero, Stats
  <1>8. Balance'
    <2> SUFFICES ASSUME NEW d \in Cmacs, Exclusive(d)
                 PROVE  BalancedAt(seen[d], Unread(d), pending'[d], arrived'[d])
      BY <1>2, <1>7 DEF Balance, Exclusive, BalancedAt, Balanced
    <2>1. BalancedAt(seen[d], Unread(d), pending[d], arrived[d])
      BY DEF StatInv, Balance
    <2>2. CASE d = c
      <3>1. /\ seen[c].total \in Nat /\ seen[c].good \in Nat
            /\ Unread(c).total \in Nat /\ Unread(c).good \in Nat
            /\ pending[c].total \in Nat /\ pending[c].good \in Nat
            /\ arrived[c].total \in Nat /\ arrived[c].good \in Nat /\ good \in Nat
        BY <1>1, <1>7 DEF Stats
      <3>2. Balanced(seen[c].total, Unread(c).total, pending[c].total + 1, arrived[c].total + 1)
        BY <2>1, <2>2, <3>1, BalancedArrive DEF BalancedAt
      <3>3. Balanced(seen[c].good, Unread(c).good, pending[c].good + good, arrived[c].good + good)
        BY <2>1, <2>2, <3>1, BalancedArrive DEF BalancedAt
      <3> QED BY <1>1, <1>3, <1>4, <2>2, <3>2, <3>3 DEF BalancedAt
    <2> QED BY <1>4, <2>1, <2>2
  <1>9. AllCopied'
    BY ZenonT(30), <1>2 DEF StatInv, AllCopied, Target, Exclusive, Copied
  <1> QED BY <1>5, <1>6, <1>8, <1>9 DEF StatInv

(* What every step of a reader does to the table of readers.               *)
LEMMA ReaderStep ==
  ASSUME StatInv, NEW r \in Readers, NEW x \in Locals(r),
         x.pos = Len(Reads[r]) + 1 <=> x.next = "report",
         reader' = [reader EXCEPT ![r] = x]
  PROVE  /\ reader'[r] = x /\ \A o \in Readers \ {r} : reader'[o] = reader[o]
         /\ reader' = [o \in Readers |-> reader'[o]]
         /\ \A o \in Readers :
               /\ reader'[o] \in Locals(o)
               /\ reader'[o].pos = Len(Reads[o]) + 1 <=> reader'[o].next = "report"
  <1>1. DOMAIN reader = Readers
    <2>1. reader = [o \in Readers |-> reader[o]]
      BY DEF StatInv, StatType
    <2> QED BY <2>1, Zenon
  <1>2. /\ reader'[r] = x /\ \A o \in Readers \ {r} : reader'[o] = reader[o]
        /\ reader' = [o \in Readers |-> reader'[o]]
    BY <1>1
  <1> QED BY <1>2 DEF StatInv, StatType

(* A step of a reader that touches no other CMAC keeps its reads true.     *)
LEMMA CopiedOfReader ==
  ASSUME StatInv, NEW r \in Readers, NEW x \in Locals(r), reader'[r] = x,
         \A o \in Readers \ {r} : reader'[o] = reader[o],
         \A c \in Cmacs : ~ReadBy(r, c) => latch'[c] = latch[c],
         x.next # "report" => Copied(x, latch'[Reads[r][x.pos]])
  PROVE  AllCopied'
  <1> SUFFICES ASSUME NEW o \in Readers, reader'[o].next # "report", Exclusive(Target(o))'
               PROVE  Copied(reader'[o], latch'[Reads[o][reader'[o].pos]])
    BY DEF AllCopied, Copied, Target
  <1>1. CASE o = r
    BY <1>1
  <1>2. CASE o # r
    <2> DEFINE c == Reads[o][reader[o].pos]
    <2>1. reader'[o] = reader[o] /\ reader[o] \in Locals(o) /\ reader[o].next # "report"
      BY <1>2 DEF StatInv, StatType
    <2>2. c \in Cmacs /\ ReadBy(o, c)
      BY <2>1, InRound DEF StatInv, StatType
    <2>3. Exclusive(c)
      BY <2>1 DEF Exclusive, Target
    <2>4. ~ReadBy(r, c)
      BY <1>2, <2>2, <2>3 DEF Exclusive, ReadBy
    <2>5. Copied(reader[o], latch[c])
      BY <2>1, <2>3 DEF StatInv, AllCopied, Target
    <2> QED BY <2>1, <2>2, <2>4, <2>5
  <1> QED BY <1>1, <1>2

LEMMA TickStep ==
  ASSUME StatInv, NEW r \in Readers, Tick(r)
  PROVE  StatInv'
  <1> DEFINE t == Target(r)
  <1>1. PICK debug \in BOOLEAN :
           reader' = [reader EXCEPT ![r].next = "total", ![r].debug = debug]
    BY DEF Tick
  <1> DEFINE x == [reader[r] EXCEPT !.next = "total", !.debug = debug]
  <1>2. /\ reader[r] \in Locals(r) /\ reader[r].next = "tick"
        /\ latch' = [latch EXCEPT ![t] = pending[t]]
        /\ pending' = [pending EXCEPT ![t] = Zero]
        /\ UNCHANGED <<seen, arrived, packets>>
    BY DEF Tick, StatInv, StatType
  <1>3. /\ x \in Locals(r) /\ x.next = "total" /\ x.pos = reader[r].pos
        /\ reader' = [reader EXCEPT ![r] = x]
        /\ reader[r].pos # Len(Reads[r]) + 1
    BY <1>1, <1>2 DEF Locals, StatInv, StatType
  <1>4. t \in Cmacs /\ ReadBy(r, t) /\ t = Reads[r][reader[r].pos]
    BY <1>2, <1>3, InRound DEF StatInv, StatType, Target
  <1> HIDE DEF x
  <1>5. /\ pending \in [Cmacs -> Stats] /\ latch \in [Cmacs -> Stats]
        /\ Zero \in Stats
    BY DEF StatInv, StatType, Zero, Stats
  <1>6. /\ reader'[r] = x /\ \A o \in Readers \ {r} : reader'[o] = reader[o]
        /\ reader' = [o \in Readers |-> reader'[o]]
        /\ \A o \in Readers :
               /\ reader'[o] \in Locals(o)
               /\ reader'[o].pos = Len(Reads[o]) + 1 <=> reader'[o].next = "report"
    BY <1>3, ReaderStep
  <1>7. /\ pending' \in [Cmacs -> Stats] /\ latch' \in [Cmacs -> Stats]
        /\ latch'[t] = pending[t] /\ pending'[t] = Zero
        /\ \A c \in Cmacs \ {t} : latch'[c] = latch[c] /\ pending'[c] = pending[c]
    BY <1>2, <1>4, <1>5
  <1>8. StatType'
    BY <1>2, <1>6, <1>7 DEF StatInv, StatType
  <1>9. Among'
    BY <1>7 DEF StatInv, Among, Zero
  <1>10. ASSUME NEW c \in Cmacs,
               BalancedAt(seen[c], IF ReadingAt(reader[r], r, c) THEN latch[c] ELSE Zero,
                           pending[c], arrived[c])
         PROVE  BalancedAt(seen[c], IF ReadingAt(x, r, c) THEN latch'[c] ELSE Zero,
                           pending'[c], arrived[c])
    <2>1. ~ReadingAt(reader[r], r, c) /\ (ReadingAt(x, r, c) <=> c = t)
      BY <1>2, <1>3, <1>4 DEF ReadingAt, Busy
    <2>2. CASE c = t
      <3>1. BalancedAt(seen[t], Zero, pending[t], arrived[t])
        BY <1>10, <2>1, <2>2
      <3>2. /\ seen[t].total \in Nat /\ seen[t].good \in Nat
            /\ pending[t].total \in Nat /\ pending[t].good \in Nat
        BY <1>4 DEF StatInv, StatType, Stats
      <3>3. BalancedAt(seen[t], pending[t], Zero, arrived[t])
        BY <3>1, <3>2 DEF BalancedAt, Balanced, Zero
      <3> QED BY <1>7, <2>1, <2>2, <3>3
    <2>3. CASE c # t
      BY <1>7, <1>10, <2>1, <2>3
    <2> QED BY <2>2, <2>3
  <1>11. Balance'
    <2>1. \A c \in Cmacs : ~ReadBy(r, c) =>
             /\ latch'[c] = latch[c] /\ pending'[c] = pending[c]
             /\ seen'[c] = seen[c] /\ arrived'[c] = arrived[c]
      BY <1>2, <1>4, <1>7
    <2>2. ASSUME NEW c \in Cmacs, Exclusive(c), ReadBy(r, c),
                 BalancedAt(seen[c], IF ReadingAt(reader[r], r, c) THEN latch[c] ELSE Zero,
                            pending[c], arrived[c])
          PROVE  BalancedAt(seen'[c], IF ReadingAt(reader'[r], r, c) THEN latch'[c] ELSE Zero,
                            pending'[c], arrived'[c])
      BY <1>2, <1>6, <1>10, <2>2
    <2> QED BY <1>6, <1>8, <2>1, <2>2, BalanceOfReader
  <1>12. AllCopied'
    BY ZenonT(30), <1>3, <1>4, <1>6, <1>7, CopiedOfReader DEF Copied
  <1> QED BY <1>8, <1>9, <1>11, <1>12 DEF StatInv

(* A register is read, and perhaps once more: only the reader's own stats  *)
(* change, into what the registers hold.                                   *)
LEMMA ReadStep ==
  ASSUME StatInv, NEW r \in Readers,
         ReadTotal(r) \/ ReadGood(r) \/ GetCmacDebugStats(r)
  PROVE  StatInv'
  <1> DEFINE t == Target(r)
             x == reader'[r]
  <1>1. /\ reader[r] \in Locals(r) /\ reader[r].next \in Busy
        /\ UNCHANGED <<pending, latch, seen, arrived, packets>>
        /\ reader[r].pos # Len(Reads[r]) + 1
    BY DEF ReadTotal, ReadGood, GetCmacDebugStats, Busy, StatInv, StatType
  <1>2. t \in Cmacs /\ ReadBy(r, t) /\ t = Reads[r][reader[r].pos]
    BY <1>1, InRound DEF StatInv, StatType, Target, Busy
  <1>3. latch[t].total % W \in Field /\ latch[t].good % W \in Field
    <2>1. latch[t].total \in Nat /\ latch[t].good \in Nat
      BY <1>2 DEF StatInv, StatType, Stats
    <2>2. ASSUME NEW n \in Nat PROVE n % W \in Field
      <3>1. n % W \in Nat /\ n % W < W /\ W \in Nat \ {0}
        BY Division, MonitorAssumption
      <3> DEFINE m == n % W
      <3> HIDE DEF m
      <3>2. m \in 0..(W - 1)
        BY <3>1 DEF m
      <3> QED BY <3>2 DEF m, Field
    <2> QED BY <2>1, <2>2
  <1>4. PICK y \in Locals(r) :
           /\ reader' = [reader EXCEPT ![r] = y]
           /\ y.pos = reader[r].pos /\ y.next \in Busy
           /\ Exclusive(t) => Copied(y, latch[t])
    <2>1. CASE ReadTotal(r)
      <3> DEFINE y == [reader[r] EXCEPT !.next = "good",
                                        !.stats.total = latch[t].total % W]
      <3>1. y \in Locals(r) /\ reader' = [reader EXCEPT ![r] = y]
        BY <1>1, <1>3, <2>1 DEF ReadTotal, Locals, StatInv, StatType
      <3>2. y.pos = reader[r].pos /\ y.next = "good" /\ y.stats.total = latch[t].total % W
        BY <1>1 DEF Locals
      <3> QED BY <3>1, <3>2 DEF Copied, Busy
    <2>2. CASE ReadGood(r)
      <3> DEFINE y == [reader[r] EXCEPT !.next = "return",
                                        !.stats.good = latch[t].good % W]
      <3>1. y \in Locals(r) /\ reader' = [reader EXCEPT ![r] = y]
        BY <1>1, <1>3, <2>2 DEF ReadGood, Locals, StatInv, StatType
      <3>2. /\ y.pos = reader[r].pos /\ y.next = "return"
            /\ y.stats.good = latch[t].good % W /\ y.stats.total = reader[r].stats.total
        BY <1>1 DEF Locals
      <3>3. Exclusive(t) => reader[r].stats.total = latch[t].total % W
        BY <2>2 DEF StatInv, AllCopied, Copied, ReadGood
      <3> QED BY <3>1, <3>2, <3>3 DEF Copied, Busy
    <2>3. CASE GetCmacDebugStats(r)
      <3> DEFINE y == [reader[r] EXCEPT !.next = "total", !.debug = FALSE]
      <3>1. y \in Locals(r) /\ reader' = [reader EXCEPT ![r] = y]
        BY <1>1, <2>3 DEF GetCmacDebugStats, Locals, StatInv, StatType
      <3>2. y.pos = reader[r].pos /\ y.next = "total"
        BY <1>1 DEF Locals
      <3> QED BY <3>1, <3>2 DEF Copied, Busy
    <2> QED BY <2>1, <2>2, <2>3
  <1>5. /\ reader'[r] = y /\ \A o \in Readers \ {r} : reader'[o] = reader[o]
        /\ reader' = [o \in Readers |-> reader'[o]]
        /\ \A o \in Readers :
               /\ reader'[o] \in Locals(o)
               /\ reader'[o].pos = Len(Reads[o]) + 1 <=> reader'[o].next = "report"
    BY <1>1, <1>4, ReaderStep DEF Busy
  <1>6. StatType'
    BY <1>1, <1>5 DEF StatInv, StatType
  <1>7. Among'
    BY <1>1 DEF StatInv, Among
  <1>8. Balance'
    <2>1. \A c : ReadingAt(reader[r], r, c) <=> ReadingAt(reader'[r], r, c)
      BY <1>1, <1>4, <1>5 DEF ReadingAt
    <2> QED BY <1>1, <1>5, <1>6, <2>1, BalanceOfReader
  <1>9. AllCopied'
    <2> SUFFICES ASSUME NEW o \in Readers, reader'[o].next # "report", Exclusive(Target(o))'
                 PROVE  Copied(reader'[o], latch[Reads[o][reader'[o].pos]])
      BY <1>1 DEF AllCopied, Copied, Target
    <2>1. Exclusive(Reads[o][reader'[o].pos])
      BY DEF Exclusive, Target
    <2>2. CASE o = r
      BY SMTT(30), <1>2, <1>4, <1>5, <2>1, <2>2
    <2>3. CASE o # r
      BY <1>5, <2>1, <2>3 DEF StatInv, AllCopied, Target
    <2> QED BY <2>2, <2>3
  <1> QED BY <1>6, <1>7, <1>8, <1>9 DEF StatInv

(* A round ends and the next one begins, or the loop ends.                 *)
LEMMA ReportStep ==
  ASSUME StatInv, NEW r \in Readers, Produce(r) \/ (r = Main /\ Monitor) \/ Leave(r)
  PROVE  StatInv'
  <1>1. /\ reader[r] \in Locals(r) /\ reader[r].next \in {"report", "tick"}
        /\ UNCHANGED <<pending, latch, seen, arrived, packets>>
    BY DEF StatInv, StatType, Produce, Monitor, Leave
  <1>2. 1 \in 1..(Len(Reads[r]) + 1) /\ 1 # Len(Reads[r]) + 1
    <2>1. Reads[r] \in Seq(Cmacs) /\ Reads[r] # <<>>
      BY MonitorAssumption
    <2>2. Len(Reads[r]) \in Nat /\ Len(Reads[r]) # 0
      BY <2>1
    <2> QED BY <2>2
  <1>3. PICK x \in Locals(r) : /\ x.pos = 1 /\ x.next \in {"tick", "ended"}
                               /\ reader' = [reader EXCEPT ![r] = x]
    <2>1. CASE Produce(r) \/ (r = Main /\ Monitor)
      <3> DEFINE x == [reader[r] EXCEPT !.pos = 1, !.next = "tick"]
      <3>1. x \in Locals(r) /\ x.pos = 1 /\ x.next = "tick"
        BY <1>1, <1>2 DEF Locals
      <3>2. reader' = [reader EXCEPT ![r] = x]
        BY <2>1 DEF Produce, Monitor, Begin, StatInv, StatType
      <3> QED BY <3>1, <3>2
    <2>2. CASE Leave(r)
      <3> DEFINE x == [reader[r] EXCEPT !.next = "ended"]
      <3>1. x \in Locals(r) /\ x.pos = 1 /\ x.next = "ended"
        BY <1>1, <2>2 DEF Locals, Leave
      <3>2. reader' = [reader EXCEPT ![r] = x]
        BY <2>2 DEF Leave, StatInv, StatType
      <3> QED BY <3>1, <3>2
    <2> QED BY <2>1, <2>2
  <1>4. /\ reader'[r] = x /\ \A o \in Readers \ {r} : reader'[o] = reader[o]
        /\ reader' = [o \in Readers |-> reader'[o]]
        /\ \A o \in Readers :
               /\ reader'[o] \in Locals(o)
               /\ reader'[o].pos = Len(Reads[o]) + 1 <=> reader'[o].next = "report"
    BY <1>1, <1>2, <1>3, ReaderStep
  <1>5. StatType'
    BY <1>1, <1>4 DEF StatInv, StatType
  <1>6. Among'
    BY <1>1 DEF StatInv, Among
  <1>7. Balance'
    <2>1. \A c : ~ReadingAt(reader[r], r, c) /\ ~ReadingAt(reader'[r], r, c)
      BY <1>1, <1>3, <1>4 DEF ReadingAt, Busy
    <2> QED BY <1>1, <1>4, <1>5, <2>1, BalanceOfReader
  <1>8. AllCopied'
    BY <1>1, <1>3, <1>4, CopiedOfReader DEF Copied
  <1> QED BY <1>5, <1>6, <1>7, <1>8 DEF StatInv

(* The stats are returned: what was latched is seen.                       *)
LEMMA ReturnStep ==
  ASSUME StatInv, NEW r \in Readers, GetCmacStats(r)
  PROVE  StatInv'
  <1> DEFINE t == Target(r)
             s == reader[r].stats
             p == reader[r].pos
             x == [reader[r] EXCEPT
                     !.pos = p + 1,
                     !.next = IF p < Len(Reads[r]) THEN "tick" ELSE "report"]
  <1>1. /\ reader[r] \in Locals(r) /\ reader[r].next = "return"
        /\ seen' = [seen EXCEPT ![t] = AddStats(@, s)]
        /\ UNCHANGED <<pending, latch, arrived, packets>>
        /\ p # Len(Reads[r]) + 1
    BY DEF GetCmacStats, StatInv, StatType
  <1>2. p \in DOMAIN Reads[r] /\ t \in Cmacs /\ ReadBy(r, t) /\ t = Reads[r][p]
    BY <1>1, InRound DEF StatInv, StatType, Target
  <1>3. /\ Len(Reads[r]) \in Nat /\ p \in Nat /\ p <= Len(Reads[r])
        /\ p + 1 \in 1..(Len(Reads[r]) + 1)
    <2>1. Reads[r] \in Seq(Cmacs)
      BY MonitorAssumption
    <2> QED BY <1>2, <2>1
  <1>4. reader' = [reader EXCEPT ![r] = x]
    BY <1>1 DEF GetCmacStats, StatInv, StatType
  <1>5. /\ x \in Locals(r) /\ x.pos = p + 1 /\ x.next \in {"tick", "report"}
        /\ x.pos = Len(Reads[r]) + 1 <=> x.next = "report"
    <2> DEFINE n == IF p < Len(Reads[r]) THEN "tick" ELSE "report"
    <2>1. x = [reader[r] EXCEPT !.pos = p + 1, !.next = n]
      OBVIOUS
    <2>2. n \in {"tick", "report"} /\ (p + 1 = Len(Reads[r]) + 1 <=> n = "report")
      BY <1>3
    <2> HIDE DEF n, x
    <2>3. x \in Locals(r) /\ x.pos = p + 1 /\ x.next = n
      BY <1>1, <1>3, <2>1, <2>2 DEF Locals
    <2> QED BY <2>2, <2>3
  <1> HIDE DEF x
  <1>6. /\ reader'[r] = x /\ \A o \in Readers \ {r} : reader'[o] = reader[o]
        /\ reader' = [o \in Readers |-> reader'[o]]
        /\ \A o \in Readers :
               /\ reader'[o] \in Locals(o)
               /\ reader'[o].pos = Len(Reads[o]) + 1 <=> reader'[o].next = "report"
    BY <1>4, <1>5, ReaderStep
  <1>7. /\ seen \in [Cmacs -> Stats] /\ seen[t].total \in Nat /\ seen[t].good \in Nat
        /\ latch[t].total \in Nat /\ latch[t].good \in Nat
        /\ pending[t].total \in Nat /\ pending[t].good \in Nat
        /\ arrived[t].total \in Nat /\ arrived[t].good \in Nat
        /\ s.total \in Nat /\ s.good \in Nat
    <2>1. s.total \in Nat /\ s.good \in Nat
      BY <1>1, MonitorAssumption DEF Locals, Field
    <2> HIDE DEF s
    <2> QED BY <1>2, <2>1 DEF StatInv, StatType, Stats
  <1>8. /\ AddStats(seen[t], s) \in Stats
        /\ AddStats(seen[t], s).total = (seen[t].total + s.total) % W
        /\ AddStats(seen[t], s).good = (seen[t].good + s.good) % W
    <2>1. seen[t].total + s.total \in Nat /\ seen[t].good + s.good \in Nat
      BY <1>7
    <2>2. (seen[t].total + s.total) % W \in Nat /\ (seen[t].good + s.good) % W \in Nat
      BY <2>1, Division
    <2> QED BY <2>2 DEF AddStats, Stats
  <1>9. /\ seen' \in [Cmacs -> Stats] /\ seen'[t] = AddStats(seen[t], s)
        /\ \A c \in Cmacs \ {t} : seen'[c] = seen[c]
    BY <1>1, <1>2, <1>7, <1>8
  <1>10. StatType'
    BY <1>1, <1>6, <1>9 DEF StatInv, StatType
  <1>11. Among'
    BY <1>1 DEF StatInv, Among
  <1>12. ASSUME NEW c \in Cmacs, Exclusive(c),
                BalancedAt(seen[c], IF ReadingAt(reader[r], r, c) THEN latch[c] ELSE Zero,
                           pending[c], arrived[c])
         PROVE  BalancedAt(seen'[c], IF ReadingAt(x, r, c) THEN latch[c] ELSE Zero,
                           pending[c], arrived[c])
    <2>1. ~ReadingAt(x, r, c) /\ (ReadingAt(reader[r], r, c) <=> c = t)
      BY <1>1, <1>2, <1>5 DEF ReadingAt, Busy
    <2>2. CASE c = t
      <3>1. s.total = latch[t].total % W /\ s.good = latch[t].good % W
        BY <1>1, <1>12, <2>2 DEF StatInv, AllCopied, Copied
      <3>2. BalancedAt(seen[t], latch[t], pending[t], arrived[t])
        BY <1>12, <2>1, <2>2
      <3>3. Balanced((seen[t].total + s.total) % W, 0, pending[t].total, arrived[t].total)
        BY <1>7, <3>1, <3>2, BalancedReturn DEF BalancedAt
      <3>4. Balanced((seen[t].good + s.good) % W, 0, pending[t].good, arrived[t].good)
        BY <1>7, <3>1, <3>2, BalancedReturn DEF BalancedAt
      <3> QED BY <1>8, <1>9, <2>1, <2>2, <3>3, <3>4 DEF BalancedAt, Zero
    <2>3. CASE c # t
      BY <1>9, <1>12, <2>1, <2>3
    <2> QED BY <2>2, <2>3
  <1>13. Balance'
    <2>1. \A c \in Cmacs : ~ReadBy(r, c) =>
             /\ latch'[c] = latch[c] /\ pending'[c] = pending[c]
             /\ seen'[c] = seen[c] /\ arrived'[c] = arrived[c]
      BY <1>1, <1>2, <1>9
    <2>2. ASSUME NEW c \in Cmacs, Exclusive(c), ReadBy(r, c),
                 BalancedAt(seen[c], IF ReadingAt(reader[r], r, c) THEN latch[c] ELSE Zero,
                            pending[c], arrived[c])
          PROVE  BalancedAt(seen'[c], IF ReadingAt(reader'[r], r, c) THEN latch'[c] ELSE Zero,
                            pending'[c], arrived'[c])
      BY <1>1, <1>6, <1>12, <2>2
    <2> QED BY <1>6, <1>10, <2>1, <2>2, BalanceOfReader
  <1>14. AllCopied'
    BY <1>1, <1>5, <1>6, CopiedOfReader DEF Copied
  <1> QED BY <1>10, <1>11, <1>13, <1>14 DEF StatInv

LEMMA StatStep == StatInv /\ [Next]_vars => StatInv'
  <1> SUFFICES ASSUME StatInv, [Next]_vars PROVE StatInv'
    OBVIOUS
  <1>1. CASE UNCHANGED statVars
    <2>1. UNCHANGED <<pending, latch, reader, seen, arrived, packets>>
      BY <1>1 DEF statVars
    <2>2. StatType' /\ Among'
      BY <2>1 DEF StatInv, StatType, Among
    <2>3. Balance'
      BY <2>1 DEF StatInv, Balance, Exclusive, Unread, Reading, Target
    <2>4. AllCopied'
      BY <2>1 DEF StatInv, AllCopied, Exclusive, Target
    <2> QED
      BY <2>2, <2>3, <2>4 DEF StatInv
  <1>2. CASE InitHardware \/ \E c \in Cmacs : ResetDone(c)
    BY <1>1, <1>2 DEF InitHardware, WaitShell, ResetCmac, WaitReset, CheckVersion,
                      EnableReset, WaitAgain, Configure, AllCmacs, ResetDone
  <1>3. ASSUME NEW r \in Readers, Read(r) PROVE StatInv'
    BY <1>3, TickStep, ReadStep, ReturnStep, ReportStep DEF Read
  <1> QED BY <1>1, <1>2, <1>3, ArriveStep DEF Next, vars

LEMMA StatInvariant == Spec => []StatInv
  BY StatInitInv, StatStep, PTL DEF Spec

-----------------------------------------------------------------------------
(* Positions, registers and fields keep their types.                       *)
THEOREM MonitorTypeOK == Spec => []TypeOK
  <1>1. HwInv /\ StatInv => TypeOK
    BY DEF HwInv, HwType, StatInv, StatType, TypeOK
  <1> QED BY <1>1, HwInvariant, StatInvariant, PTL

(* The statistics of a CMAC that one thread reads add up, in any width of  *)
(* the fields and with any number of readers of other CMACs.               *)
THEOREM MonitorNothingLost == Spec => []NothingLost
  <1>1. StatInv => NothingLost
    BY DEF StatInv, Balance, BalancedAt, Balanced, NothingLost
  <1> QED BY <1>1, StatInvariant, PTL

(* Registers that are read one by one show one instant.                    *)
THEOREM MonitorOneInstant == Spec => []OneInstant
  <1>1. StatInv => OneInstant
    <2> SUFFICES ASSUME StatInv, NEW r \in Readers, reader[r].next = "return",
                        Exclusive(Target(r)), latch[Target(r)].total < W
                 PROVE  reader[r].stats.good <= reader[r].stats.total
      BY DEF OneInstant
    <2> DEFINE l == latch[Target(r)]
    <2>1. Target(r) \in Cmacs
      BY InRound DEF StatInv, StatType, Target
    <2>2. l.total \in Nat /\ l.good \in Nat /\ l.good <= l.total
      BY <2>1 DEF StatInv, StatType, Stats, Among
    <2>3. reader[r].stats.total = l.total % W /\ reader[r].stats.good = l.good % W
      BY DEF StatInv, AllCopied, Copied
    <2>4. l.total < W /\ l.good < W
      BY <2>2, MonitorAssumption
    <2> HIDE DEF l
    <2>5. l.total % W = l.total /\ l.good % W = l.good
      BY <2>2, <2>4, Division
    <2> QED BY <2>2, <2>3, <2>5
  <1> QED BY <1>1, StatInvariant, PTL

-----------------------------------------------------------------------------
(* Where the constructors are, as a number: every CMAC has seven steps.    *)
StepNo ==
  CASE step = "shell"   -> 0
    [] step = "reset"   -> 1
    [] step = "wait"    -> 2
    [] step = "version" -> 3
    [] step = "enable"  -> 4
    [] step = "again"   -> 5
    [] step = "conf"    -> 6
    [] step = "done"    -> 0

Position == 7 * ((NB_CMAC + 1) * card + cmac) + StepNo
Last     == 7 * ((NB_CMAC + 1) * NbCards)

LEMMA Product ==
  ASSUME NEW n \in Nat, NEW a \in Nat, NEW b \in Nat, a <= b
  PROVE  n * a <= n * b
  <1>1. PICK d \in Nat : b = a + d
    <2>1. b - a \in Nat /\ b = a + (b - a)
      OBVIOUS
    <2> QED BY <2>1
  <1>2. n * d \in Nat /\ n * a \in Nat /\ n * (a + d) = n * a + n * d
    OBVIOUS
  <1> QED BY <1>1, <1>2

LEMMA Times ==
  ASSUME NEW n \in Nat, NEW a \in Nat
  PROVE  n * a \in Nat /\ n * (a + 1) = n * a + n
  OBVIOUS

LEMMA Within ==
  ASSUME NEW n \in Nat, NEW d \in Nat, NEW k \in Nat, d < k, NEW j \in 0..(n - 1)
  PROVE  n * d + j + 1 <= n * k
  <1>1. n * (d + 1) <= n * k
    BY Product
  <1>2. n * d \in Nat /\ n * k \in Nat /\ n * (d + 1) = n * d + n
    BY Times
  <1> DEFINE a == n * d
             b == n * k
  <1>3. a \in Nat /\ b \in Nat /\ a + n <= b
    BY <1>1, <1>2
  <1> HIDE DEF a, b
  <1>4. a + j + 1 <= b
    BY <1>3
  <1> QED BY <1>4 DEF a, b

LEMMA PlaceType ==
  ASSUME NEW n \in Nat, NEW d \in Nat, NEW j \in Nat
  PROVE  n * d + j \in Nat
  <1> DEFINE a == n * d
  <1>1. a \in Nat
    BY Times
  <1> HIDE DEF a
  <1>2. a + j \in Nat
    BY <1>1
  <1> QED BY <1>2 DEF a

LEMMA NextPlace ==
  ASSUME NEW p \in Nat, NEW q \in Nat, NEW a \in 0..6, NEW b \in 0..6, p + 1 <= q
  PROVE  7 * q + b > 7 * p + a /\ 7 * p + a <= 7 * q
  OBVIOUS

(* What init_hardware does next never leads back to an earlier place, so   *)
(* that no CMAC is brought up a second time whatever its version.          *)
Advances == InitHardware => Position' > Position /\ Position' <= Last

(* The part of InitReturns that does not depend on fairness: the           *)
(* constructors come to their end in a bounded number of steps, however    *)
(* many cards and CMACs there are.                                         *)
THEOREM MonitorInitAdvances == Spec => [][Advances]_vars
  <1>1. ASSUME HwInv, HwInv', InitHardware PROVE Position' > Position /\ Position' <= Last
    <2>1. PICK N \in Nat \ {0} : N = NB_CMAC + 1
      BY MonitorAssumption
    <2>2. /\ NbCards \in Nat /\ NB_CMAC \in Nat
          /\ card \in Nat /\ card' \in Nat /\ card' <= NbCards
          /\ cmac \in Nat /\ cmac' \in Nat /\ cmac <= NB_CMAC /\ cmac' <= NB_CMAC
      BY <1>1, MonitorAssumption DEF HwInv, HwType
    <2>3. N \in Nat /\ cmac \in 0..(N - 1) /\ cmac' \in 0..(N - 1)
      BY <2>1, <2>2
    <2> DEFINE p == N * card + cmac
               q == N * card' + cmac'
    <2>21. p \in Nat /\ q \in Nat /\ N * NbCards \in Nat
      BY <2>2, <2>3, PlaceType, Times
    <2>4. StepNo \in 0..6 /\ StepNo' \in 0..6
      BY <1>1 DEF HwInv, HwType, StepNo
    <2>5. step' = "done" => StepNo' = 0
      BY DEF StepNo
    <2>6. card' = NbCards => StepNo' = 0 /\ cmac' = 0
      BY <1>1, <2>5 DEF HwInv, Progress
    <2>7. Position = 7 * p + StepNo /\ Position' = 7 * q + StepNo'
      BY <2>1 DEF Position
    <2>70. Last = 7 * (N * NbCards)
      BY <2>1 DEF Last
    <2>8. Position' <= Last
      <3>1. CASE card' = NbCards
        <4>1. q = N * NbCards + 0
          BY <2>6, <3>1
        <4>2. q = N * NbCards
          <5> HIDE DEF q
          <5> DEFINE L == N * NbCards
          <5>1. L \in Nat /\ q = L + 0
            BY <2>21, <4>1
          <5> HIDE DEF L
          <5>2. q = L
            BY <5>1
          <5> QED BY <5>2 DEF L
        <4>3. StepNo' = 0
          BY <2>6, <3>1
        <4> HIDE DEF q
        <4> QED BY <2>7, <2>70, <2>21, <4>2, <4>3
      <3>2. CASE card' < NbCards
        <4>1. q + 1 <= N * NbCards
          BY <2>2, <2>3, <3>2, Within
        <4> HIDE DEF q
        <4> QED BY <2>21, <2>4, <2>7, <2>70, <4>1, NextPlace
      <3> QED BY <2>2, <3>1, <3>2
    <2>80. ASSUME q = p, StepNo' > StepNo PROVE Position' > Position
      BY <2>80, <2>21, <2>4, <2>7
    <2>81. ASSUME q >= p + 1 PROVE Position' > Position
      <3> HIDE DEF p, q
      <3> QED BY <2>81, <2>21, <2>4, <2>7, NextPlace
    <2>9. CASE WaitShell \/ ResetCmac \/ WaitReset \/ EnableReset \/ WaitAgain
      <3>1. card' = card /\ cmac' = cmac
        BY <1>1, <2>9 DEF WaitShell, ResetCmac, WaitReset, EnableReset, WaitAgain,
                          HwInv, Progress
      <3>2. StepNo' > StepNo
        BY <2>9 DEF WaitShell, ResetCmac, WaitReset, EnableReset, WaitAgain, StepNo
      <3> QED BY <2>8, <2>80, <3>1, <3>2
    <2>10. CASE Configure
      <3>1. card' = card /\ cmac' = cmac + 1
        BY <2>10 DEF Configure
      <3>2. q >= p + 1
        <4> DEFINE a == N * card
        <4>1. a \in Nat /\ q = a + (cmac + 1) /\ p = a + cmac
          BY <2>2, <2>3, <3>1, Times
        <4> HIDE DEF a, p, q
        <4> QED BY <2>2, <4>1
      <3> QED BY <2>8, <2>81, <3>2
    <2>11. CASE NextCard
      <3>1. card' = card + 1 /\ cmac' = 0
        BY <2>11 DEF NextCard
      <3>2. p + 1 <= N * (card + 1)
        BY <2>2, <2>3, Within
      <3>3. N * (card + 1) \in Nat /\ q = N * (card + 1) + 0
        BY <2>2, <2>3, <3>1, Times
      <3>4. q >= p + 1
        <4> DEFINE a == N * (card + 1)
        <4>1. a \in Nat /\ q = a + 0 /\ p + 1 <= a
          BY <3>2, <3>3
        <4> HIDE DEF a, p, q
        <4> QED BY <2>21, <4>1
      <3> QED BY <2>8, <2>81, <3>4
    <2>12. CASE CheckVersion /\ version[Here]
      <3>1. card' = card /\ cmac' = cmac /\ StepNo' > StepNo
        BY <2>12 DEF CheckVersion, StepNo
      <3> QED BY <2>8, <2>80, <3>1
    <2> QED
      BY <1>1, <2>9, <2>10, <2>11, <2>12 DEF InitHardware, CheckVersion, AllCmacs
  <1>2. HwInv /\ HwInv' /\ [Next]_vars => [Advances]_vars
    BY <1>1 DEF Advances
  <1> QED BY <1>2, HwInvariant, HwStep, PTL DEF Spec
=============================================================================
