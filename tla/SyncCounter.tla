----------------------------- MODULE SyncCounter -----------------------------
(***************************************************************************)
(* What a clock-synchronisation counter promises, without its pipeline     *)
(* registers: a pair of a sync count and a tick count that resets together *)
(* and then either free-runs with one and the same period for ever         *)
(* (master), or follows the pulses of another device (slave).  Which       *)
(* period that is, is left open here.                                      *)
(***************************************************************************)
EXTENDS Integers

CONSTANT
  WordMod    (* 2^width of both counts                                     *)

VARIABLES
  master,    (* TRUE: free-running; FALSE: driven by pulses; never changes *)
  period,    (* ticks of a master's period; never changes                  *)
  nb_sync,   (* how many periods or pulses since the reset                 *)
  curr_tick  (* clock ticks since the last of them                         *)

params == <<master, period>>
vars   == <<params, nb_sync, curr_tick>>

Word == 0..(WordMod - 1)

(* Before the first reset the registers hold anything.                     *)
Init ==
  /\ master \in BOOLEAN /\ period \in 1..WordMod
  /\ nb_sync \in Word /\ curr_tick \in Word

Reset == nb_sync' = 0 /\ curr_tick' = 0

(* A new period begins.                                                    *)
NewPeriod ==
  /\ nb_sync' = (nb_sync + 1) % WordMod
  /\ curr_tick' = 0

MasterTick ==
  /\ master
  /\ \/ curr_tick = period - 1 /\ NewPeriod
     \/ /\ curr_tick < period - 1
        /\ curr_tick' = curr_tick + 1
        /\ UNCHANGED nb_sync

SlavePulse == ~master /\ NewPeriod

Next == (Reset \/ MasterTick \/ SlavePulse) /\ UNCHANGED params

Spec == Init /\ [][Next]_vars
=============================================================================
