--------------------------- MODULE ForwardChannel ---------------------------
(***************************************************************************)
(* What the software forwarder promises about the mbufs it moves from an   *)
(* rx port to a tx port, whatever threads and rings carry them: an mbuf    *)
(* handed over by the receiving side is either transmitted or dropped, in  *)
(* the order of arrival, never invented, repeated or overtaken, and only a *)
(* bounded number of them wait in host memory.                             *)
(***************************************************************************)
EXTENDS Naturals, Sequences

CONSTANTS
  Mbufs,     (* packet buffers                                             *)
  Burst,     (* largest batch handed over or taken in one call             *)
  Waiting,   (* mbufs that may wait between reception and transmission     *)
  TxDescs    (* mbufs the transmitting device can hold                     *)

VARIABLES
  waiting,   (* handed over by the receiver and not yet given to the device *)
  posted     (* given to the transmitting device, in order                 *)

vars == <<waiting, posted>>

Batches == UNION {[1..n -> Mbufs] : n \in 1..Burst}

Init == waiting = <<>> /\ posted = <<>>

(* The receiver hands over a batch; it is taken whole or not at all.       *)
Accept ==
  \E b \in Batches :
     /\ Len(waiting) + Len(b) <= Waiting
     /\ waiting' = waiting \o b
     /\ UNCHANGED posted

(* The oldest k waiting mbufs go to the device.                            *)
Post ==
  \E k \in 1..Len(waiting) :
     /\ Len(posted) + k <= TxDescs
     /\ posted'  = posted \o SubSeq(waiting, 1, k)
     /\ waiting' = SubSeq(waiting, k + 1, Len(waiting))

(* The oldest waiting mbuf is dropped because the device has no room.      *)
Discard ==
  /\ waiting # <<>>
  /\ waiting' = Tail(waiting)
  /\ UNCHANGED posted

(* The device has transmitted its oldest mbuf.                             *)
Complete ==
  /\ posted # <<>>
  /\ posted' = Tail(posted)
  /\ UNCHANGED waiting

Next == Accept \/ Post \/ Discard \/ Complete

Spec == Init /\ [][Next]_vars
=============================================================================
