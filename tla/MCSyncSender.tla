----------------------------- MODULE MCSyncSender -----------------------------
(* SyncSender with periods of three cycles, a queue of two descriptors and *)
(* pools that are just large enough or one mbuf too small.                 *)
EXTENDS SyncSender
=============================================================================
