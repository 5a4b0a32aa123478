----------------------------- MODULE MCOnicPort -----------------------------
(* OnicPort with an owner and two callers of its methods, which are alike. *)
EXTENDS OnicPort
=============================================================================
