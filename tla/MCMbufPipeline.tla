--------------------------- MODULE MCMbufPipeline ---------------------------
(* MbufPipeline on a small mempool: model values for mbufs, which the      *)
(* pipeline never compares except for equality.                            *)
EXTENDS MbufPipeline, TLC

Symmetry == Permutations(Mbufs)
=============================================================================
