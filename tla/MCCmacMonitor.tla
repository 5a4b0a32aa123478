--------------------------- MODULE MCCmacMonitor ---------------------------
(* CmacMonitor with the two cards of main: its loop reads CMAC 0 of the    *)
(* first and CMAC 1 of the second; the producer of a context that forwards *)
(* on the first card reads both CMACs of that card, so that CMAC 0 of it   *)
(* is shared and the others have one reader at most.                       *)
EXTENDS CmacMonitor

MCReads == [r \in {"main", "producer"} |->
              IF r = "main" THEN << <<0, 0>>, <<1, 1>> >>
                            ELSE << <<0, 0>>, <<0, 1>> >>]
=============================================================================
