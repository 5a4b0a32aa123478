--------------------------- MODULE MCQdmaCommands ---------------------------
(* QdmaCommands with two ports and two set-ups of them that differ in the  *)
(* number of queues, in how many of them are streaming and in the buffer.  *)
EXTENDS QdmaCommands

Small == [num_queues |-> 2, st_queues |-> 2, buff_size |-> 2]
Large == [num_queues |-> 3, st_queues |-> 1, buff_size |-> 3]
None  == [num_queues |-> 0, st_queues |-> 0, buff_size |-> 2]
MCPortArgs == {Small, Large, None}

(* "0", "2" and "0x2".                                                     *)
MCAddresses == {[strtoull |-> 0, atoi |-> 0], [strtoull |-> 2, atoi |-> 2],
                [strtoull |-> 2, atoi |-> 0]}
=============================================================================
