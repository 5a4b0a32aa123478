------------------------------ MODULE MCSyncPath ------------------------------
(* SyncPath with three kinds of beats: the header the detector's constants *)
(* match, the one the sync application sends, and one of other traffic.    *)
(* MCTwoHeaders leaves the last out: the detector treats it as the second. *)
EXTENDS SyncPath

Match        == <<0, 129, 202, 171>>
MCHeaders    == {Match, AppHeader, <<8, 0, 69, 0>>}
MCTwoHeaders == {Match, AppHeader}
=============================================================================
