--------------------------- MODULE MCAppLifecycle ---------------------------
(* AppLifecycle for the lcore sets its configurations name.                *)
EXTENDS AppLifecycle
=============================================================================
