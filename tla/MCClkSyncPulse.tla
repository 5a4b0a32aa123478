--------------------------- MODULE MCClkSyncPulse ---------------------------
(* ClkSyncPulse with 3-bit words and a short period; registers power up    *)
(* with either of two values, neither of which is a default.               *)
EXTENDS ClkSyncPulse
=============================================================================
