----------------------------- MODULE MCLogging -----------------------------
(* Three threads, the main loop and two background tasks.                     *)
EXTENDS Logging
=============================================================================
