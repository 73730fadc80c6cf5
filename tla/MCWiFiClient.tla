---------------------------- MODULE MCWiFiClient ----------------------------
(* A buffer of three bytes, so that a read() is shorter, as long and longer   *)
(* than it, and than what has arrived.                                        *)
EXTENDS WiFiClient
=============================================================================
