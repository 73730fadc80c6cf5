--------------------------- MODULE MCWifiManager ---------------------------
(* One network, a clock that starts anywhere and wraps, and a short int of    *)
(* half its range.                                                            *)
EXTENDS WifiManager
=============================================================================
