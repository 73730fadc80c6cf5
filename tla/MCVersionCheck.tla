--------------------------- MODULE MCVersionCheck ---------------------------
(* Version 0.1.0, with older, newer, longer and malformed texts around it.    *)
EXTENDS VersionCheck

MCCurrent == <<0, 1, 0>>
=============================================================================
