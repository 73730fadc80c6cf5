-------------------------- MODULE MCUpdateClients --------------------------
(* Partitions of one sector, images that just fill it, and headers and        *)
(* invitations that declare a byte less or a byte more.                       *)
EXTENDS UpdateClients, MCUpdater

MCInvitations ==
    { [size |-> 2, cmd |-> "U_FLASH", md5 |-> oldFw],
      [size |-> 1, cmd |-> "U_SPIFFS", md5 |-> text],
      [size |-> 3, cmd |-> "U_FLASH", md5 |-> text] }
=============================================================================
