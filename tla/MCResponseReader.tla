-------------------------- MODULE MCResponseReader --------------------------
(* Short lines, a line that just fills the buffer, one that is split, a       *)
(* response without a Content-Length, one with text before it, one with       *)
(* another status and an empty body.                                          *)
EXTENDS ResponseReader

Ok == <<"HTTP", "200", "CR">>
Header == <<"NL", "h", "CR">>
Split == <<"NL", "h", "h", "h", "h", "h", "CR">>
Length == <<"NL", "L", "d", "d", "CR">>
Empty == <<"NL", "CR">>
Body == <<"NL", "b", "b">>

MCResponses ==
    { Ok \o Length \o Header \o Empty \o Body,
      Ok \o Split \o Empty \o Body,
      Ok \o Empty \o <<"NL">>,
      Ok \o <<"NL", "h", "L", "d", "CR">> \o Empty \o Body,
      <<"HTTP", "404", "CR">> \o Header \o Empty \o <<"NL">>,
      Header \o Empty \o Body }
=============================================================================
