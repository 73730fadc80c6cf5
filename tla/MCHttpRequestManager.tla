------------------------ MODULE MCHttpRequestManager ------------------------
(* Three requests, the second of them a firmware download.                    *)
EXTENDS HttpRequestManager
=============================================================================
