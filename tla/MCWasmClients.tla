--------------------------- MODULE MCWasmClients ---------------------------
(* Three clients of one page.                                              *)
EXTENDS WasmClients
=============================================================================
