--------------------------- MODULE MCPrologBridge ---------------------------
(* Three threads, so that one may close while another uses and a third     *)
(* starts afresh.                                                          *)
EXTENDS PrologBridge

CONSTANTS c1, c2, c3
============================================================================
