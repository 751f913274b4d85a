---------------------------- MODULE MCPreflight -----------------------------
(* One tab of owner a or b on a vault that moves a few times.               *)
EXTENDS Preflight

CONSTANTS a, b, c
=============================================================================
