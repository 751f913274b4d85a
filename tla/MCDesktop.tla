------------------------------ MODULE MCDesktop -----------------------------
(* Two pairs of endpoints, two releases, one browser with Auro beside the   *)
(* default one.                                                             *)
EXTENDS Desktop

CONSTANTS a, b, r1, r2, plain, auro, k1, k2
=============================================================================
