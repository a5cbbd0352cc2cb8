----------------------------- MODULE MCLcdFlush -----------------------------
(* Instances of LcdFlush for TLC: the configurations give the constants    *)
(* their values.  Two contexts call the protocols, and neither is the      *)
(* other's twin, so there is no symmetry to use.                           *)
EXTENDS LcdFlush
=============================================================================
