--------------------------- MODULE MCKioskSession ----------------------------
(* KioskSession for TLC; the configurations give the constants their       *)
(* values.                                                                 *)
EXTENDS KioskSession
=============================================================================
