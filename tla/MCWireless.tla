----------------------------- MODULE MCWireless ------------------------------
(* Wireless for TLC; the configurations give the constants their values.   *)
EXTENDS Wireless
=============================================================================
