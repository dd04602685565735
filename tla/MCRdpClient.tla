----------------------------- MODULE MCRdpClient -----------------------------
(* RdpClient for TLC; the configurations give the constants their values.  *)
EXTENDS RdpClient
=============================================================================
