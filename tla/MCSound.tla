------------------------------- MODULE MCSound -------------------------------
(* Sound for TLC; sound.cfg gives the constants their values.              *)
EXTENDS Sound
=============================================================================
