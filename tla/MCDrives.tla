------------------------------ MODULE MCDrives -------------------------------
(* Drives for TLC; drives.cfg gives the constants their values.            *)
EXTENDS Drives
=============================================================================
