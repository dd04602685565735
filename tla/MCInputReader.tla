---------------------------- MODULE MCInputReader ----------------------------
(* InputReader for TLC: a keyboard, a mouse and a power button.            *)
EXTENDS InputReader

MCIs == <<{"keyboard"}, {"pointer"}, {}>>
=============================================================================
