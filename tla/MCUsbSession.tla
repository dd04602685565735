---------------------------- MODULE MCUsbSession -----------------------------
(* UsbSession for TLC; usb.cfg gives the constants their values.           *)
EXTENDS UsbSession
=============================================================================
