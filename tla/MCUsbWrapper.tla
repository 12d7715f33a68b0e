---------------------------- MODULE MCUsbWrapper ----------------------------
(***************************************************************************)
(* Small instances of UsbWrapper for TLC.                                  *)
(***************************************************************************)
EXTENDS UsbWrapper, TLC

CONSTANTS t1, t2, a1
=============================================================================
