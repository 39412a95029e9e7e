------------------------------ MODULE MCUsbGate ------------------------------
(***************************************************************************)
(* UsbGate for TLC: three clients, penalties 1, 2, 4, 5, 5, ... and an     *)
(* eight-bit word, so that the shift overflows to a negative number at the *)
(* eighth failure and to zero at the ninth.                                *)
(***************************************************************************)
EXTENDS UsbGate
=============================================================================
