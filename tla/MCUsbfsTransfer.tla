-------------------------- MODULE MCUsbfsTransfer ---------------------------
(* Values of the constants for TLC: see the .cfg files.                    *)
EXTENDS UsbfsTransfer
=============================================================================
