---------------------------- MODULE MCFtpSession ----------------------------
(* Values of the constants for TLC: see the .cfg files.                    *)
EXTENDS FtpSession
=============================================================================
