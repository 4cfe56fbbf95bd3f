--------------------------- MODULE AsyncTransfer ----------------------------
(***************************************************************************)
(* What libusb's asynchronous interface (libusb.h, io.c) promises of one   *)
(* transfer: after libusb_submit_transfer has returned success, the        *)
(* callback runs exactly once, and the status it is given tells how the    *)
(* transfer ended.  A cancellation that was accepted shows in that status, *)
(* unless the device is gone.                                              *)
(***************************************************************************)

VARIABLES
  in_flight,   \* submitted, and not reported yet
  cancelled,   \* libusb_cancel_transfer has returned success
  status       \* what the last callback was given

vars == <<in_flight, cancelled, status>>

Statuses == {"COMPLETED", "ERROR", "TIMED_OUT", "CANCELLED", "STALL", "NO_DEVICE", "OVERFLOW"}

Init == in_flight = FALSE /\ cancelled = FALSE /\ status = "none"

Submit ==
  /\ ~in_flight
  /\ in_flight' = TRUE /\ cancelled' = FALSE /\ status' = "none"

Cancel ==
  /\ in_flight /\ ~cancelled
  /\ cancelled' = TRUE
  /\ UNCHANGED <<in_flight, status>>

Report(result) ==
  /\ in_flight
  /\ IF cancelled THEN result \in {"CANCELLED", "TIMED_OUT", "NO_DEVICE"}
                  ELSE result \notin {"CANCELLED", "TIMED_OUT"}
  /\ in_flight' = FALSE /\ status' = result
  /\ UNCHANGED cancelled

Next == Submit \/ Cancel \/ \E result \in Statuses : Report(result)

Spec == Init /\ [][Next]_vars
=============================================================================
