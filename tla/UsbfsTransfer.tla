--------------------------- MODULE UsbfsTransfer ----------------------------
(***************************************************************************)
(* One transfer in the Linux backend of libusb-1.0.21 (os/linux_usbfs.c).  *)
(* A bulk, interrupt or isochronous transfer is split into URBs, which are *)
(* submitted one by one, discarded when the transfer is cancelled or       *)
(* cannot go on, reaped in the order the kernel finished them, and added   *)
(* up to one result; a control transfer is one URB.  The packets of an     *)
(* isochronous URB are taken together: what became of them is the length   *)
(* of the URB, and iso_packet_offset counts the URBs they were copied from.*)
(*                                                                         *)
(* itransfer->lock is held by whoever submits, cancels or reaps; the       *)
(* kernel goes on finishing URBs between any two ioctls.  The kernel       *)
(* (usbfs) is modelled from what this code relies on: URBs of an endpoint  *)
(* finish in order; DISCARDURB on an URB that is still pending retires it  *)
(* with -ENOENT, and on another fails with EINVAL; with bulk continuation, *)
(* an URB that comes back short or failed makes the kernel retire, in      *)
(* order, and refuse the rest of the transfer; a halted endpoint moves no  *)
(* more data; a device that is gone answers ENODEV.                        *)
(***************************************************************************)
EXTENDS Naturals, Sequences, FiniteSets

CONSTANTS
  MaxUrbs,     \* URBs a transfer may need
  UrbLength,   \* bytes of an URB (MAX_BULK_BUFFER_LENGTH), a multiple of packets
  Types,       \* the types of transfers to consider
  Failures,    \* what may happen to an URB, beside short data and a removal
  Continuations, \* the values of USBFS_CAP_BULK_CONTINUATION to consider
  UnplugInCancel, \* a device may go away between two ioctls of a cancellation
  EarlyStalls  \* an endpoint may stall with two URBs or more still to come

ASSUME MaxUrbsAssumption   == MaxUrbs \in Nat \ {0}
ASSUME UrbLengthAssumption == UrbLength \in Nat \ {0}
ASSUME TypesAssumption     == Types \subseteq {"BULK", "INTERRUPT", "ISO", "CONTROL"}
ASSUME FailuresAssumption  == Failures \subseteq {"EPIPE", "EPROTO", "EOVERFLOW"}
ASSUME ContinuationsAssumption == Continuations \subseteq BOOLEAN
ASSUME UnplugInCancelAssumption == UnplugInCancel \in BOOLEAN
ASSUME EarlyStallsAssumption == EarlyStalls \in BOOLEAN

VARIABLES
  holder,        \* what itransfer->lock is held for: "none" when it is free
  at,            \* next URB to submit, or to discard
  first, last,   \* the range discard_urbs goes through, from last to first
  ret,           \* its result so far
  tpriv,         \* linux_transfer_priv; `urbs': the array is allocated
  itransfer,     \* usbi_transfer: in_flight, cancelling, transferred
  completing,    \* handle_bulk_completion has reached "completed"
  type,          \* transfer->type
  \* the kernel and the device
  urb,           \* state, status and length of every URB
  finished,      \* URBs to be reaped, in the order they came back
  continuation,  \* the device handle has USBFS_CAP_BULK_CONTINUATION
  reapsGone,     \* it has USBFS_CAP_REAP_AFTER_DISCONNECT
  cut, halted, gone,
  fd_removed,    \* the disconnection has been handled: nobody polls or reaps
  \* history of the current transfer
  status,        \* what was reported, "none" before
  cancelled,     \* libusb_cancel_transfer has returned success
  hole           \* some data was left apart from the data before it, or
                 \* packets were given what became of others

discarding == <<first, last, ret>>
kernel  == <<urb, finished, cut, halted, gone, fd_removed>>
caps    == <<continuation, reapsGone>>
history == <<status, cancelled, hole>>
vars    == <<holder, at, discarding, tpriv, itransfer, completing, type,
             kernel, caps, history>>

Urbs == 0 .. MaxUrbs - 1
NoUrb == [state |-> "none", status |-> "OK", actual_length |-> 0]

Init ==
  /\ holder = "none" /\ at = 0 /\ first = 0 /\ last = 0 /\ ret = "SUCCESS"
  /\ tpriv = [urbs |-> FALSE, num_urbs |-> 1, num_retired |-> 0,
              iso_packet_offset |-> 0,
              reap_action |-> "NORMAL", reap_status |-> "COMPLETED"]
  /\ itransfer = [in_flight |-> FALSE, cancelling |-> FALSE, transferred |-> 0]
  /\ completing = FALSE
  /\ type = "BULK"
  /\ urb = [u \in Urbs |-> NoUrb] /\ finished = << >>
  /\ continuation \in Continuations /\ reapsGone \in BOOLEAN
  /\ cut = FALSE /\ halted = FALSE /\ gone = FALSE /\ fd_removed = FALSE
  /\ status = "none" /\ cancelled = FALSE /\ hole = FALSE

Outstanding == {u \in Urbs : urb[u].state \in {"pending", "done"}}

-----------------------------------------------------------------------------
(* discard_urbs, one ioctl at a time; the caller set the range.            *)
StartDiscard(who, lo, hi) ==
  holder' = who /\ first' = lo /\ last' = hi /\ at' = hi /\ ret' = "SUCCESS"

(* The URB the endpoint works on: those before it have come back.          *)
Active(u) == /\ urb[u].state = "pending"
             /\ \A v \in Urbs : v < u => urb[v].state # "pending"

(* Data an URB may have moved when it ends before its buffer is full.      *)
PartialLengths(u) ==
  IF cut \/ halted \/ gone \/ ~Active(u) THEN {0} ELSE 0 .. UrbLength - 1

Retire(u, why, n) ==
  /\ urb' = [urb EXCEPT ![u] = [state |-> "done", status |-> why, actual_length |-> n]]
  /\ finished' = Append(finished, u)

(* Where a discard loop returns to.                                        *)
AfterDiscard ==
  CASE holder = "submitDiscard" -> "submitted"
    [] holder = "cancelDiscard" -> "cancelDone"
    [] holder = "reapDiscard"   -> "none"

(* Mutant of NextDiscard: the loop runs while i > first.                   *)
NextDiscard_SkipsFirst ==
  IF at <= first + 1 THEN holder' = AfterDiscard /\ UNCHANGED at
                     ELSE at' = at - 1 /\ UNCHANGED holder

NextDiscard ==
  IF at = first THEN holder' = AfterDiscard /\ UNCHANGED at
                ELSE at' = at - 1 /\ UNCHANGED holder

DiscardLoop == holder \in {"submitDiscard", "cancelDiscard", "reapDiscard"}

DiscardPending ==
  /\ DiscardLoop /\ ~gone /\ urb[at].state = "pending"
  /\ cut => Active(at)          \* the kernel's own retiring goes first
  /\ \E n \in PartialLengths(at) : Retire(at, "ENOENT", n)
  /\ NextDiscard
  /\ UNCHANGED <<discarding, tpriv, itransfer, completing, type, cut, halted,
                 gone, fd_removed, caps, history>>

(* EINVAL: assumed ready to be reaped; told to the caller for the last one.*)
DiscardNotFound ==
  /\ DiscardLoop /\ ~gone /\ urb[at].state # "pending"
  /\ ret' = IF at = last THEN "NOT_FOUND" ELSE ret
  /\ NextDiscard
  /\ UNCHANGED <<first, last, tpriv, itransfer, completing, type, kernel, caps, history>>

DiscardNoDevice ==
  /\ DiscardLoop /\ gone
  /\ ret' = "NO_DEVICE"
  /\ NextDiscard
  /\ UNCHANGED <<first, last, tpriv, itransfer, completing, type, kernel, caps, history>>

-----------------------------------------------------------------------------
(* op_submit_transfer, called with itransfer->lock held.  Nothing of an    *)
(* earlier transfer is left, unless its device went away.                  *)
SubmitTransfer(ty) ==
  /\ ty \in Types
  /\ holder = "none" /\ ~itransfer.in_flight /\ ~completing
  /\ holder' = "submit" /\ at' = 0
  /\ type' = ty
  /\ itransfer' = [in_flight |-> FALSE, cancelling |-> FALSE, transferred |-> 0]
  /\ urb' = [u \in Urbs |-> NoUrb] /\ finished' = << >>
  /\ cut' = FALSE /\ halted' = FALSE
  /\ hole' = FALSE
  /\ UNCHANGED <<discarding, completing, gone, fd_removed, caps, status, cancelled>>

submit_bulk_transfer(n, ty) ==
  /\ SubmitTransfer(ty)
  /\ tpriv' = [tpriv EXCEPT !.urbs = TRUE, !.num_urbs = n, !.num_retired = 0,
                            !.reap_action = "NORMAL", !.reap_status = "COMPLETED"]

(* Each URB takes as many packets as fit.                                  *)
submit_iso_transfer(n) ==
  /\ SubmitTransfer("ISO")
  /\ tpriv' = [tpriv EXCEPT !.urbs = TRUE, !.num_urbs = n, !.num_retired = 0,
                            !.reap_action = "NORMAL", !.iso_packet_offset = 0]

(* What was retired of an earlier transfer is of no interest to this one.  *)
submit_control_transfer ==
  /\ SubmitTransfer("CONTROL")
  /\ tpriv' = [tpriv EXCEPT !.urbs = TRUE, !.num_urbs = 1, !.reap_action = "NORMAL"]

Bulk == type \in {"BULK", "INTERRUPT"}

SubmitUrb ==
  /\ holder = "submit" /\ ~gone /\ ~cut
  /\ urb' = [urb EXCEPT ![at].state = "pending"]
  /\ IF at = tpriv.num_urbs - 1 THEN holder' = "submitted" /\ UNCHANGED at
                                ELSE at' = at + 1 /\ UNCHANGED holder
  /\ UNCHANGED <<discarding, tpriv, itransfer, completing, type, finished, cut,
                 halted, gone, fd_removed, caps, history>>

(* The first URB is refused: the submission fails and leaves nothing.      *)
SubmitFirstUrbFails ==
  /\ holder = "submit" /\ at = 0
  /\ tpriv' = [tpriv EXCEPT !.urbs = FALSE]
  /\ holder' = "none"
  /\ UNCHANGED <<at, discarding, itransfer, completing, type, kernel, caps, history>>

(* Mutant of SubmitUrbFails: the URBs not submitted are not counted.       *)
SubmitUrbFails_NotCounted(action) == tpriv' = [tpriv EXCEPT !.reap_action = action]

(* A later one is refused: the transfer counts as submitted, the URBs that *)
(* were not submitted count as retired.  EREMOTEIO says that the transfer  *)
(* has ended short already.                                                *)
SubmitUrbFails(action) ==
  tpriv' = [tpriv EXCEPT !.reap_action = action,
                         !.num_retired = @ + (tpriv.num_urbs - at)]

SubmitCutShort ==
  /\ holder = "submit" /\ at > 0 /\ cut /\ ~gone
  /\ SubmitUrbFails("COMPLETED_EARLY")
  /\ holder' = "submitted"
  /\ UNCHANGED <<at, discarding, itransfer, completing, type, kernel, caps, history>>

SubmitLaterUrbFails ==
  /\ holder = "submit" /\ Bulk /\ at > 0 /\ (gone \/ ~cut)
  /\ SubmitUrbFails("SUBMIT_FAILED")
  /\ StartDiscard("submitDiscard", 0, at - 1)
  /\ UNCHANGED <<itransfer, completing, type, kernel, caps, history>>

SubmitIsoUrbFails ==
  /\ holder = "submit" /\ type = "ISO" /\ at > 0
  /\ tpriv' = [tpriv EXCEPT !.reap_action = "SUBMIT_FAILED",
                            !.num_retired = tpriv.num_urbs - at]
  /\ StartDiscard("submitDiscard", 0, at - 1)
  /\ UNCHANGED <<itransfer, completing, type, kernel, caps, history>>

(* libusb_submit_transfer sees success.                                    *)
Submitted ==
  /\ holder = "submitted"
  /\ itransfer' = [itransfer EXCEPT !.in_flight = TRUE]
  /\ holder' = "none"
  /\ status' = "none" /\ cancelled' = FALSE
  /\ UNCHANGED <<at, discarding, tpriv, completing, type, kernel, caps, hole>>

-----------------------------------------------------------------------------
(* libusb_cancel_transfer and op_cancel_transfer.                          *)
CancelTransfer ==
  /\ holder = "none" /\ itransfer.in_flight /\ ~itransfer.cancelling
  /\ itransfer' = [itransfer EXCEPT !.cancelling = TRUE]
  /\ IF tpriv.urbs THEN StartDiscard("cancelDiscard", 0, tpriv.num_urbs - 1)
                   ELSE UNCHANGED <<holder, at, discarding>>   \* NOT_FOUND
  /\ UNCHANGED <<tpriv, completing, type, kernel, caps, history>>

(* Mutant of CancelDone: cancelled whatever the discarding said.           *)
CancelDone_IgnoresResult ==
  /\ holder = "cancelDone"
  /\ cancelled' = (cancelled \/ ret = "SUCCESS")
  /\ tpriv' = [tpriv EXCEPT !.reap_action = "CANCELLED"]
  /\ holder' = "none"
  /\ UNCHANGED <<at, discarding, itransfer, completing, type, kernel, caps, status, hole>>

CancelDone ==
  /\ holder = "cancelDone"
  /\ IF ret = "SUCCESS"
     THEN /\ cancelled' = TRUE
          /\ tpriv' = IF type = "BULK" /\ tpriv.reap_action = "ERROR" THEN tpriv
                      ELSE [tpriv EXCEPT !.reap_action = "CANCELLED"]
     ELSE UNCHANGED <<cancelled, tpriv>>
  /\ holder' = "none"
  /\ UNCHANGED <<at, discarding, itransfer, completing, type, kernel, caps, status, hole>>

-----------------------------------------------------------------------------
(* reap_for_handle, by the event handler, and handle_bulk_completion.  A   *)
(* device that is gone is reaped only if the kernel allows it.             *)
Reapable == /\ finished # << >> /\ holder = "none" /\ ~completing
            /\ gone => reapsGone /\ ~fd_removed

reaped == Head(finished)
length == urb[reaped].actual_length

(* Mutant of Full: a short URB does not end the transfer.                  *)
Full_AnyLength == length \in 0 .. UrbLength

Full == length = UrbLength

TakeUrb == /\ urb' = [urb EXCEPT ![reaped].state = "reaped"]
           /\ finished' = Tail(finished)
           /\ UNCHANGED <<cut, halted, gone, fd_removed>>

Retired == tpriv.num_retired + 1
AllRetired == Retired = tpriv.num_urbs

AddData == itransfer' = [itransfer EXCEPT !.transferred = @ + length]

(* Frees the URBs and drops the lock; the report comes next.               *)
Complete(action, result) ==
  /\ tpriv' = [tpriv EXCEPT !.urbs = FALSE, !.num_retired = Retired,
                            !.reap_action = action, !.reap_status = result]
  /\ completing' = TRUE
  /\ UNCHANGED <<holder, at, discarding>>

KeepReaping(action, result) ==
  /\ tpriv' = [tpriv EXCEPT !.num_retired = Retired,
                            !.reap_action = action, !.reap_status = result]
  /\ UNCHANGED completing

(* Mutants of CancelRemaining: reports without waiting for the URBs that   *)
(* remain; forgets the verdict of a low level error.                       *)
CancelRemaining_ReportsAtOnce(action, result) ==
  Complete(action, IF action = "ERROR" THEN "ERROR" ELSE result)
CancelRemaining_NoVerdict(action, result) ==
  IF AllRetired THEN Complete(action, result)
  ELSE /\ KeepReaping(action, result)
       /\ StartDiscard("reapDiscard", reaped + 1, tpriv.num_urbs - 1)

CancelRemaining(action, result) ==
  LET verdict == IF action = "ERROR" /\ result = "COMPLETED" THEN "ERROR" ELSE result
  IN  IF AllRetired THEN Complete(action, verdict)
      ELSE /\ KeepReaping(action, verdict)
           /\ StartDiscard("reapDiscard", reaped + 1, tpriv.num_urbs - 1)

FirstVerdict(v) == IF tpriv.reap_status = "COMPLETED" THEN v ELSE tpriv.reap_status

(* In the normal case data stays where the URB has received it.            *)
DataInPlace == hole' = (hole \/ (length > 0 /\ itransfer.transferred # reaped * UrbLength))

(* Otherwise it is moved behind the data before it, which is its place only*)
(* if that came from earlier URBs.                                         *)
DataMoved ==
  hole' = (hole \/ (length > 0 /\ \E v \in Urbs : /\ v > reaped
                                               /\ urb[v].state = "reaped"
                                               /\ urb[v].actual_length > 0))

(* Cancelled, failed to submit, or completed early: surplus data is moved  *)
(* up to the data before it, and the last URB to come back is reported.    *)
ReapAbnormal ==
  /\ Reapable /\ Bulk /\ tpriv.reap_action # "NORMAL"
  /\ TakeUrb /\ AddData /\ DataMoved
  /\ IF AllRetired
     THEN Complete(tpriv.reap_action,
                   IF tpriv.reap_action # "COMPLETED_EARLY"
                   THEN FirstVerdict("ERROR") ELSE tpriv.reap_status)
     ELSE /\ KeepReaping(tpriv.reap_action, tpriv.reap_status)
          /\ UNCHANGED <<holder, at, discarding>>
  /\ UNCHANGED <<type, caps, status, cancelled>>

ReapOk ==
  /\ Reapable /\ Bulk /\ tpriv.reap_action = "NORMAL"
  /\ urb[reaped].status \in {"OK", "EREMOTEIO", "ENOENT", "ECONNRESET"}
  /\ TakeUrb /\ AddData /\ DataInPlace
  /\ IF reaped = tpriv.num_urbs - 1 THEN Complete("NORMAL", tpriv.reap_status)
     ELSE IF Full
     THEN /\ KeepReaping("NORMAL", tpriv.reap_status)
          /\ UNCHANGED <<holder, at, discarding>>
     ELSE CancelRemaining("COMPLETED_EARLY", tpriv.reap_status)
  /\ UNCHANGED <<type, caps, status, cancelled>>

ReapFailed ==
  /\ Reapable /\ Bulk /\ tpriv.reap_action = "NORMAL"
  /\ TakeUrb /\ AddData /\ DataInPlace
  /\ CASE urb[reaped].status = "ESHUTDOWN" -> CancelRemaining("NORMAL", "NO_DEVICE")
       [] urb[reaped].status = "EPIPE"     -> CancelRemaining("NORMAL", FirstVerdict("STALL"))
       [] urb[reaped].status = "EPROTO"    -> CancelRemaining("ERROR", tpriv.reap_status)
       [] urb[reaped].status = "EOVERFLOW" -> Complete("NORMAL", FirstVerdict("OVERFLOW"))
       [] OTHER -> FALSE
  /\ UNCHANGED <<type, caps, status, cancelled>>

(* handle_iso_completion: what became of its packets is copied behind that *)
(* of the URBs reaped before; the last URB in the transfer ends it.        *)
PacketsCopied ==
  hole' = (hole \/ (length > 0 /\ tpriv.iso_packet_offset # reaped))

IsoStatus ==
  CASE urb[reaped].status \in {"OK", "ENOENT", "ECONNRESET"} -> "COMPLETED"
    [] urb[reaped].status = "ESHUTDOWN" -> "NO_DEVICE"
    [] OTHER -> "ERROR"

ReapIso ==
  /\ Reapable /\ type = "ISO"
  /\ TakeUrb /\ PacketsCopied
  /\ LET normal == tpriv.reap_action = "NORMAL"
         over   == IF normal THEN reaped = tpriv.num_urbs - 1 ELSE AllRetired
     IN  /\ tpriv' = [tpriv EXCEPT
              !.num_retired = Retired, !.iso_packet_offset = @ + 1,
              !.urbs = ~over,
              !.reap_status = IF ~over THEN @ ELSE IF normal THEN IsoStatus ELSE "ERROR"]
         /\ completing' = over
  /\ UNCHANGED <<holder, at, discarding, itransfer, type, caps, status, cancelled>>

(* handle_control_completion.                                              *)
ControlStatus ==
  CASE urb[reaped].status = "OK"        -> "COMPLETED"
    [] urb[reaped].status = "ENOENT"    -> "CANCELLED"
    [] urb[reaped].status = "ESHUTDOWN" -> "NO_DEVICE"
    [] urb[reaped].status = "EPIPE"     -> "STALL"
    [] urb[reaped].status = "EOVERFLOW" -> "OVERFLOW"
    [] OTHER -> "ERROR"

ReapControl ==
  /\ Reapable /\ type = "CONTROL"
  /\ TakeUrb /\ AddData
  /\ tpriv' = [tpriv EXCEPT !.urbs = FALSE, !.reap_status = ControlStatus]
  /\ completing' = TRUE
  /\ UNCHANGED <<holder, at, discarding, type, caps, status, cancelled, hole>>

(* usbi_handle_transfer_completion or _cancellation: the callback.  Here   *)
(* reap_status stands for what the two were called with.                   *)
Report ==
  /\ completing
  /\ completing' = FALSE
  /\ itransfer' = [itransfer EXCEPT !.in_flight = FALSE]
  /\ status' = IF tpriv.reap_action = "CANCELLED" THEN "CANCELLED" ELSE tpriv.reap_status
  /\ UNCHANGED <<holder, at, discarding, tpriv, type, kernel, caps, cancelled, hole>>

(* Mutant of HandleDisconnect: does not ask whether the transfer is in     *)
(* flight.                                                                 *)
HandleDisconnect_ReportsIdle ==
  /\ gone /\ ~fd_removed /\ holder = "none" /\ ~completing
  /\ reapsGone => finished = << >>
  /\ fd_removed' = TRUE
  /\ tpriv' = [tpriv EXCEPT !.urbs = FALSE]
  /\ itransfer' = [itransfer EXCEPT !.in_flight = FALSE]
  /\ status' = "NO_DEVICE"
  /\ UNCHANGED <<holder, at, discarding, completing, type, urb, finished, cut,
                 halted, gone, caps, cancelled, hole>>

(* The event handler finds POLLERR and has reaped what it may: the transfer*)
(* that is still in flight ends here (usbi_handle_disconnect).             *)
HandleDisconnect ==
  /\ gone /\ ~fd_removed /\ holder = "none" /\ ~completing
  /\ reapsGone => finished = << >>
  /\ fd_removed' = TRUE
  /\ IF itransfer.in_flight
     THEN /\ tpriv' = [tpriv EXCEPT !.urbs = FALSE]
          /\ itransfer' = [itransfer EXCEPT !.in_flight = FALSE]
          /\ status' = "NO_DEVICE"
     ELSE UNCHANGED <<tpriv, itransfer, status>>
  /\ UNCHANGED <<holder, at, discarding, completing, type, urb, finished, cut,
                 halted, gone, caps, cancelled, hole>>

-----------------------------------------------------------------------------
(* The kernel and the device.                                              *)
Cuts == continuation /\ type = "BULK"   \* retires and refuses what follows

UrbFinishes(u) ==
  /\ Active(u) /\ ~cut /\ ~halted /\ ~gone
  /\ Retire(u, "OK", UrbLength)
  /\ UNCHANGED <<holder, at, discarding, tpriv, itransfer, completing, type,
                 cut, halted, gone, fd_removed, caps, history>>

(* A short packet ends the transfer.  Every URB but the last has           *)
(* SHORT_NOT_OK when continuation is used.                                 *)
UrbFinishesShort(u) ==
  /\ Active(u) /\ type # "ISO" /\ ~cut /\ ~halted /\ ~gone
  /\ \E n \in PartialLengths(u) :
       Retire(u, IF continuation /\ u < tpriv.num_urbs - 1 THEN "EREMOTEIO" ELSE "OK", n)
  /\ cut' = (Cuts /\ u < tpriv.num_urbs - 1)
  /\ UNCHANGED <<holder, at, discarding, tpriv, itransfer, completing, type,
                 halted, gone, fd_removed, caps, history>>

(* A stall or a low level error; the endpoint is halted.                   *)
UrbFails(u) ==
  /\ Active(u) /\ type # "ISO" /\ ~cut /\ ~halted /\ ~gone
  /\ \E why \in Failures \ {"EOVERFLOW"}, n \in PartialLengths(u) :
       /\ why = "EPIPE" => EarlyStalls \/ u + 2 >= tpriv.num_urbs
       /\ Retire(u, why, n)
  /\ halted' = TRUE
  /\ cut' = Cuts
  /\ UNCHANGED <<holder, at, discarding, tpriv, itransfer, completing, type,
                 gone, fd_removed, caps, history>>

(* More data than the transfer asked for.                                  *)
UrbOverflows(u) ==
  /\ Active(u) /\ type # "ISO" /\ ~cut /\ ~halted /\ ~gone
  /\ u = tpriv.num_urbs - 1 /\ "EOVERFLOW" \in Failures
  /\ Retire(u, "EOVERFLOW", UrbLength)
  /\ UNCHANGED <<holder, at, discarding, tpriv, itransfer, completing, type,
                 cut, halted, gone, fd_removed, caps, history>>

(* The kernel unlinks what follows an URB that ended the transfer.         *)
UrbCut(u) ==
  /\ Active(u) /\ cut /\ ~gone
  /\ Retire(u, "ECONNRESET", 0)
  /\ UNCHANGED <<holder, at, discarding, tpriv, itransfer, completing, type,
                 cut, halted, gone, fd_removed, caps, history>>

Unplug ==
  /\ ~gone /\ gone' = TRUE
  /\ holder = "cancelDiscard" => UnplugInCancel \/ at = tpriv.num_urbs - 1
  /\ UNCHANGED <<holder, at, discarding, tpriv, itransfer, completing, type,
                 urb, finished, cut, halted, fd_removed, caps, history>>

(* An URB is shut down, or killed with the interface it belongs to: a      *)
(* control URB belongs to none.                                            *)
UrbGone(u) ==
  /\ Active(u) /\ gone
  /\ \E why \in {"ESHUTDOWN", "ENOENT"} :
       /\ why = "ENOENT" => type # "CONTROL"
       /\ Retire(u, why, 0)
  /\ UNCHANGED <<holder, at, discarding, tpriv, itransfer, completing, type,
                 cut, halted, gone, fd_removed, caps, history>>

-----------------------------------------------------------------------------
Submit  == \/ \E n \in 1 .. MaxUrbs :
                \/ \E ty \in {"BULK", "INTERRUPT"} : submit_bulk_transfer(n, ty)
                \/ submit_iso_transfer(n)
           \/ submit_control_transfer
           \/ SubmitUrb \/ SubmitFirstUrbFails \/ SubmitCutShort
           \/ SubmitLaterUrbFails \/ SubmitIsoUrbFails \/ Submitted
Discard == DiscardPending \/ DiscardNotFound \/ DiscardNoDevice
Cancel  == CancelTransfer \/ CancelDone
Reap    == \/ ReapAbnormal \/ ReapOk \/ ReapFailed \/ ReapIso \/ ReapControl
           \/ Report \/ HandleDisconnect
Kernel  == \/ Unplug
           \/ \E u \in Urbs : \/ UrbFinishes(u) \/ UrbFinishesShort(u) \/ UrbFails(u)
                             \/ UrbOverflows(u) \/ UrbCut(u) \/ UrbGone(u)

Next == Submit \/ Discard \/ Cancel \/ Reap \/ Kernel

(* Threads inside the library go on, somebody handles events, and the      *)
(* kernel retires what it has cut off; a device owes nothing.              *)
Fairness ==
  /\ WF_vars(Discard) /\ WF_vars(CancelDone) /\ WF_vars(Reap)
  /\ WF_vars(\E u \in Urbs : UrbCut(u) \/ UrbGone(u))

Safety == Init /\ [][Next]_vars
Spec   == Safety /\ Fairness

-----------------------------------------------------------------------------
Results == {"COMPLETED", "ERROR", "STALL", "OVERFLOW", "NO_DEVICE", "CANCELLED"}

(* Types, and the bounds of the counters: num_retired never passes num_urbs*)
(* and the data reported never passes the buffer.                          *)
TypeOK ==
  /\ holder \in {"none", "submit", "submitDiscard", "submitted", "cancelDiscard",
                 "cancelDone", "reapDiscard"}
  /\ at \in Urbs /\ first \in Urbs /\ last \in Urbs
  /\ ret \in {"SUCCESS", "NOT_FOUND", "NO_DEVICE"}
  /\ tpriv \in [urbs : BOOLEAN, num_urbs : 1 .. MaxUrbs, num_retired : 0 .. MaxUrbs,
                iso_packet_offset : 0 .. MaxUrbs,
                reap_action : {"NORMAL", "SUBMIT_FAILED", "CANCELLED",
                               "COMPLETED_EARLY", "ERROR"},
                reap_status : Results]
  /\ type # "CONTROL" => tpriv.num_retired <= tpriv.num_urbs
  /\ itransfer \in [in_flight : BOOLEAN, cancelling : BOOLEAN,
                    transferred : 0 .. MaxUrbs * UrbLength]
  /\ itransfer.transferred <= tpriv.num_urbs * UrbLength
  /\ completing \in BOOLEAN /\ type \in {"BULK", "INTERRUPT", "ISO", "CONTROL"}
  /\ urb \in [Urbs -> [state : {"none", "pending", "done", "reaped"},
                       status : {"OK", "EREMOTEIO", "ENOENT", "ECONNRESET",
                                 "ESHUTDOWN"} \cup Failures,
                       actual_length : 0 .. UrbLength]]
  /\ finished \in Seq(Urbs) /\ Len(finished) <= MaxUrbs
  /\ {continuation, reapsGone, cut, halted, gone, fd_removed,
      cancelled, hole} \subseteq BOOLEAN
  /\ status \in {"none"} \cup Results

(* "Cancel remaining urbs and wait for their completion before reporting   *)
(* results" (handle_bulk_completion): when the array of URBs is freed, no  *)
(* URB that will still be reaped lies in it.                               *)
NoUrbLeft ==
  ~tpriv.urbs /\ (gone => reapsGone /\ ~fd_removed) => Outstanding = {}

(* The count of retired URBs reaches num_urbs: a transfer in flight that   *)
(* nobody works on has an URB still to come back, or a disconnection to be *)
(* handled.                                                                *)
NotStuck ==
  itransfer.in_flight /\ holder = "none" /\ ~completing =>
    Outstanding # {} \/ (gone /\ ~fd_removed)

(* What libusb_cancel_transfer promises when it returns success: the       *)
(* callback is told CANCELLED, or that the device went away; and nobody is *)
(* told CANCELLED otherwise.                                               *)
CancelTruth ==
  status # "none" =>
    /\ cancelled => status = "CANCELLED" \/ (gone /\ status = "NO_DEVICE")
    /\ status = "CANCELLED" => cancelled

(* The caller gets one run of data: no URB's data lies apart from the data *)
(* before it or is overwritten, also when surplus data arrived.            *)
NoHoles == type # "ISO" => ~hole

(* "Amount of data that was actually transferred" (libusb.h:1185): each    *)
(* isochronous packet is told what became of itself.                       *)
PacketsInPlace == type = "ISO" => ~hole

(* A transfer whose data ended in a stall or a low level error is not      *)
(* reported COMPLETED.  This needs an URB that is reaped with reap_action  *)
(* NORMAL: with bulk continuation, a failure that comes back while the     *)
(* transfer is still submitted makes the kernel refuse the next URB with   *)
(* EREMOTEIO, and submit_bulk_transfer takes it for an early completion.   *)
FailedFirst(u) ==
  /\ urb[u].state = "reaped" /\ urb[u].status \in {"EPIPE", "EPROTO"}
  /\ \A v \in Urbs : v < u => urb[v].actual_length = UrbLength
StatusHonest ==
  status = "COMPLETED" /\ ~gone /\ ~continuation => ~\E u \in Urbs : FailedFirst(u)

(* A transfer somebody asked to cancel is reported, whatever the device    *)
(* does: every URB is handed back and counted.                             *)
CancelledReturns == itransfer.cancelling /\ itransfer.in_flight ~> ~itransfer.in_flight

(* The transfer as its user sees it: every submission is reported exactly  *)
(* once, and as cancelled exactly when the cancellation was accepted.      *)
Transfer == INSTANCE AsyncTransfer WITH
              in_flight <- itransfer.in_flight, cancelled <- cancelled, status <- status
ImplementsTransfer == Transfer!Spec

=============================================================================
